------------------------------ MODULE RtspClient ------------------------------
(* The request queues of live555's RTSPClient: what becomes of a command     *)
(* between sendXCommand and the call of its response handler.                *)
(*                                                                           *)
(* Everything runs in the thread of the event loop.  A handler of a socket   *)
(* works through its list without returning, but on the way it calls the     *)
(* program's response handlers, and those send more commands.  todo holds    *)
(* what the running handler has still to do, the next thing first; while the *)
(* first entry is "handler" the program's code runs, and while todo is empty *)
(* the event loop does.                                                      *)
(*                                                                           *)
(* A request is its identity and its CSeq.  A response carries the identity  *)
(* of the request the server answers with it, which the code cannot see, and *)
(* the CSeq, which it can.  The server answers the requests of a connection  *)
(* in order, may leave some unanswered, may answer one twice, and may split  *)
(* or join its answers.                                                      *)
EXTENDS Naturals, Sequences, FiniteSets

CONSTANTS MaxRequests,   \* how many commands the program sends
          MaxFaults,     \* how often a socket or the server fails
          MaxRedirects,  \* how often the server answers 301 or 302
          MaxRepeats     \* how often it answers a request once more

ASSUME RtspClientAssumption ==
  /\ MaxRequests \in Nat \ {0} /\ MaxFaults \in Nat
  /\ MaxRedirects \in Nat /\ MaxRepeats \in Nat

VARIABLES
  tunnel,              \* fTunnelOverHTTPPortNum # 0
  awaitingConnection,  \* fRequestsAwaitingConnection
  awaitingTunneling,   \* fRequestsAwaitingHTTPTunneling
  awaitingResponse,    \* fRequestsAwaitingResponse
  sent,                \* how many commands the program has sent
  cseq,                \* fCSeq
  input,               \* fInputSocketNum: none, connecting, open
  output,              \* fOutputSocketNum: the same, or the tunnel's own
  tunnelPending,       \* fHTTPTunnelingConnectionIsPending
  unchallenged,        \* fCurrentAuthenticator has no realm yet
  buffer,              \* fResponseBuffer: the responses read, not handled
  todo,                \* what the running handler has still to do
  unanswered,          \* the requests the server has on this connection
  outcomes,            \* for each request, the results its handler was given
  dropped,             \* the requests deleted without a call
  broken,              \* a deleted request was used
  kept,                \* history: a response stayed in the buffer after the
                       \* scan for its request
  faults, redirects, repeats

queues  == <<awaitingConnection, awaitingTunneling, awaitingResponse>>
sockets == <<input, output, unanswered>>
results == <<outcomes, dropped, broken, kept>>
bounds  == <<faults, redirects, repeats>>

vars == <<tunnel, queues, sent, cseq, sockets, tunnelPending, unchallenged, buffer,
          todo, results, bounds>>

Ids     == 1..MaxRequests
GET     == [id |-> MaxRequests + 1, cseq |-> 1]
Failure == 0           \* the result of handleRequestError

\* Responses that the parser does not come to the end of: it cannot read the
\* headers, or not the length of the body, or the body does not fit the buffer.
Malformed == {"unreadable", "garbled", "oversized"}

Codes == {"ok", "bad", "error", "unauthorized", "redirect"} \cup Malformed

Entry(what, request) ==
  [do |-> what, req |-> request, from |-> Failure, good |-> FALSE]

Call(request, id, ok) ==
  [do |-> "call", req |-> request, from |-> id, good |-> ok]

HandlerRuns == Entry("handler", GET)

\* A turn of the loop over the responses, the first after a read or a later one.
ParseFirst == Entry("parse", GET)
ParseMore  == [ParseFirst EXCEPT !.good = TRUE]

Each(what, q) == [i \in 1..Len(q) |-> Entry(what, q[i])]
Errors(q)     == [i \in 1..Len(q) |-> Call(q[i], Failure, FALSE)]

Members(q) == {q[i] : i \in 1..Len(q)}

\* Mutant of ResetTCPSockets: the output socket is closed, not made the same.
ResetBothSockets == input' = "none" /\ output' = "none" /\ unanswered' = <<>>

ResetTCPSockets == input' = "none" /\ output' = "same" /\ unanswered' = <<>>

Fault == faults < MaxFaults /\ faults' = faults + 1

-----------------------------------------------------------------------------
(* Sending *)

Doing(what) == todo # <<>> /\ Head(todo).do = what

EventLoop == todo = <<>> /\ ~broken

NothingOutstanding ==
  /\ queues = <<<<>>, <<>>, <<>>>>
  /\ \A i \in 1..Len(todo) : todo[i].do # "send"

\* sendXCommand, called by a response handler or by a task of the event loop;
\* it brings its own copy of the authenticator.  The program waits for the
\* answer to its first command, so none is sent while a tunnel is set up.
SendCommand ==
  /\ EventLoop \/ Doing("handler")
  /\ tunnel /\ output = "same" /\ input # "none" => NothingOutstanding
  /\ sent < MaxRequests
  /\ sent' = sent + 1
  /\ cseq' = cseq + 1
  /\ unchallenged' = TRUE
  /\ todo' = <<Entry("send", [id |-> sent', cseq |-> cseq'])>> \o todo
  /\ UNCHANGED <<tunnel, queues, sockets, tunnelPending, buffer, results, bounds>>

\* What a failed sendRequest leaves to do: the handler is called.  After a
\* failed resend handleResponseBytes calls it again, with the deleted request.
Failed(entry) ==
  <<Call(entry.req, Failure, FALSE)>>
    \o (IF entry.do = "resend" THEN <<Entry("again", entry.req)>> ELSE <<>>)

\* sendRequest while another request waits for the connection.
EnqueueBehind(request, rest) ==
  /\ awaitingConnection # <<>>
  /\ awaitingConnection' = Append(awaitingConnection, request)
  /\ todo' = rest
  /\ UNCHANGED <<awaitingTunneling, awaitingResponse, sockets, faults>>

\* openConnection: the connection is pending, there at once, or refused.
OpenConnection(request, rest, failed) ==
  /\ awaitingConnection = <<>> /\ input = "none"
  /\ \/ /\ input' = "connecting"
        /\ awaitingConnection' = <<request>>
        /\ todo' = rest
        /\ UNCHANGED faults
     \/ /\ input' = "open"
        /\ UNCHANGED <<awaitingConnection, todo, faults>>
     \/ /\ Fault
        /\ todo' = failed \o rest
        /\ UNCHANGED <<input, awaitingConnection>>
  /\ UNCHANGED <<awaitingTunneling, awaitingResponse, output, unanswered>>

Transmit(request) ==
  /\ awaitingResponse' = Append(awaitingResponse, request)
  /\ unanswered' = Append(unanswered, request)

\* setupHTTPTunneling1: the request waits behind the GET, which goes first.
SetupTunnel(request, rest, failed) ==
  /\ \/ /\ Transmit(GET)
        /\ awaitingTunneling' = Append(awaitingTunneling, request)
        /\ todo' = rest
        /\ UNCHANGED faults
     \/ /\ Fault
        /\ todo' = <<Call(GET, Failure, FALSE)>> \o failed \o rest
        /\ UNCHANGED <<awaitingResponse, awaitingTunneling, unanswered>>

Transfer(request, rest, failed) ==
  /\ \/ /\ Transmit(request)
        /\ todo' = rest
        /\ UNCHANGED faults
     \/ /\ Fault
        /\ todo' = failed \o rest
        /\ UNCHANGED <<awaitingResponse, unanswered>>
  /\ UNCHANGED awaitingTunneling

SendRequest ==
  /\ Doing("send") \/ Doing("resend")
  /\ LET request == Head(todo).req
         rest    == Tail(todo)
         failed  == Failed(Head(todo))
     IN  \/ EnqueueBehind(request, rest)
         \/ OpenConnection(request, rest, failed)
         \/ /\ awaitingConnection = <<>> /\ input # "none"
            /\ IF tunnel /\ request # GET /\ output = "same"
               THEN SetupTunnel(request, rest, failed)
               ELSE Transfer(request, rest, failed)
            /\ UNCHANGED <<awaitingConnection, input, output>>
  /\ UNCHANGED <<tunnel, sent, cseq, tunnelPending, unchallenged, buffer, results,
                 redirects, repeats>>

-----------------------------------------------------------------------------
(* Calling the response handlers *)

CallHandler ==
  /\ Doing("call") /\ Head(todo).req.id \in Ids
  /\ outcomes' = [outcomes EXCEPT ![Head(todo).req.id] = Append(@, Head(todo).from)]
  /\ todo' = <<HandlerRuns>> \o Tail(todo)
  /\ UNCHANGED <<tunnel, queues, sent, cseq, sockets, tunnelPending, unchallenged,
                 buffer, dropped, broken, kept, bounds>>

HandlerReturns ==
  /\ Doing("handler")
  /\ todo' = Tail(todo)
  /\ UNCHANGED <<tunnel, queues, sent, cseq, sockets, tunnelPending, unchallenged,
                 buffer, results, bounds>>

\* After sendRequest has called the handler and deleted the request,
\* handleResponseBytes uses and deletes it once more.
CallAgain ==
  /\ Doing("again")
  /\ broken' = TRUE
  /\ todo' = <<>>
  /\ UNCHANGED <<tunnel, queues, sent, cseq, sockets, tunnelPending, unchallenged,
                 buffer, outcomes, dropped, kept, bounds>>

\* Mutant of TunnelFails: the requests behind the GET are not told.
TunnelFailsQuietly(rest) ==
  /\ tunnelPending' = FALSE
  /\ ResetTCPSockets
  /\ todo' = rest
  /\ UNCHANGED <<awaitingConnection, awaitingTunneling>>

\* responseHandlerForHTTP_GET1 with an error, its own or the server's.
TunnelFails(rest) ==
  /\ tunnelPending' = FALSE
  /\ ResetTCPSockets
  /\ todo' = Errors(awaitingTunneling) \o rest
  /\ awaitingTunneling' = <<>>
  /\ UNCHANGED awaitingConnection

\* Mutant of TunnelOpens: the requests are copied, not moved.
TunnelOpensCopying(rest) ==
  /\ \/ /\ output' = "connecting" /\ tunnelPending' = TRUE
        /\ awaitingConnection' = awaitingConnection \o awaitingTunneling
        /\ todo' = rest
     \/ /\ output' = "own" /\ tunnelPending' = FALSE
        /\ todo' = Each("send", awaitingTunneling) \o rest
        /\ UNCHANGED awaitingConnection
  /\ UNCHANGED <<awaitingTunneling, input, unanswered>>

\* The second connection of the tunnel is pending, or there at once: then the
\* POST has been sent on it.
TunnelOpens(rest) ==
  /\ \/ /\ output' = "connecting" /\ tunnelPending' = TRUE
        /\ awaitingConnection' = awaitingConnection \o awaitingTunneling
        /\ todo' = rest
     \/ /\ output' = "own" /\ tunnelPending' = FALSE
        /\ todo' = Each("send", awaitingTunneling) \o rest
        /\ UNCHANGED awaitingConnection
  /\ awaitingTunneling' = <<>>
  /\ UNCHANGED <<input, unanswered>>

HandlerForGET ==
  /\ Doing("call") /\ Head(todo).req = GET
  /\ \/ ~Head(todo).good /\ TunnelFails(Tail(todo)) /\ UNCHANGED faults
     \/ Head(todo).good /\ Fault /\ TunnelFails(Tail(todo))
     \/ Head(todo).good /\ TunnelOpens(Tail(todo)) /\ UNCHANGED faults
  /\ UNCHANGED <<tunnel, awaitingResponse, sent, cseq, unchallenged, buffer, results,
                 redirects, repeats>>

-----------------------------------------------------------------------------
(* The connection *)

\* Mutant of ConnectionSucceeds: the requests are sent while they are still
\* queued, and so are queued all over again.
ConnectionSucceedsInPlace ==
  /\ EventLoop
  /\ input = "connecting" \/ output = "connecting"
  /\ input' = "open"
  /\ output' = IF output = "connecting" THEN "own" ELSE output
  /\ tunnelPending' = FALSE
  /\ todo' = <<Entry("send", Head(awaitingConnection))>>
  /\ awaitingConnection' = Tail(awaitingConnection)
  /\ UNCHANGED <<tunnel, awaitingTunneling, awaitingResponse, sent, cseq, unanswered,
                 unchallenged, buffer, results, bounds>>

\* connectionHandler1: the pending connection is there, and if it was the
\* tunnel's second one the POST has been sent.
ConnectionSucceeds ==
  /\ EventLoop
  /\ input = "connecting" \/ output = "connecting"
  /\ input' = "open"
  /\ output' = IF output = "connecting" THEN "own" ELSE output
  /\ tunnelPending' = FALSE
  /\ todo' = Each("send", awaitingConnection)
  /\ awaitingConnection' = <<>>
  /\ UNCHANGED <<tunnel, awaitingTunneling, awaitingResponse, sent, cseq, unanswered,
                 unchallenged, buffer, results, bounds>>

\* The error of the second connection is not seen by getsockopt, which asks
\* the first socket; the POST fails on it, and clears the flag first.
ConnectionFails ==
  /\ EventLoop
  /\ input = "connecting" \/ output = "connecting"
  /\ Fault
  /\ ResetTCPSockets
  /\ tunnelPending' = FALSE
  /\ todo' = Errors(awaitingConnection)
  /\ awaitingConnection' = <<>>
  /\ UNCHANGED <<tunnel, awaitingTunneling, awaitingResponse, sent, cseq, unchallenged,
                 buffer, results, redirects, repeats>>

\* handleResponseBytes after a failed read: the connection is gone.
ConnectionLost ==
  /\ EventLoop
  /\ input = "open"
  /\ Fault
  /\ ResetTCPSockets
  /\ buffer' = <<>>
  /\ todo' = Errors(awaitingResponse)
  /\ awaitingResponse' = <<>>
  /\ UNCHANGED <<tunnel, awaitingConnection, awaitingTunneling, sent, cseq,
                 tunnelPending, unchallenged, results, redirects, repeats>>

-----------------------------------------------------------------------------
(* Responses *)

Response(request, code) ==
  [id   |-> request.id,
   cseq |-> IF request = GET THEN 0 ELSE request.cseq,   \* HTTP has no CSeq
   code |-> code]

\* A request of the server's own, which may arrive between two answers.
ServerRequest == [id |-> Failure, cseq |-> 0, code |-> "request"]

\* What the server may answer.  To the queues an error is the same as ok except
\* for the GET, whose answer nothing can be bad about.  The server redirects the
\* first request only: with a tunnel that request is the only one, and no other
\* answer is on its way.
MayAnswer(request, code) ==
  /\ request = GET => code # "bad"
  /\ code = "error" => request = GET
  /\ code = "redirect" =>
       /\ redirects < MaxRedirects
       /\ tunnel => Len(awaitingResponse) = 1 /\ Len(unanswered) = 1 /\ buffer = <<>>

\* One read brings the answers to the first one or two requests, or answers
\* between which the server asks something itself.
ReadResponses ==
  /\ EventLoop
  /\ input = "open"
  /\ \E n \in 1..2 : \E codes \in [1..n -> Codes] :
       LET answers == [i \in 1..n |-> Response(unanswered[i], codes[i])]
       IN  /\ n <= Len(unanswered)
           /\ \A i \in 1..n : MayAnswer(unanswered[i], codes[i])
           /\ \/ /\ buffer' = buffer \o answers
                 /\ IF \A i \in 1..n : codes[i] \notin Malformed
                    THEN UNCHANGED faults
                    ELSE Fault
              \/ /\ buffer' = buffer \o <<ServerRequest>> \o answers
                 /\ Fault
           /\ \/ /\ unanswered' = SubSeq(unanswered, n + 1, Len(unanswered))
                 /\ UNCHANGED repeats
              \/ /\ repeats < MaxRepeats /\ n = 1 /\ unanswered[1] # GET
                 /\ repeats' = repeats + 1
                 /\ UNCHANGED unanswered
  /\ todo' = <<ParseFirst>>
  /\ UNCHANGED <<tunnel, queues, sent, cseq, input, output, tunnelPending, unchallenged,
                 results, redirects>>

\* A read that brings no whole response, but the rest of an oversized one or a blank
\* line: what is in the buffer is parsed again.
ReadRest ==
  /\ EventLoop
  /\ input = "open" /\ buffer # <<>>
  /\ todo' = <<ParseFirst>>
  /\ UNCHANGED <<tunnel, queues, sent, cseq, sockets, tunnelPending, unchallenged,
                 buffer, results, bounds>>

\* Mutant of TakenFor: the first request is taken, as without a CSeq.
TakenFirst(c) == 1

\* Mutant of TakenFor: the request with the CSeq itself counts as older.
TakenAfter(c) ==
  LET younger == {i \in 1..Len(awaitingResponse) : awaitingResponse[i].cseq > c}
  IN  IF c = 0 THEN 1
      ELSE IF younger = {} THEN Len(awaitingResponse) + 1
      ELSE CHOOSE i \in younger : \A j \in younger : i <= j

\* The requests the scan for a CSeq takes off the queue: up to the first that
\* is not older, and if that one is younger it is deleted too and the next one
\* taken for it.  Without a CSeq the first is taken.
TakenFor(c) ==
  LET notOlder == {i \in 1..Len(awaitingResponse) : awaitingResponse[i].cseq >= c}
      first    == CHOOSE i \in notOlder : \A j \in notOlder : i <= j
  IN  IF c = 0 THEN 1
      ELSE IF notOlder = {} THEN Len(awaitingResponse) + 1
      ELSE IF awaitingResponse[first].cseq = c THEN first ELSE first + 1

\* The scan finds a request with this CSeq, behind older ones only.
Matches(c) ==
  \E i \in 1..Len(awaitingResponse) :
    /\ awaitingResponse[i].cseq = c
    /\ \A j \in 1..i - 1 : awaitingResponse[j].cseq < c

\* Taking them: those before the one found are deleted.
Take(k) ==
  /\ dropped' = dropped \cup {awaitingResponse[i].id : i \in 1..k - 1}
  /\ awaitingResponse' = SubSeq(awaitingResponse, k + 1, Len(awaitingResponse))

\* Those before are deleted, and the one found, if any, stays at the head.
Pass(k) ==
  /\ dropped' = dropped \cup {awaitingResponse[i].id : i \in 1..k - 1}
  /\ awaitingResponse' = SubSeq(awaitingResponse, k, Len(awaitingResponse))

More(extra) == IF extra = <<>> THEN <<>> ELSE <<ParseMore>>

\* resendCommand, with the next CSeq unless it is the GET.
Resend(request, reset) ==
  LET renewed == IF request = GET THEN GET ELSE [request EXCEPT !.cseq = cseq + 1]
  IN  /\ cseq' = IF request = GET THEN cseq ELSE cseq + 1
      /\ buffer' = <<>>
      /\ todo' = <<Entry("resend", renewed)>>
      /\ IF reset THEN ResetTCPSockets ELSE UNCHANGED sockets

\* The complete response to the request found.
Handle(response, extra, request) ==
  \/ /\ \/ response.code \in {"ok", "error"}
        \/ response.code = "unauthorized" /\ ~unchallenged
     /\ buffer' = extra
     /\ todo' = <<Call(request, response.id, response.code = "ok")>> \o More(extra)
     /\ UNCHANGED <<cseq, sockets, unchallenged, redirects>>
  \/ /\ response.code = "bad"            \* the rest waits for the next read
     /\ buffer' = extra
     /\ todo' = <<Call(request, Failure, FALSE)>>
     /\ UNCHANGED <<cseq, sockets, unchallenged, redirects>>
  \/ /\ response.code = "unauthorized" /\ unchallenged
     /\ unchallenged' = FALSE
     /\ Resend(request, request = GET)
     /\ UNCHANGED redirects
  \/ /\ response.code = "redirect"
     /\ redirects' = redirects + 1
     /\ Resend(request, TRUE)
     /\ UNCHANGED unchallenged

\* What a turn that breaks off leaves in the buffer: numExtraBytesAfterResponse is
\* still 0 in the first one, so all is cleared, and in a later one it has the value
\* of the turn before, so all is kept, for the next read to be parsed again.
Left == IF Head(todo) = ParseFirst THEN <<>> ELSE buffer

\* The turn breaks off before anything is taken.
BreakOff ==
  /\ buffer' = Left
  /\ todo' = <<>>
  /\ UNCHANGED <<awaitingResponse, dropped, kept>>

\* The turn breaks off after the scan.  A request found is told.  If none has the
\* CSeq of a garbled response the next one is not taken for it either.
BreakOffLate(response, k) ==
  /\ IF k <= Len(awaitingResponse)
          /\ (response.code = "garbled" => Matches(response.cseq))
     THEN Take(k) /\ todo' = <<Call(awaitingResponse[k], Failure, FALSE)>>
     ELSE Pass(k) /\ todo' = <<>>
  /\ buffer' = Left
  /\ kept' = (kept \/ Left # <<>>)

\* The turn comes to the end of the response.
ParseWhole(response, extra, k) ==
  /\ Take(k)
  /\ UNCHANGED kept
  /\ \/ /\ k <= Len(awaitingResponse)
        /\ Handle(response, extra, awaitingResponse[k])
     \/ /\ k > Len(awaitingResponse)
        /\ buffer' = extra
        /\ todo' = More(extra)
        /\ UNCHANGED <<cseq, sockets, unchallenged, redirects>>

\* One turn of the loop of handleResponseBytes.
ParseResponse ==
  /\ Doing("parse")
  /\ LET response == Head(buffer)
         k        == TakenFor(response.cseq)
     IN  \/ /\ response.code \in {"request", "unreadable"}
            /\ BreakOff
            /\ UNCHANGED <<cseq, sockets, unchallenged, redirects>>
         \/ /\ response.code \in {"garbled", "oversized"}
            /\ BreakOffLate(response, k)
            /\ UNCHANGED <<cseq, sockets, unchallenged, redirects>>
         \/ /\ response.code \notin Malformed \cup {"request"}
            /\ ParseWhole(response, Tail(buffer), k)
  /\ UNCHANGED <<tunnel, awaitingConnection, awaitingTunneling, sent, tunnelPending,
                 outcomes, broken, faults, repeats>>

\* A read that brings the headers but not the whole body: the request found
\* goes back to the head of the queue.
ReadHeaders ==
  /\ EventLoop
  /\ input = "open" /\ buffer = <<>> /\ unanswered # <<>>
  /\ LET k == TakenFor(Response(Head(unanswered), "ok").cseq)
     IN  k > 1 /\ Pass(k)
  /\ UNCHANGED <<tunnel, awaitingConnection, awaitingTunneling, sent, cseq, sockets,
                 tunnelPending, unchallenged, buffer, todo, outcomes, broken, kept,
                 bounds>>

\* The response is larger than the buffer: the first request is told.
ResponseTruncated ==
  /\ EventLoop
  /\ input = "open" /\ unanswered # <<>>
  /\ Fault
  /\ unanswered' = Tail(unanswered)
  /\ buffer' = <<>>
  /\ Take(1)
  /\ todo' = IF awaitingResponse = <<>> THEN <<>>
             ELSE Errors(<<Head(awaitingResponse)>>)
  /\ UNCHANGED <<tunnel, awaitingConnection, awaitingTunneling, sent, cseq, input,
                 output, tunnelPending, unchallenged, outcomes, broken, kept, redirects,
                 repeats>>

\* The server leaves a request without an answer.
ServerSkips ==
  /\ EventLoop
  /\ unanswered # <<>>
  /\ Fault
  /\ unanswered' = Tail(unanswered)
  /\ UNCHANGED <<tunnel, queues, sent, cseq, input, output, tunnelPending, unchallenged,
                 buffer, todo, results, redirects, repeats>>

-----------------------------------------------------------------------------
Init ==
  /\ tunnel \in BOOLEAN
  /\ awaitingConnection = <<>> /\ awaitingTunneling = <<>> /\ awaitingResponse = <<>>
  /\ sent = 0 /\ cseq = 1
  /\ input = "none" /\ output = "same"
  /\ tunnelPending = FALSE /\ unchallenged = TRUE
  /\ buffer = <<>> /\ todo = <<>> /\ unanswered = <<>>
  /\ outcomes = [id \in Ids |-> <<>>] /\ dropped = {} /\ broken = FALSE
  /\ kept = FALSE
  /\ faults = 0 /\ redirects = 0 /\ repeats = 0

Running ==
  SendRequest \/ CallHandler \/ HandlerReturns \/ CallAgain \/ HandlerForGET
    \/ ParseResponse

Connection == ConnectionSucceeds \/ ConnectionFails

Next ==
  \/ SendCommand \/ Running \/ Connection \/ ConnectionLost
  \/ ReadResponses \/ ReadRest \/ ReadHeaders \/ ResponseTruncated \/ ServerSkips

\* A handler runs to its end, and an attempt to connect succeeds or fails.
Spec == Init /\ [][Next]_vars /\ WF_vars(Running) /\ WF_vars(Connection)
-----------------------------------------------------------------------------
(* Properties *)

Requests == [id : Ids, cseq : Nat \ {0}] \cup {GET}

Responses ==
  [id : 0..MaxRequests + 1, cseq : Nat, code : Codes \cup {"request"}]

Steps == [do : {"send", "resend", "again", "call", "handler", "parse"},
          req : Requests, from : 0..MaxRequests + 1, good : BOOLEAN]

\* Every variable has the values its counterpart in RTSPClient can have.
TypeOK ==
  /\ tunnel \in BOOLEAN
  /\ awaitingConnection \in Seq(Requests)
  /\ awaitingTunneling \in Seq(Requests)
  /\ awaitingResponse \in Seq(Requests)
  /\ sent \in 0..MaxRequests /\ cseq \in Nat \ {0}
  /\ input \in {"none", "connecting", "open"}
  /\ output \in {"same", "connecting", "own"}
  /\ tunnelPending \in BOOLEAN /\ unchallenged \in BOOLEAN
  /\ buffer \in Seq(Responses)
  /\ todo \in Seq(Steps)
  /\ unanswered \in Seq(Requests)
  /\ outcomes \in [Ids -> Seq(0..MaxRequests + 1)]
  /\ dropped \subseteq 1..MaxRequests + 1
  /\ broken \in BOOLEAN /\ kept \in BOOLEAN
  /\ faults \in 0..MaxFaults /\ redirects \in 0..MaxRedirects
  /\ repeats \in 0..MaxRepeats

\* How often a request is in a queue.
Copies(q, id) == Cardinality({i \in 1..Len(q) : q[i].id = id})

\* How often the running handler still has to send a request or call for it.
Intended(id) ==
  Cardinality({i \in 1..Len(todo) :
                 todo[i].do \in {"send", "resend", "call"} /\ todo[i].req.id = id})

\* A request that was sent is in one queue, or in the hands of the running
\* handler, or its handler was called, or it was deleted without a call: never
\* lost, and never handled twice, until a deleted request is used.
OnePlace ==
  ~broken =>
    \A id \in 1..sent :
      1 = Copies(awaitingConnection, id) + Copies(awaitingTunneling, id)
            + Copies(awaitingResponse, id) + Intended(id)
            + Len(outcomes[id]) + (IF id \in dropped THEN 1 ELSE 0)

\* The requests that await a response are queued by their CSeqs.
InOrder ==
  \A i, j \in 1..Len(awaitingResponse) :
    i < j => awaitingResponse[i].cseq < awaitingResponse[j].cseq

\* With a server that answers in order and once, the scan finds for a handler the
\* answer to its own request, or an error, whatever was resent or skipped before,
\* and whatever could not be read.  The scan takes for granted that the queue is by
\* CSeq, and it is, unless sending a request failed while more were to be sent
\* behind it; and that no response is scanned for twice, which is so until one
\* stays in the buffer after its request was taken.
RightAnswer ==
  [][Doing("parse") /\ repeats = 0 /\ ~kept /\ InOrder =>
       \A i \in 1..Len(todo') :
         todo'[i].do = "call" => todo'[i].from \in {Failure, todo'[i].req.id}]_vars

\* While a connection is pending some request waits for it, which is how
\* sendRequest knows.  And no request waits for something that will not come:
\* those waiting for the connection have one pending, unless the first connection
\* of the tunnel was lost while the second was pending; those waiting for the
\* tunnel have its GET under way; and without a redirection those waiting for a
\* response have the connection it will come on.
NoneStranded ==
  EventLoop =>
    /\ "connecting" \in {input, output} => awaitingConnection # <<>>
    /\ awaitingConnection # <<>> =>
         "connecting" \in {input, output} \/ (tunnelPending /\ input = "none")
    /\ awaitingTunneling # <<>> =>
         GET \in Members(awaitingConnection) \cup Members(awaitingResponse)
    /\ awaitingResponse # <<>> /\ redirects = 0 => input = "open"

\* With such a server a request is only deleted without a call when the server
\* will not answer it any more, until a response stays in the buffer after its
\* request was taken: parsed again, it takes the next one off the queue.
OnlySkippedDropped ==
  [][repeats = 0 /\ ~kept =>
     \A id \in dropped' \ dropped : id \notin {r.id : r \in Members(unanswered)}]_vars

\* "No handler was registered for this response, so ignore it": a response that
\* matches no request leaves the younger requests waiting for theirs.
UnmatchedIgnored ==
  [][Doing("parse") =>
       \A r \in Members(awaitingResponse) :
         /\ 0 < Head(buffer).cseq /\ Head(buffer).cseq < r.cseq
         /\ Head(buffer).cseq \notin {q.cseq : q \in Members(awaitingResponse)}
         => r \in Members(awaitingResponse')]_vars

\* A request that waits for a connection does not wait for ever: the attempt
\* ends, unless the first connection of the tunnel was lost during the second.
ConnectionsResolve ==
  \A id \in Ids :
    id \in {r.id : r \in Members(awaitingConnection)}
      ~> \/ id \notin {r.id : r \in Members(awaitingConnection)}
         \/ broken \/ (tunnelPending /\ input = "none")
=============================================================================
