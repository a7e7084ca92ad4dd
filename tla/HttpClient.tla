----------------------------- MODULE HttpClient -----------------------------
(***************************************************************************)
(* The pipelining HTTP client of src/src/http.rs: HttpClient, the task of  *)
(* ReconnectingStream with its HttpClientHandler, and, external to the     *)
(* code, the socket and the server.                                        *)
(*                                                                         *)
(* The client and the task run on one thread: send_request is called while *)
(* the task is not being polled (pc = "idle").  The network and the server *)
(* go on while it is, so that a poll is cut at every look at the socket.   *)
(* Requests are numbered in the order they are sent, an answer is the      *)
(* number of the request the server answers, and HttpParser is seen only   *)
(* through the whole responses it returns.                                 *)
(***************************************************************************)
EXTENDS Integers, SequencesExt

CONSTANTS MaxRequests,   \* requests sent
          MaxFailures,   \* refused dials and closed connections
          Parts,         \* units a request takes in the write buffer
          SendBuffer     \* units the socket holds before a write would block

ASSUME BoundsAssumption ==
  /\ MaxRequests \in Nat /\ MaxFailures \in Nat
  /\ Parts \in Nat \ {0} /\ SendBuffer \in Nat \ {0}

(* Results of a request other than the answer to it. *)
Notice == 0              \* a response the server sends unasked as it closes
Waiting == -1
Cancelled == -2

VARIABLES
  queue,          \* HttpClientInner::requests
  task,           \* HttpClientInner::task is some
  woken,          \* the spawned task is to be polled
  pc,             \* where poll is; "idle" when it is not running
  connection,     \* ConnectionState: "connecting" or "connected"
  dial,           \* what the connect future has: "pending", "up", "refused"
  pending,        \* HttpClientHandler::requests
  write_buffer,   \* units <<request, k>>, k in 1 .. Parts
  outgoing, incoming,  \* the socket: units sent, responses not read yet
  closed,         \* the peer has closed the connection
  arrived,        \* the server: whole requests it has read and not answered
  stray,          \* requests that left on connections that are gone
  served,         \* the requests it has carried out, in order
  results,        \* of every request: what its HttpResponseFuture gives
  failures        \* counter of MaxFailures

client == <<queue, task, woken, pc, connection, dial, pending, write_buffer>>
socket == <<outgoing, incoming, closed>>
server == <<arrived, stray, served>>
vars == <<client, socket, server, results, failures>>

Units(n) == [k \in 1 .. Parts |-> <<n, k>>]

(* The requests of which the last unit is in a sequence of units. *)
Whole(units) == {n \in 1 .. MaxRequests : <<n, Parts>> \in Range(units)}

Init ==
  /\ queue = <<>> /\ task = FALSE
  /\ woken = TRUE /\ pc = "idle"                 \* just spawned
  /\ connection = "connecting" /\ dial = "pending"
  /\ pending = <<>> /\ write_buffer = <<>>
  /\ outgoing = <<>> /\ incoming = <<>> /\ closed = FALSE
  /\ arrived = <<>> /\ stray = {} /\ served = <<>>
  /\ results = <<>> /\ failures = 0

-----------------------------------------------------------------------------
(* The code.                                                               *)

(* Mutant: the task is not notified. *)
SendRequestUnnoticed ==
  /\ pc = "idle"
  /\ Len(results) < MaxRequests
  /\ queue' = Append(queue, Len(results) + 1)
  /\ results' = Append(results, Waiting)
  /\ UNCHANGED <<task, woken, pc, connection, dial, pending, write_buffer, socket, server,
                 failures>>

(* HttpClient::send_request *)
SendRequest ==
  /\ pc = "idle"
  /\ Len(results) < MaxRequests
  /\ queue' = Append(queue, Len(results) + 1)
  /\ results' = Append(results, Waiting)
  /\ woken' = (woken \/ task)
  /\ UNCHANGED <<task, pc, connection, dial, pending, write_buffer, socket, server, failures>>

(* The executor polls ReconnectingStream. *)
Poll ==
  /\ pc = "idle" /\ woken
  /\ woken' = FALSE
  /\ pc' = IF connection = "connected" THEN "take" ELSE "connect"
  /\ UNCHANGED <<queue, task, connection, dial, pending, write_buffer, socket, server, results,
                 failures>>

(* ReconnectingStream::poll while connecting: a new handler when the dial  *)
(* is up, a new dial at once when it was refused.                          *)
Connect ==
  /\ pc = "connect"
  /\ \/ /\ dial = "pending"
        /\ pc' = "idle"
        /\ UNCHANGED <<connection, dial>>
     \/ /\ dial = "up"
        /\ connection' = "connected" /\ pc' = "take"
        /\ UNCHANGED dial
     \/ /\ dial = "refused"
        /\ dial' = "pending"
        /\ UNCHANGED <<connection, pc>>
  /\ UNCHANGED <<queue, task, woken, pending, write_buffer, socket, server, results, failures>>

(* Mutant: the newest request is taken first. *)
TakeRequestsBackwards ==
  /\ pc = "take"
  /\ task' = TRUE
  /\ \/ /\ queue # <<>>
        /\ queue' = Front(queue)
        /\ pending' = Append(pending, Last(queue))
        /\ write_buffer' = write_buffer \o Units(Last(queue))
        /\ UNCHANGED pc
     \/ /\ queue = <<>>
        /\ pc' = "write"
        /\ UNCHANGED <<queue, pending, write_buffer>>
  /\ UNCHANGED <<woken, connection, dial, socket, server, results, failures>>

(* poll_inner: register the task, take the new requests and write_request  *)
(* each.  They are taken one by one here; no other is sent meanwhile.      *)
TakeRequests ==
  /\ pc = "take"
  /\ task' = TRUE
  /\ \/ /\ queue # <<>>
        /\ queue' = Tail(queue)
        /\ pending' = Append(pending, Head(queue))
        /\ write_buffer' = write_buffer \o Units(Head(queue))
        /\ UNCHANGED pc
     \/ /\ queue = <<>>
        /\ pc' = "write"
        /\ UNCHANGED <<queue, pending, write_buffer>>
  /\ UNCHANGED <<woken, connection, dial, socket, server, results, failures>>

(* Mutants: the requests stay pending on the next connection; they are     *)
(* sent again.                                                             *)
CancelPendingNot == UNCHANGED <<results, pending, queue>>
CancelPendingButResend == /\ queue' = pending \o queue
                          /\ pending' = <<>>
                          /\ UNCHANGED results

(* HttpClientHandler::poll drains its requests when poll_inner fails. *)
CancelPending ==
  /\ results' = [n \in DOMAIN results |->
                   IF n \in Range(pending) THEN Cancelled ELSE results[n]]
  /\ pending' = <<>>
  /\ UNCHANGED queue

(* The handler's buffers and the socket go with it, and ReconnectingStream *)
(* dials again.  What had left whole may still reach the server.           *)
Reconnect ==
  /\ stray' = stray \cup Whole(outgoing) \cup Range(arrived)
  /\ write_buffer' = <<>>
  /\ outgoing' = <<>> /\ incoming' = <<>> /\ closed' = FALSE /\ arrived' = <<>>
  /\ connection' = "connecting" /\ dial' = "pending" /\ pc' = "connect"
  /\ UNCHANGED <<task, woken, served, failures>>

BreakUp == CancelPending /\ Reconnect

Room == SendBuffer - Len(outgoing)

(* write_to, when there is something to write: one write to the socket,    *)
(* which takes what fits.  WouldBlock is an error like any other.          *)
Write ==
  /\ pc = "write"
  /\ \/ /\ write_buffer = <<>>
        /\ pc' = "read"
        /\ UNCHANGED <<write_buffer, outgoing>>
     \/ /\ write_buffer # <<>> /\ Room > 0
        /\ LET n == IF Len(write_buffer) < Room THEN Len(write_buffer) ELSE Room IN
             /\ outgoing' = outgoing \o SubSeq(write_buffer, 1, n)
             /\ write_buffer' = SubSeq(write_buffer, n + 1, Len(write_buffer))
        /\ pc' = "read"
  /\ UNCHANGED <<queue, task, woken, connection, dial, pending, incoming, closed, server,
                 results, failures>>

WriteFails ==
  /\ pc = "write"
  /\ write_buffer # <<>>
  /\ closed \/ Room = 0
  /\ BreakUp

(* Mutant: the newest request gets the answer. *)
ReadResponseNewest ==
  /\ pc = "read"
  /\ incoming # <<>> /\ pending # <<>>
  /\ results' = [results EXCEPT ![Last(pending)] = Head(incoming)]
  /\ pending' = Front(pending) /\ incoming' = Tail(incoming)
  /\ pc' = "take"
  /\ UNCHANGED <<queue, task, woken, connection, dial, write_buffer, outgoing, closed, server,
                 failures>>

(* Mutant: it reads on, instead of going through the loop from its start.  *)
ReadResponseOnly ==
  /\ pc = "read"
  /\ incoming # <<>> /\ pending # <<>>
  /\ results' = [results EXCEPT ![Head(pending)] = Head(incoming)]
  /\ pending' = Tail(pending) /\ incoming' = Tail(incoming)
  /\ UNCHANGED <<queue, task, woken, pc, connection, dial, write_buffer, outgoing, closed, server,
                 failures>>

(* poll_for_response gives a response: it completes the oldest request.    *)
ReadResponse ==
  /\ pc = "read"
  /\ incoming # <<>> /\ pending # <<>>
  /\ results' = [results EXCEPT ![Head(pending)] = Head(incoming)]
  /\ pending' = Tail(pending) /\ incoming' = Tail(incoming)
  /\ pc' = "take"
  /\ UNCHANGED <<queue, task, woken, connection, dial, write_buffer, outgoing, closed, server,
                 failures>>

(* poll_for_response has nothing: the task waits for the socket or for     *)
(* send_request.                                                           *)
ReadNothing ==
  /\ pc = "read"
  /\ incoming = <<>> /\ ~closed
  /\ pc' = "idle"
  /\ UNCHANGED <<queue, task, woken, connection, dial, pending, write_buffer, socket, server,
                 results, failures>>

(* "Response without request", or the end of the connection. *)
ReadFails ==
  /\ pc = "read"
  /\ \/ incoming # <<>> /\ pending = <<>>
     \/ incoming = <<>> /\ closed
  /\ BreakUp

-----------------------------------------------------------------------------
(* The network and the server.  A task that waits is woken by them.        *)

Wake == woken' = (woken \/ pc = "idle")

DialEnds(outcome) ==
  /\ connection = "connecting" /\ dial = "pending"
  /\ outcome = "refused" => failures < MaxFailures
  /\ dial' = outcome
  /\ failures' = IF outcome = "refused" THEN failures + 1 ELSE failures
  /\ Wake
  /\ UNCHANGED <<queue, task, pc, connection, pending, write_buffer, socket, server, results>>

(* The server reads a unit; the last one makes a request whole. *)
ServerRead ==
  /\ outgoing # <<>> /\ ~closed
  /\ outgoing' = Tail(outgoing)
  /\ arrived' = IF Head(outgoing)[2] = Parts THEN Append(arrived, Head(outgoing)[1])
                ELSE arrived
  /\ UNCHANGED <<client, incoming, closed, stray, served, results, failures>>

(* It carries out a request and answers it. *)
Serve ==
  /\ arrived # <<>>
  /\ served' = Append(served, Head(arrived))
  /\ incoming' = Append(incoming, Head(arrived))
  /\ arrived' = Tail(arrived)
  /\ Wake
  /\ UNCHANGED <<queue, task, pc, connection, dial, pending, write_buffer, outgoing, closed,
                 stray, results, failures>>

(* It closes the connection, or the connection breaks; what has not been   *)
(* read of the last answers may be lost with it.  A server that has nothing*)
(* to do may say so first (408 Request Timeout).                           *)
Close ==
  /\ connection = "connected" /\ ~closed
  /\ failures < MaxFailures
  /\ failures' = failures + 1
  /\ closed' = TRUE
  /\ \/ \E n \in 0 .. Len(incoming) : incoming' = SubSeq(incoming, 1, n)
     \/ arrived = <<>> /\ incoming' = Append(incoming, Notice)
  /\ stray' = stray \cup Range(arrived)
  /\ arrived' = <<>>
  /\ Wake
  /\ UNCHANGED <<queue, task, pc, connection, dial, pending, write_buffer, outgoing, served,
                 results>>

(* A request that left on a connection that is gone is carried out late. *)
ServeStray ==
  /\ \E n \in stray : served' = Append(served, n) /\ stray' = stray \ {n}
  /\ UNCHANGED <<client, socket, arrived, results, failures>>

-----------------------------------------------------------------------------
PollStep == \/ Poll \/ Connect \/ TakeRequests
            \/ Write \/ WriteFails
            \/ ReadResponse \/ ReadNothing \/ ReadFails

Network == \/ \E outcome \in {"up", "refused"} : DialEnds(outcome)
           \/ ServerRead \/ Serve \/ Close \/ ServeStray

Next == SendRequest \/ PollStep \/ Network

Spec == Init /\ [][Next]_vars

(* The executor polls a task that is woken and a poll runs to its end; a   *)
(* dial ends, and the server reads and answers.                            *)
FairSpec == /\ Spec
            /\ WF_vars(PollStep)
            /\ WF_vars(\E outcome \in {"up", "refused"} : DialEnds(outcome))
            /\ WF_vars(ServerRead) /\ WF_vars(Serve)

-----------------------------------------------------------------------------
(* Properties.                                                             *)

(* The client never repeats a request by itself, so that the server carries*)
(* none out twice, whatever connections die in between.                    *)
AtMostOnce == \A i, j \in DOMAIN served : served[i] = served[j] => i = j

(* No wake-up by a request, an answer or an end is lost: while the task    *)
(* sleeps on a connection nothing is queued, and no answer and no end of   *)
(* the connection waits for it; nor has a dial ended unseen.  A rest of the*)
(* write buffer may well wait while the socket has room (http.rs:266).     *)
SleepsOnlyWhenIdle ==
  pc = "idle" /\ ~woken => /\ connection = "connected" =>
                                queue = <<>> /\ incoming = <<>> /\ ~closed
                           /\ connection = "connecting" => dial = "pending"

(* The client is what RequestService promises: the answer a request gets is*)
(* the answer to it, not to one before or after it in the pipeline or on an*)
(* earlier connection.  The exception is the notice of a server that       *)
(* closes, of which the code cannot know that it is not an answer.         *)
Service == INSTANCE RequestService
             WITH outstanding <- pending \o queue, Answer <- LAMBDA n : {n, Notice}
IsRequestService == Service!Spec

Waits(n) == n \in DOMAIN results /\ results[n] = Waiting

(* Where the socket holds a whole request, every request is answered or    *)
(* cancelled in the end.  The task never asks to be told when the socket   *)
(* has room for a rest of the write buffer (http.rs:266); but what fills   *)
(* such a socket has the end of a request in it, whose answer wakes the    *)
(* task, which then writes on.  With a smaller socket a request may hang.  *)
SettledInTheEnd ==
  SendBuffer >= Parts => \A n \in 1 .. MaxRequests : Waits(n) ~> ~Waits(n)

(* "If the connection dies any pending requests are cancelled" (http.rs:37)*)
(* and only then: a request is cancelled when the peer has closed or has   *)
(* answered what was not asked.                                            *)
CancelledOnlyIfConnectionDies ==
  [][(\E n \in DOMAIN results : results[n] = Waiting /\ results'[n] = Cancelled) => closed]_vars
=============================================================================
