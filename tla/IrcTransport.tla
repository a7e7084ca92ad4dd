---------------------------- MODULE IrcTransport ----------------------------
(***************************************************************************)
(* The line stream over an IRC client's socket: IrcServerConnection of     *)
(* src/src/irc/transport.rs and, external to the code, the socket, the     *)
(* client and the executor that polls the session's task.                  *)
(*                                                                         *)
(* Text is cut into units.  What the client sends is given by a script:    *)
(* unit <<n, k>> is the k-th of line n, and the last of a line is its      *)
(* newline.  The bridge's own lines have LineSize units each.              *)
(*                                                                         *)
(* The socket goes on while the stream is polled, so that a poll is cut at *)
(* every look at it.  poll_write is one step: what the client takes away   *)
(* while it runs could as well be taken away before or after.              *)
(*                                                                         *)
(* The reader of the stream given here polls it until it is not ready and  *)
(* answers every "ping", and other tasks of the session write lines too.   *)
(* Module Login has the session that reads it.                             *)
(***************************************************************************)
EXTENDS Integers, SequencesExt

CONSTANTS Scripts,      \* [lines : sequence of [kind, size], rest : units after them]
          BufferSize,   \* of the read buffer: 2048 in the code
          LineSize,
          SendBuffer,   \* units the socket holds before a write would block
          MaxWritten    \* lines written by other tasks than the reader

ASSUME SizesAssumption ==
  /\ BufferSize \in Nat \ {0} /\ LineSize \in Nat \ {0} /\ SendBuffer \in Nat \ {0}
  /\ MaxWritten \in Nat

ASSUME ScriptsAssumption ==
  \A s \in Scripts : s.lines \in Seq([kind : STRING, size : Nat \ {0}]) /\ s.rest \in Nat

VARIABLES
  script,           \* the script of this client
  unsent,           \* what it has still to send
  client,           \* "open", "finished" (sends no more) or "gone" (reset)
  inbox, outbox,    \* the socket, from and to the client
  received,         \* all the client has read
  woken,            \* the session's task is to be polled
  read_interest, write_interest,  \* ... and wants to be when the socket is ready
  pc,               \* where the poll is, or its result
  read_buffer, closed,
  write_buffer, position,  \* Cursor<Vec<u8>>
  write_notify,     \* IrcServerConnectionInner::write_notify is some
  consumed,         \* history: the lines poll_read has cut off, 0 for none of the script's
  written,          \* history: number of lines written
  failure           \* why the stream returned an error

environment == <<script, unsent, client, inbox, outbox, received>>
task == <<woken, read_interest, write_interest, pc>>
reader == <<read_buffer, closed>>
writer == <<write_buffer, position, write_notify>>
history == <<consumed, written, failure>>
tvars == <<environment, task, reader, writer, history>>

Lesser(m, n) == IF m < n THEN m ELSE n

Line(n) == [k \in 1 .. script.lines[n].size |-> <<n, k>>]
IsNewline(unit) == /\ unit[1] \in DOMAIN script.lines
                   /\ unit[2] = script.lines[unit[1]].size
NoByte == <<0, 0>>   \* what Vec::resize fills with

(* String::from_utf8 and IrcCommand::from_str, by what they make of a line. *)
Kind(n) == IF n = 0 THEN "invalid" ELSE script.lines[n].kind

(* The line of the script that a piece of text is. *)
LineOf(text) ==
  IF \E n \in DOMAIN script.lines : text = Line(n)
  THEN CHOOSE n \in DOMAIN script.lines : text = Line(n) ELSE 0

OwnLine(n) == [k \in 1 .. LineSize |-> <<n, k>>]

TransportInit ==
  /\ script \in Scripts
  /\ unsent = FlattenSeq([n \in DOMAIN script.lines |-> Line(n)])
                \o [k \in 1 .. script.rest |-> <<Len(script.lines) + 1, k>>]
  /\ client = "open" /\ inbox = <<>> /\ outbox = <<>> /\ received = <<>>
  /\ woken = TRUE /\ read_interest = FALSE /\ write_interest = FALSE /\ pc = "idle"
  /\ read_buffer = <<>> /\ closed = FALSE
  /\ write_buffer = <<>> /\ position = 0 /\ write_notify = FALSE
  /\ consumed = <<>> /\ written = 0 /\ failure = "none"

-----------------------------------------------------------------------------
(* The code.                                                               *)

(* Mutant: the buffer is cleared after a write, whatever was written.      *)
PollWriteClearing(buffer) ==
  LET left == SubSeq(buffer, position + 1, Len(buffer))
      n == IF client = "gone" THEN 0 ELSE Lesser(Len(left), SendBuffer - Len(outbox))
  IN  /\ outbox' = outbox \o SubSeq(left, 1, n)
      /\ write_buffer' = IF n > 0 THEN <<>> ELSE buffer
      /\ position' = 0
      /\ write_interest' = (write_interest \/ (n < Len(left) /\ client # "gone"))
      /\ write_notify' = TRUE

(* poll_write with the given text in the buffer: writes until all is       *)
(* written, and only then clears the buffer, or until the socket is full.  *)
(* A write to a client that is gone changes nothing.                       *)
PollWrite(buffer) ==
  LET left == SubSeq(buffer, position + 1, Len(buffer))
      n == IF client = "gone" THEN 0 ELSE Lesser(Len(left), SendBuffer - Len(outbox))
  IN  /\ outbox' = outbox \o SubSeq(left, 1, n)
      /\ IF n = Len(left) THEN write_buffer' = <<>> /\ position' = 0
                          ELSE write_buffer' = buffer /\ position' = position + n
      /\ write_interest' = (write_interest \/ (n < Len(left) /\ client # "gone"))
      /\ write_notify' = TRUE

(* Mutant: the session's task is not notified. *)
WriteLineUnnoticed(text) ==
  /\ PollWrite(write_buffer \o text)
  /\ written' = written + 1
  /\ UNCHANGED woken

(* Mutant: the line is left to the next poll. *)
WriteLineLater(text) ==
  /\ write_buffer' = write_buffer \o text
  /\ written' = written + 1
  /\ woken' = (woken \/ write_notify)
  /\ UNCHANGED <<outbox, position, write_interest, write_notify>>

(* write_line.  An error of its poll_write is ignored. *)
WriteLine(text) ==
  /\ PollWrite(write_buffer \o text)
  /\ written' = written + 1
  /\ woken' = (woken \/ write_notify)

(* The start of Stream::poll: the end, or poll_write. *)
PollStart ==
  /\ pc = "poll"
  /\ \/ /\ closed
        /\ pc' = "none"
        /\ UNCHANGED <<outbox, writer, write_interest, failure>>
     \/ /\ ~closed
        /\ PollWrite(write_buffer)
        /\ \/ client = "gone" /\ write_buffer # <<>> /\ pc' = "error" /\ failure' = "io"
           \/ (client # "gone" \/ write_buffer = <<>>) /\ pc' = "read" /\ UNCHANGED failure
  /\ UNCHANGED <<script, unsent, client, inbox, received, woken, read_interest, reader,
                 consumed, written>>

Newline == SelectInSeq(read_buffer, IsNewline)

(* Mutant: what follows the line in the buffer is dropped with it.         *)
ReadLineAll ==
  /\ pc = "read" /\ Newline > 0
  /\ read_buffer' = <<>>
  /\ LET n == LineOf(SubSeq(read_buffer, 1, Newline))
     IN  /\ consumed' = Append(consumed, n)
         /\ \/ Kind(n) = "invalid" /\ UNCHANGED <<pc, failure>>
            \/ Kind(n) = "bad_utf8" /\ pc' = "error" /\ failure' = "utf8"
            \/ Kind(n) \notin {"invalid", "bad_utf8"} /\ pc' = "ready" /\ UNCHANGED failure
  /\ UNCHANGED <<environment, woken, read_interest, write_interest, closed, writer, written>>

(* poll_read, with a whole line in the buffer: one that is no command is   *)
(* skipped, one that is no UTF-8 is an error.                              *)
ReadLine ==
  /\ pc = "read" /\ Newline > 0
  /\ read_buffer' = SubSeq(read_buffer, Newline + 1, Len(read_buffer))
  /\ LET n == LineOf(SubSeq(read_buffer, 1, Newline))
     IN  /\ consumed' = Append(consumed, n)
         /\ \/ Kind(n) = "invalid" /\ UNCHANGED <<pc, failure>>
            \/ Kind(n) = "bad_utf8" /\ pc' = "error" /\ failure' = "utf8"
            \/ Kind(n) \notin {"invalid", "bad_utf8"} /\ pc' = "ready" /\ UNCHANGED failure
  /\ UNCHANGED <<environment, woken, read_interest, write_interest, closed, writer, written>>

(* poll_read, with no whole line in the buffer. *)
LineTooLong ==
  /\ pc = "read" /\ Newline = 0 /\ Len(read_buffer) >= BufferSize
  /\ pc' = "error" /\ failure' = "too_long"
  /\ UNCHANGED <<environment, woken, read_interest, write_interest, reader, writer, consumed,
                 written>>

MustRead == pc = "read" /\ Newline = 0 /\ Len(read_buffer) < BufferSize

ReadBytes ==
  /\ MustRead /\ inbox # <<>>
  /\ LET n == Lesser(Len(inbox), BufferSize - Len(read_buffer))
     IN  /\ read_buffer' = read_buffer \o SubSeq(inbox, 1, n)
         /\ inbox' = SubSeq(inbox, n + 1, Len(inbox))
  /\ UNCHANGED <<script, unsent, client, outbox, received, task, closed, writer, history>>

(* Mutant: the buffer is not cut back to what was read. *)
ReadWouldBlockUncut ==
  /\ MustRead /\ inbox = <<>> /\ client = "open"
  /\ read_interest' = TRUE /\ pc' = "pending"
  /\ read_buffer' = read_buffer \o [k \in 1 .. BufferSize - Len(read_buffer) |-> NoByte]
  /\ UNCHANGED <<environment, woken, write_interest, closed, writer, history>>

ReadWouldBlock ==
  /\ MustRead /\ inbox = <<>> /\ client = "open"
  /\ read_interest' = TRUE /\ pc' = "pending"
  /\ UNCHANGED <<environment, woken, write_interest, reader, writer, history>>

ReadEnd ==
  /\ MustRead /\ inbox = <<>> /\ client = "finished"
  /\ closed' = TRUE /\ pc' = "none"
  /\ UNCHANGED <<environment, woken, read_interest, write_interest, read_buffer, writer, history>>

ReadError ==
  /\ MustRead /\ inbox = <<>> /\ client = "gone"
  /\ pc' = "error" /\ failure' = "io"
  /\ UNCHANGED <<environment, woken, read_interest, write_interest, reader, writer, consumed,
                 written>>

PollRead == ReadLine \/ LineTooLong \/ ReadBytes \/ ReadWouldBlock \/ ReadEnd \/ ReadError

-----------------------------------------------------------------------------
(* The client and its socket.                                              *)

ClientSends ==
  /\ client = "open" /\ unsent # <<>>
  /\ inbox' = Append(inbox, Head(unsent))
  /\ unsent' = Tail(unsent)
  /\ woken' = (woken \/ read_interest) /\ read_interest' = FALSE
  /\ UNCHANGED <<script, client, outbox, received, write_interest, pc, reader, writer, history>>

ClientFinishes ==
  /\ client = "open" /\ unsent = <<>>
  /\ client' = "finished"
  /\ woken' = (woken \/ read_interest) /\ read_interest' = FALSE
  /\ UNCHANGED <<script, unsent, inbox, outbox, received, write_interest, pc, reader, writer,
                 history>>

(* A reset: nothing in the socket gets anywhere any more. *)
ClientDies ==
  /\ client # "gone"
  /\ client' = "gone" /\ inbox' = <<>> /\ outbox' = <<>>
  /\ woken' = (woken \/ read_interest \/ write_interest)
  /\ read_interest' = FALSE /\ write_interest' = FALSE
  /\ UNCHANGED <<script, unsent, received, pc, reader, writer, history>>

ClientReads ==
  /\ outbox # <<>>
  /\ received' = Append(received, Head(outbox))
  /\ outbox' = Tail(outbox)
  /\ woken' = (woken \/ write_interest) /\ write_interest' = FALSE
  /\ UNCHANGED <<script, unsent, client, inbox, read_interest, pc, reader, writer, history>>

Client == ClientSends \/ ClientFinishes \/ ClientDies \/ ClientReads

-----------------------------------------------------------------------------
(* The reader of the stream, and the executor.                             *)

Poll == /\ pc = "idle" /\ woken
        /\ pc' = "poll" /\ woken' = FALSE
        /\ UNCHANGED <<environment, read_interest, write_interest, reader, writer, history>>

(* The result is "not ready": the task waits to be polled again. *)
Sleep == /\ pc = "pending"
         /\ pc' = "idle"
         /\ UNCHANGED <<environment, woken, read_interest, write_interest, reader, writer, history>>

(* Mutant: the stream is not polled again after a command. *)
AnswerOnce ==
  /\ pc = "ready"
  /\ \/ Kind(Last(consumed)) = "ping" /\ WriteLine(OwnLine(written + 1))
     \/ Kind(Last(consumed)) # "ping"
        /\ UNCHANGED <<outbox, woken, write_interest, writer, written>>
  /\ pc' = "idle"
  /\ UNCHANGED <<script, unsent, client, inbox, received, read_interest, reader, consumed,
                 failure>>

(* The result is a command: it is answered, and the stream polled again.   *)
Answer == /\ pc = "ready"
          /\ \/ Kind(Last(consumed)) = "ping" /\ WriteLine(OwnLine(written + 1))
             \/ Kind(Last(consumed)) # "ping"
                /\ UNCHANGED <<outbox, woken, write_interest, writer, written>>
          /\ pc' = "poll"
          /\ UNCHANGED <<script, unsent, client, inbox, received, read_interest, reader, consumed,
                         failure>>

(* The result is the end or an error: the connection is dropped. *)
Drop == /\ pc \in {"none", "error"}
        /\ pc' = "dropped"
        /\ UNCHANGED <<environment, woken, read_interest, write_interest, reader, writer, history>>

OtherWrites == /\ pc = "idle" /\ write_notify /\ written < MaxWritten
               /\ WriteLine(OwnLine(written + 1))
               /\ UNCHANGED <<script, unsent, client, inbox, received, read_interest, pc, reader,
                              consumed, failure>>

Next == Poll \/ PollStart \/ PollRead \/ Sleep \/ Answer \/ Drop \/ OtherWrites \/ Client

Spec == TransportInit /\ [][Next]_tvars

(* A woken task is polled, and a poll goes on; a client that does not die  *)
(* reads what it is sent and sends the rest of a line.                     *)
Fairness == /\ WF_tvars(Poll) /\ WF_tvars(PollStart) /\ WF_tvars(PollRead) /\ WF_tvars(Sleep)
            /\ WF_tvars(Answer) /\ WF_tvars(Drop)
            /\ WF_tvars(ClientSends) /\ WF_tvars(ClientReads)

FairSpec == Spec /\ Fairness

-----------------------------------------------------------------------------
(* Properties.                                                             *)

AllWritten == FlattenSeq([n \in 1 .. written |-> OwnLine(n)])

(* What the client reads is what was written, from the start and without a *)
(* gap or a repetition, however the socket takes it (transport.rs:173); on *)
(* a connection that lives the rest is in the socket and the buffer.       *)
OutputIntact ==
  IF client = "gone" THEN IsPrefix(received, AllWritten)
  ELSE received \o outbox \o SubSeq(write_buffer, position + 1, Len(write_buffer)) = AllWritten

(* The lines the client has sent whole, as far as they have left it. *)
LeftWhole ==
  LET whole(n) == \A i \in DOMAIN unsent : unsent[i][1] > n
      last == CHOOSE n \in 0 .. Len(script.lines) :
                whole(n) /\ (n < Len(script.lines) => ~whole(n + 1))
  IN  [n \in 1 .. last |-> n]

LineNumbers == UNION {DOMAIN s.lines : s \in Scripts}

(* However they are cut up, the client's lines are taken from the stream   *)
(* whole, once and in order (transport.rs:127).                            *)
Lines == INSTANCE OrderedDelivery WITH Item <- LineNumbers, sent <- LeftWhole,
                                       taken <- consumed
TakesLinesInOrder == Lines!Spec

(* The length limit falls on the same lines however the bytes arrive       *)
(* (transport.rs:148): no line over it is taken, and none within it, nor   *)
(* anything after lines that were taken, makes the stream fail.            *)
LengthLimit ==
  /\ \A i \in DOMAIN consumed : Kind(consumed[i]) # "invalid" =>
       script.lines[consumed[i]].size <= BufferSize
  /\ failure = "too_long" =>
       LET n == Len(consumed) + 1
       IN  IF n \in DOMAIN script.lines THEN script.lines[n].size > BufferSize
                                        ELSE script.rest >= BufferSize

(* While the task sleeps there is nothing to read in the socket, no line   *)
(* in the buffer, and nothing to write that the socket would take, and so  *)
(* it is with a reader that polls until the stream is not ready.           *)
SleepsOnlyWhenIdle ==
  pc = "idle" /\ ~woken =>
    /\ inbox = <<>> /\ client = "open" /\ Newline = 0
    /\ write_buffer # <<>> => Len(outbox) = SendBuffer

(* Every line the client has sent is taken in the end, also if the end of *)
(* the stream is right behind it (transport.rs:153), unless the stream has *)
(* failed.  Every line that was written is read, unless the connection ends*)
(* first.                                                                  *)
LinesGetThrough ==
  /\ \A n \in LineNumbers :
       n \in Range(LeftWhole) ~> (n \in Range(consumed) \/ failure # "none")
  /\ \A n \in 1 .. MaxWritten : written = n ~> (Len(received) >= n * LineSize \/ pc = "dropped")
=============================================================================
