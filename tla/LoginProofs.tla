---------------------------- MODULE LoginProofs ----------------------------
(***************************************************************************)
(* Theorems about IrcTransport and Login for every script of a client, all *)
(* sizes of lines and buffers, and any number of lines and sync responses: *)
(* the output arrives intact, the input is taken line by line and in       *)
(* order, the task sleeps only when it may, the handshake asks only with a *)
(* password, and who is refused is told.                                   *)
(*                                                                         *)
(* The stream is the same whoever reads it, so that its input and its      *)
(* output have invariants of their own, kept by InputStep and OutputStep.  *)
(* Every step of the reader of IrcTransport and of the session of Login    *)
(* is one of each.                                                         *)
(***************************************************************************)
EXTENDS Login, SequenceLemmas

Unit == Nat \X Nat

-----------------------------------------------------------------------------
(* The input and its invariant.                                            *)

input == <<script, unsent, client, inbox, read_buffer, consumed>>

InputStep == \/ ReadLine \/ ReadBytes \/ ClientSends \/ ClientFinishes \/ ClientDies
             \/ UNCHANGED input

Lines_ == Len(script.lines)

(* The text of line n, or the rest without a newline after the last.       *)
Text(n) == IF n \in DOMAIN script.lines THEN Line(n) ELSE [k \in 1 .. script.rest |-> <<n, k>>]

(* All that follows the first n lines.                                     *)
After(n) == FlattenSeq([i \in 1 .. Lines_ + 1 - n |-> Text(n + i)])

(* The client has sent n lines and k units of the next text. *)
SentTo(n, k) ==
  /\ k <= Len(Text(n + 1)) /\ (n < Lines_ => k < Len(Text(n + 1)))
  /\ unsent = Behind(Text(n + 1), k) \o After(n + 1)

UnsentInv == \E n \in 0 .. Lines_ : \E k \in Nat : SentTo(n, k)

(* The lines are taken from the first on, and what follows them is in the  *)
(* buffer, in the socket, unless the client is gone, and to be sent.       *)
CutInv ==
  /\ Len(consumed) <= Lines_ /\ consumed = [i \in 1 .. Len(consumed) |-> i]
  /\ \A i \in 1 .. Len(consumed) : script.lines[i].size <= BufferSize
  /\ \E lost \in Seq(Unit) :
       /\ client # "gone" => lost = inbox
       /\ read_buffer \o (lost \o unsent) = After(Len(consumed))

InputInv ==
  /\ script \in Scripts /\ client \in {"open", "finished", "gone"}
  /\ unsent \in Seq(Unit) /\ inbox \in Seq(Unit) /\ read_buffer \in Seq(Unit)
  /\ Len(read_buffer) <= BufferSize
  /\ consumed \in Seq(Nat)
  /\ client = "gone" => inbox = <<>>
  /\ CutInv /\ UnsentInv

-----------------------------------------------------------------------------
(* The output and its invariant.                                           *)

output == <<client, outbox, received, write_buffer, position, written>>

OutputStep == \/ PollWrite(write_buffer) /\ UNCHANGED <<client, received, written>>
              \/ WriteLine(OwnLine(written + 1)) /\ UNCHANGED <<client, received>>
              \/ ClientReads
              \/ client' = "gone" /\ outbox' = <<>>
                 /\ UNCHANGED <<received, write_buffer, position, written>>
              \/ client # "gone" /\ client' # "gone"
                 /\ UNCHANGED <<outbox, received, write_buffer, position, written>>
              \/ UNCHANGED output

OutputInv ==
  /\ outbox \in Seq(Unit) /\ received \in Seq(Unit) /\ write_buffer \in Seq(Unit)
  /\ position \in Nat /\ position <= Len(write_buffer) /\ written \in Nat
  /\ Len(outbox) <= SendBuffer
  /\ client = "gone" => outbox = <<>>
  /\ OutputIntact

-----------------------------------------------------------------------------
(* What the reader of IrcTransport adds.                                   *)

(* The stream fails for good, and for a line that is too long only if the  *)
(* buffer is full and has no newline.                                      *)
FailureInv ==
  /\ failure # "none" => pc \in {"error", "dropped"}
  /\ failure = "too_long" => Newline = 0 /\ Len(read_buffer) >= BufferSize

(* A task that is not to be polled has looked at the socket in vain and    *)
(* asked to be woken for it, or is past its look at the socket for writing *)
(* only.                                                                   *)
SleepInv ==
  ~woken =>
    /\ pc \in {"pending", "idle"} =>
         read_interest /\ inbox = <<>> /\ client = "open" /\ Newline = 0
    /\ pc \in {"read", "ready", "pending", "idle"} /\ client # "gone" /\ write_buffer # <<>> =>
         write_interest /\ Len(outbox) = SendBuffer

-----------------------------------------------------------------------------
(* What the session of Login adds.                                         *)

(* Where the poll can be in each phase.                                    *)
PhaseInv ==
  /\ pc \in {"idle", "login", "poll", "read", "ready", "pending", "none", "matrix", "sync",
             "error", "dropped"}
  /\ phase \in {"await_login", "matrix_login", "running"}
  /\ phase = "await_login" => pc \notin {"matrix", "sync"}
  /\ pc = "login" => phase = "matrix_login"
  /\ phase = "matrix_login" => pc \in {"idle", "login", "error", "dropped"}
  /\ phase = "running" /\ is_first_sync => pc \in {"idle", "matrix", "sync", "error", "dropped"}
  /\ phase # "running" => is_first_sync
  /\ outcome # "none" => pc \in {"error", "dropped"}

(* The kinds of the first n lines that were taken.                         *)
Taken(n) == {Kind(consumed[i]) : i \in 1 .. n}

Complete(n) == {"NICK", "USER"} \subseteq Taken(n)

(* The commands of the registration that were handled.                     *)
Handled == IF pc = "ready" THEN Len(consumed) - 1 ELSE Len(consumed)

RegistrationInv ==
  /\ phase = "await_login" /\ outcome = "none" =>
       /\ user_nick = Taken(Handled) \cap {"NICK", "USER", "PASS"}
       /\ ~Complete(Handled)
  /\ pc = "ready" => Len(consumed) > 0
  /\ phase # "await_login" =>
       \E n \in 1 .. Len(consumed) : Complete(n) /\ ~Complete(n - 1) /\ "PASS" \in Taken(n)
  /\ outcome = "no_password" =>
       /\ Complete(Len(consumed)) /\ "PASS" \notin Taken(Len(consumed))
       /\ ~Complete(Len(consumed) - 1)

(* Nothing is written before the session runs but the refusal, which the   *)
(* socket takes at once.                                                   *)
RefusalInv ==
  /\ phase # "running" /\ outcome = "none" => written = 0
  /\ outcome \in {"no_password", "invalid_password"} =>
       /\ written = 1
       /\ client # "gone" => write_buffer = <<>>

-----------------------------------------------------------------------------
(* The output arrives intact.                                              *)

(* The first n lines of the bridge. *)
Own(n) == FlattenSeq([i \in 1 .. n |-> OwnLine(i)])

(* A line is units. *)
LEMMA OwnLineType ==
  ASSUME NEW n \in Nat
  PROVE  OwnLine(n) \in Seq(Unit) /\ Len(OwnLine(n)) = LineSize
BY SizesAssumption DEF OwnLine, Unit

(* The lines grow by the next one. *)
LEMMA OwnGrows ==
  ASSUME NEW n \in Nat
  PROVE  Own(n) \in Seq(Unit) /\ Own(n + 1) = Own(n) \o OwnLine(n + 1)
<1> DEFINE all == [i \in 1 .. n |-> OwnLine(i)]
           more == [i \in 1 .. n + 1 |-> OwnLine(i)]
<1>1. \A i \in 1 .. n + 1 : OwnLine(i) \in Seq(Unit)
  BY OwnLineType
<1> HIDE DEF Unit
<1>2. all \in Seq(Seq(Unit)) /\ OwnLine(n + 1) \in Seq(Unit)
  BY <1>1
<1>3. more = Append(all, OwnLine(n + 1))
  BY <1>1
<1> HIDE DEF all, more
<1>4. FlattenSeq(Append(all, OwnLine(n + 1))) = FlattenSeq(all) \o OwnLine(n + 1)
  BY <1>2, FlattenSeqAppend
<1>5. FlattenSeq(all) \in Seq(Unit)
  BY <1>2, FlattenSeqType
<1> QED
  BY <1>3, <1>4, <1>5 DEF Own, all, more

(* What poll_write takes out of its buffer is in the socket, and it stops  *)
(* only when nothing is left or the socket is full.                        *)
LEMMA PollWriteMoves ==
  ASSUME NEW buffer \in Seq(Unit), position \in Nat, position <= Len(buffer),
         outbox \in Seq(Unit), Len(outbox) <= SendBuffer, PollWrite(buffer)
  PROVE  /\ outbox' \in Seq(Unit) /\ Len(outbox') <= SendBuffer
         /\ write_buffer' \in Seq(Unit) /\ position' \in Nat /\ position' <= Len(write_buffer')
         /\ IF client = "gone" THEN outbox' = outbox
            ELSE outbox' \o Behind(write_buffer', position') = outbox \o Behind(buffer, position)
         /\ client # "gone" /\ write_buffer' # <<>> =>
              Len(outbox') = SendBuffer /\ write_interest'
<1> DEFINE left == Behind(buffer, position)
           n == IF client = "gone" THEN 0 ELSE Lesser(Len(left), SendBuffer - Len(outbox))
           now == SubSeq(left, 1, n)
           later == Behind(left, n)
<1>1. /\ outbox' = outbox \o now
      /\ IF n = Len(left) THEN write_buffer' = <<>> /\ position' = 0
                          ELSE write_buffer' = buffer /\ position' = position + n
      /\ n < Len(left) /\ client # "gone" => write_interest'
  BY DEF PollWrite, Behind
<1>2. left \in Seq(Unit) /\ Len(left) = Len(buffer) - position
  BY BehindElements
<1>3. Len(buffer) \in Nat /\ Len(outbox) \in Nat /\ SendBuffer \in Nat
  BY SizesAssumption
<1> HIDE DEF left
<1>4. /\ n \in Nat /\ n <= Len(left) /\ n <= SendBuffer - Len(outbox)
      /\ client # "gone" /\ n # Len(left) => n < Len(left) /\ n = SendBuffer - Len(outbox)
      /\ client = "gone" => n = 0
  BY <1>2, <1>3 DEF Lesser
<1> HIDE DEF n
<1>5. position + n <= Len(buffer) /\ Behind(left, n) = Behind(buffer, position + n)
  BY <1>2, <1>3, <1>4, BehindBehind DEF left
<1>6. now \in Seq(Unit) /\ Len(now) = n /\ later \in Seq(Unit) /\ now \o later = left
      /\ Len(later) = Len(left) - n
  <2>1. left \in Seq(Unit) /\ n \in Nat /\ n <= Len(left)
    BY <1>2, <1>4
  <2> QED
    BY <2>1, FirstElements, BehindElements, CutAndJoined
<1> HIDE DEF now, later
<1>7. outbox' \in Seq(Unit) /\ Len(outbox') = Len(outbox) + n
  <2>1. now \in Seq(Unit) /\ Len(now) = n
    BY <1>6
  <2>2. outbox \o now \in Seq(Unit) /\ Len(outbox \o now) = Len(outbox) + Len(now)
    BY <2>1, ConcatProperties
  <2> QED
    BY <1>1, <2>1, <2>2
<1>8. Behind(write_buffer', position') = later
  <2>1. CASE n = Len(left)
    <3>1. later = <<>>
      BY <1>6, <2>1
    <3>2. Behind(write_buffer', position') = <<>>
      BY <1>1, <2>1 DEF Behind
    <3> QED
      BY <3>1, <3>2
  <2>2. CASE n # Len(left)
    BY <1>1, <1>5, <2>2 DEF later
  <2> QED
    BY <2>1, <2>2
<1>9. (outbox \o now) \o later = outbox \o left
  <2>1. now \in Seq(Unit) /\ later \in Seq(Unit)
    BY <1>6
  <2>2. (outbox \o now) \o later = outbox \o (now \o later)
    BY <2>1, ConcatAssociative, SMTT(60)
  <2> QED
    BY <1>6, <2>2
<1>10. client = "gone" => outbox' = outbox
  <2>1. n = 0 => now = <<>>
    BY <1>6
  <2> QED
    BY <1>1, <1>4, <2>1
<1>11. client # "gone" => outbox' \o Behind(write_buffer', position') = outbox \o Behind(buffer, position)
  BY <1>1, <1>8, <1>9 DEF left
<1>12. write_buffer' \in Seq(Unit) /\ position' \in Nat /\ position' <= Len(write_buffer')
  <2>1. CASE n = Len(left)
    BY <1>1, <2>1
  <2>2. CASE n # Len(left)
    BY <1>1, <1>4, <1>5, <2>2
  <2> QED
    BY <2>1, <2>2
<1>13. client # "gone" /\ write_buffer' # <<>> => Len(outbox') = SendBuffer /\ write_interest'
  BY <1>1, <1>3, <1>4, <1>7
<1>14. Len(outbox') <= SendBuffer
  BY <1>3, <1>4, <1>7
<1> QED
  BY <1>7, <1>10, <1>11, <1>12, <1>13, <1>14, Zenon

(* What is in the buffer is the output as far as it is known. *)
LEMMA OutputInvMeans ==
  OutputIntact <=>
    IF client = "gone" THEN IsPrefix(received, Own(written))
    ELSE (received \o outbox) \o Behind(write_buffer, position) = Own(written)
BY DEF OutputIntact, AllWritten, Own, Behind

(* A prefix stays one when more is added. *)
LEMMA PrefixOfMore ==
  ASSUME NEW S, NEW s \in Seq(S), NEW a \in Seq(S), NEW b \in Seq(S), IsPrefix(s, a)
  PROVE  IsPrefix(s, a \o b)
<1>1. /\ Len(s) \in Nat /\ Len(s) <= Len(a)
      /\ SubSeq(s, 1, Len(s)) = SubSeq(a, 1, Len(s))
  BY DEF IsPrefix
<1>2. a \o b \in Seq(S) /\ Len(a \o b) = Len(a) + Len(b) /\ Len(b) \in Nat /\ Len(a) \in Nat
  BY ConcatProperties
<1> DEFINE c == a \o b
           n == Len(s)
<1>3. \A i \in 1 .. Len(a) : c[i] = a[i]
  BY ConcatParts
<1>4. c \in Seq(S) /\ n \in Nat /\ n <= Len(c) /\ n <= Len(a)
  BY <1>1, <1>2
<1> HIDE DEF c, n
<1>5. /\ SubSeq(c, 1, n) \in Seq(S) /\ Len(SubSeq(c, 1, n)) = n
      /\ \A i \in 1 .. n : SubSeq(c, 1, n)[i] = c[i]
  BY <1>4, FirstElements
<1>6. /\ SubSeq(a, 1, n) \in Seq(S) /\ Len(SubSeq(a, 1, n)) = n
      /\ \A i \in 1 .. n : SubSeq(a, 1, n)[i] = a[i]
  BY <1>4, FirstElements
<1>7. \A i \in 1 .. n : SubSeq(c, 1, n)[i] = SubSeq(a, 1, n)[i]
  BY <1>2, <1>3, <1>4, <1>5, <1>6
<1>8. SubSeq(c, 1, n) = SubSeq(a, 1, n)
  BY <1>4, <1>5, <1>6, <1>7, SameElements
<1> QED
  BY <1>1, <1>4, <1>8 DEF IsPrefix, c, n

(* The first of two is a prefix of both. *)
LEMMA FirstIsPrefix ==
  ASSUME NEW S, NEW a \in Seq(S), NEW b \in Seq(S)
  PROVE  IsPrefix(a, a \o b)
<1>1. IsPrefix(a, a)
  BY DEF IsPrefix
<1> QED
  BY <1>1, PrefixOfMore

(* The invariant of the output holds at first. *)
LEMMA InitHasOutputInv == TransportInit => OutputInv
<1> SUFFICES ASSUME TransportInit PROVE OutputInv
  OBVIOUS
<1>1. /\ outbox = <<>> /\ received = <<>> /\ write_buffer = <<>> /\ position = 0 /\ written = 0
      /\ client = "open"
  BY DEF TransportInit
<1>2. Own(0) = <<>>
  <2>1. [i \in 1 .. 0 |-> OwnLine(i)] = <<>>
    OBVIOUS
  <2> QED
    BY <2>1, FlattenSeqEmpty DEF Own
<1>3. Behind(<<>>, 0) = <<>>
  BY DEF Behind
<1>4. OutputIntact
  BY <1>1, <1>2, <1>3, OutputInvMeans
<1> QED
  BY <1>1, <1>4, SizesAssumption DEF OutputInv

(* The buffer grows by a new line, and all that was written does too. *)
LEMMA WriteLineKeepsOutputInv ==
  ASSUME OutputInv, WriteLine(OwnLine(written + 1)), UNCHANGED <<client, received>>
  PROVE  OutputInv'
<1> DEFINE line == OwnLine(written + 1)
           buffer == write_buffer \o line
           old == Behind(write_buffer, position)
           new == Behind(write_buffer', position')
<1>1. /\ outbox \in Seq(Unit) /\ received \in Seq(Unit) /\ write_buffer \in Seq(Unit)
      /\ position \in Nat /\ position <= Len(write_buffer) /\ written \in Nat
      /\ Len(outbox) <= SendBuffer
      /\ client = "gone" => outbox = <<>>
  BY DEF OutputInv
<1>2. line \in Seq(Unit) /\ Own(written) \in Seq(Unit) /\ Own(written + 1) = Own(written) \o line
  <2>1. written \in Nat /\ written + 1 \in Nat
    BY <1>1
  <2>2. line \in Seq(Unit)
    BY <2>1, OwnLineType
  <2>3. Own(written) \in Seq(Unit) /\ Own(written + 1) = Own(written) \o OwnLine(written + 1)
    BY <2>1, OwnGrows
  <2> QED
    BY <2>2, <2>3
<1>3. PollWrite(buffer) /\ written' = written + 1
  BY DEF WriteLine
<1> HIDE DEF line
<1>4. buffer \in Seq(Unit) /\ position <= Len(buffer) /\ Behind(buffer, position) = old \o line
  <2>1. buffer \in Seq(Unit) /\ Len(buffer) = Len(write_buffer) + Len(line) /\ Len(line) \in Nat
        /\ Len(write_buffer) \in Nat
    BY <1>1, <1>2, ConcatProperties
  <2>2. Behind(write_buffer \o line, position) = Behind(write_buffer, position) \o line
    BY <1>1, <1>2, BehindConcat
  <2> QED
    BY <1>1, <2>1, <2>2
<1>5. old \in Seq(Unit)
  BY <1>1, BehindElements
<1> HIDE DEF buffer, old
<1>6. /\ outbox' \in Seq(Unit) /\ Len(outbox') <= SendBuffer
      /\ write_buffer' \in Seq(Unit) /\ position' \in Nat /\ position' <= Len(write_buffer')
      /\ client = "gone" => outbox' = outbox
      /\ client # "gone" => outbox' \o new = outbox \o (old \o line)
  <2>1. buffer \in Seq(Unit) /\ position <= Len(buffer)
    BY <1>4
  <2>2. /\ outbox' \in Seq(Unit) /\ Len(outbox') <= SendBuffer
        /\ write_buffer' \in Seq(Unit) /\ position' \in Nat /\ position' <= Len(write_buffer')
        /\ IF client = "gone" THEN outbox' = outbox
           ELSE outbox' \o Behind(write_buffer', position') = outbox \o Behind(buffer, position)
    BY <1>1, <1>3, <2>1, PollWriteMoves
  <2> QED
    BY <1>4, <2>2
<1>7. new \in Seq(Unit)
  BY <1>6, BehindElements
<1> HIDE DEF new
<1>8. CASE client = "gone"
  <2>1. IsPrefix(received, Own(written))
    BY <1>8, OutputInvMeans DEF OutputInv
  <2>2. IsPrefix(received, Own(written) \o line)
    BY <1>1, <1>2, <2>1, PrefixOfMore
  <2>3. IsPrefix(received, Own(written + 1))
    BY <1>2, <2>2
  <2>4. client' = "gone" /\ received' = received
    BY <1>8
  <2>5. OutputIntact'
    BY <1>3, <2>3, <2>4 DEF OutputIntact, AllWritten, Own
  <2> QED
    BY <1>1, <1>3, <1>6, <1>8, <2>4, <2>5 DEF OutputInv
<1>9. CASE client # "gone"
  <2>1. (received \o outbox) \o old = Own(written)
    BY <1>9, OutputInvMeans DEF OutputInv, old
  <2>2. (received \o outbox') \o new = received \o (outbox' \o new)
    <3>1. received \in Seq(Unit) /\ outbox' \in Seq(Unit) /\ new \in Seq(Unit)
      BY <1>1, <1>6, <1>7
    <3> QED
      BY <3>1, ConcatAssociative
  <2>3. received \o (outbox' \o new) = received \o (outbox \o (old \o line))
    BY <1>6, <1>9
  <2>4. received \o (outbox \o (old \o line)) = ((received \o outbox) \o old) \o line
    <3>1. received \in Seq(Unit) /\ outbox \in Seq(Unit) /\ old \in Seq(Unit) /\ line \in Seq(Unit)
      BY <1>1, <1>2, <1>5
    <3> QED
      BY <3>1, FourTogether, SMTT(60)
  <2>5. (received \o outbox') \o new = Own(written + 1)
    BY <1>2, <2>1, <2>2, <2>3, <2>4
  <2>6. client' # "gone" /\ received' = received
    BY <1>9
  <2>7. OutputIntact'
    BY <1>3, <2>5, <2>6 DEF OutputIntact, AllWritten, Own, new, Behind
  <2> QED
    BY <1>1, <1>3, <1>6, <2>6, <2>7 DEF OutputInv
<1> QED
  BY <1>8, <1>9

(* What was in the buffer goes on into the socket. *)
LEMMA PollWriteKeepsOutputInv ==
  ASSUME OutputInv, PollWrite(write_buffer), UNCHANGED <<client, received, written>>
  PROVE  OutputInv'
<1> DEFINE old == Behind(write_buffer, position)
           new == Behind(write_buffer', position')
<1>1. /\ outbox \in Seq(Unit) /\ received \in Seq(Unit) /\ write_buffer \in Seq(Unit)
      /\ position \in Nat /\ position <= Len(write_buffer) /\ written \in Nat
      /\ Len(outbox) <= SendBuffer
      /\ client = "gone" => outbox = <<>>
  BY DEF OutputInv
<1>2. /\ outbox' \in Seq(Unit) /\ Len(outbox') <= SendBuffer
      /\ write_buffer' \in Seq(Unit) /\ position' \in Nat /\ position' <= Len(write_buffer')
      /\ IF client = "gone" THEN outbox' = outbox
         ELSE outbox' \o Behind(write_buffer', position') = outbox \o Behind(write_buffer, position)
  BY <1>1, PollWriteMoves
<1>3. old \in Seq(Unit) /\ new \in Seq(Unit)
  BY <1>1, <1>2, BehindElements
<1> HIDE DEF old, new
<1>4. CASE client = "gone"
  BY <1>1, <1>2, <1>4 DEF OutputInv, OutputIntact, AllWritten
<1>5. CASE client # "gone"
  <2>1. (received \o outbox) \o old = Own(written)
    BY <1>5, OutputInvMeans DEF OutputInv, old
  <2>2. (received \o outbox') \o new = received \o (outbox' \o new)
    <3>1. received \in Seq(Unit) /\ outbox' \in Seq(Unit) /\ new \in Seq(Unit)
      BY <1>1, <1>2, <1>3
    <3> QED
      BY <3>1, ConcatAssociative
  <2>3. (received \o outbox) \o old = received \o (outbox \o old)
    <3>1. received \in Seq(Unit) /\ outbox \in Seq(Unit) /\ old \in Seq(Unit)
      BY <1>1, <1>3
    <3> QED
      BY <3>1, ConcatAssociative
  <2>4. outbox' \o new = outbox \o old
    BY <1>2, <1>5 DEF old, new
  <2>5. (received \o outbox') \o new = Own(written)
    BY <2>1, <2>2, <2>3, <2>4
  <2>6. client' # "gone" /\ received' = received /\ written' = written
    BY <1>5
  <2>7. OutputIntact'
    BY <2>5, <2>6 DEF OutputIntact, AllWritten, Own, new, Behind
  <2> QED
    BY <1>1, <1>2, <2>6, <2>7 DEF OutputInv
<1> QED
  BY <1>4, <1>5

(* The client takes the next unit. *)
LEMMA ClientReadsKeepsOutputInv ==
  ASSUME OutputInv, ClientReads
  PROVE  OutputInv'
<1> DEFINE one == <<Head(outbox)>>
           rest == Tail(outbox)
<1>1. /\ outbox \in Seq(Unit) /\ received \in Seq(Unit) /\ write_buffer \in Seq(Unit)
      /\ position \in Nat /\ position <= Len(write_buffer) /\ written \in Nat
      /\ Len(outbox) <= SendBuffer /\ outbox # <<>>
  BY DEF OutputInv, ClientReads
<1>2. client # "gone"
  BY DEF OutputInv, ClientReads
<1>3. /\ received' = Append(received, Head(outbox)) /\ outbox' = rest
      /\ client' = client /\ write_buffer' = write_buffer /\ position' = position
      /\ written' = written
  BY DEF ClientReads, writer, history
<1>4. one \in Seq(Unit) /\ rest \in Seq(Unit) /\ outbox = one \o rest
      /\ Len(rest) <= SendBuffer /\ received' = received \o one /\ received' \in Seq(Unit)
  <2>1. Head(outbox) \in Unit /\ rest \in Seq(Unit) /\ Len(rest) = Len(outbox) - 1
        /\ \A i \in 1 .. Len(rest) : rest[i] = outbox[i + 1]
    BY <1>1, HeadTailProperties
  <2>2. outbox = one \o rest
    BY <1>1
  <2>3. Len(rest) <= SendBuffer
    BY <1>1, <2>1, SizesAssumption
  <2>4. received' = received \o one /\ received' \in Seq(Unit)
    BY <1>1, <1>3, <2>1
  <2> QED
    BY <2>1, <2>2, <2>3, <2>4
<1> HIDE DEF one, rest
<1>5. received' \o outbox' = received \o outbox
  <2>1. one \in Seq(Unit) /\ rest \in Seq(Unit)
    BY <1>4
  <2>2. (received \o one) \o rest = received \o (one \o rest)
    BY <1>1, <2>1, ConcatAssociative, SMTT(60)
  <2> QED
    BY <1>3, <1>4, <2>2
<1>6. OutputIntact'
  BY <1>2, <1>3, <1>5 DEF OutputInv, OutputIntact, AllWritten
<1> QED
  BY <1>1, <1>2, <1>3, <1>4, <1>6 DEF OutputInv

(* Of a client that is gone it is known what it has read. *)
LEMMA GoneKeepsOutputInv ==
  ASSUME OutputInv, client' = "gone", outbox' = <<>>,
         UNCHANGED <<received, write_buffer, position, written>>
  PROVE  OutputInv'
<1> DEFINE old == Behind(write_buffer, position)
<1>1. /\ outbox \in Seq(Unit) /\ received \in Seq(Unit) /\ write_buffer \in Seq(Unit)
      /\ position \in Nat /\ position <= Len(write_buffer) /\ written \in Nat
  BY DEF OutputInv
<1>2. old \in Seq(Unit)
  BY <1>1, BehindElements
<1> HIDE DEF old
<1>3. IsPrefix(received, Own(written))
  <2>1. CASE client = "gone"
    BY <2>1, OutputInvMeans DEF OutputInv
  <2>2. CASE client # "gone"
    <3>1. (received \o outbox) \o old = Own(written)
      BY <2>2, OutputInvMeans DEF OutputInv, old
    <3>2. outbox \o old \in Seq(Unit)
      BY <1>1, <1>2, ConcatProperties
    <3>3. (received \o outbox) \o old = received \o (outbox \o old)
      <4>1. received \in Seq(Unit) /\ outbox \in Seq(Unit)
        BY <1>1
      <4> QED
        BY <1>2, <4>1, ConcatAssociative
    <3>4. IsPrefix(received, received \o (outbox \o old))
      BY <1>1, <3>2, FirstIsPrefix
    <3> QED
      BY <3>1, <3>3, <3>4
  <2> QED
    BY <2>1, <2>2
<1>4. OutputIntact'
  BY <1>3 DEF OutputIntact, AllWritten, Own
<1> QED
  BY <1>1, <1>4, SizesAssumption DEF OutputInv

(* Every step of the output keeps its invariant. *)
LEMMA OutputStepKeepsInv ==
  ASSUME OutputInv, OutputStep
  PROVE  OutputInv'
<1>1. CASE PollWrite(write_buffer) /\ UNCHANGED <<client, received, written>>
  BY <1>1, PollWriteKeepsOutputInv
<1>2. CASE WriteLine(OwnLine(written + 1)) /\ UNCHANGED <<client, received>>
  BY <1>2, WriteLineKeepsOutputInv
<1>3. CASE ClientReads
  BY <1>3, ClientReadsKeepsOutputInv
<1>4. CASE /\ client' = "gone" /\ outbox' = <<>>
           /\ UNCHANGED <<received, write_buffer, position, written>>
  BY <1>4, GoneKeepsOutputInv
<1>5. CASE /\ client # "gone" /\ client' # "gone"
           /\ UNCHANGED <<outbox, received, write_buffer, position, written>>
  BY <1>5 DEF OutputInv, OutputIntact, AllWritten
<1>6. CASE UNCHANGED output
  BY <1>6 DEF output, OutputInv, OutputIntact, AllWritten
<1> QED
  BY <1>1, <1>2, <1>3, <1>4, <1>5, <1>6 DEF OutputStep

(* The steps of the client. *)
LEMMA ClientSteps ==
  ASSUME Client
  PROVE  InputStep /\ OutputStep
<1>1. CASE ClientSends
  BY <1>1 DEF ClientSends, InputStep, OutputStep, output, writer, history
<1>2. CASE ClientFinishes
  BY <1>2 DEF ClientFinishes, InputStep, OutputStep, output, writer, history
<1>3. CASE ClientDies
  BY <1>3 DEF ClientDies, InputStep, OutputStep, output, writer, history
<1>4. CASE ClientReads
  BY <1>4 DEF ClientReads, InputStep, OutputStep, input, reader, history
<1> QED
  BY <1>1, <1>2, <1>3, <1>4 DEF Client

(* The steps of a poll of the stream. *)
LEMMA PollSteps ==
  ASSUME PollStart \/ PollRead
  PROVE  InputStep /\ OutputStep
<1>1. CASE PollStart
  BY <1>1 DEF PollStart, InputStep, OutputStep, input, output, reader, writer
<1>2. CASE ReadLine
  BY <1>2 DEF ReadLine, InputStep, OutputStep, output, environment, writer
<1>3. CASE LineTooLong
  BY <1>3 DEF LineTooLong, InputStep, OutputStep, input, output, environment, reader, writer
<1>4. CASE ReadBytes
  BY <1>4 DEF ReadBytes, InputStep, OutputStep, output, writer, history
<1>5. CASE ReadWouldBlock \/ ReadEnd \/ ReadError
  BY <1>5 DEF ReadWouldBlock, ReadEnd, ReadError, InputStep, OutputStep, input, output,
              environment, reader, writer, history
<1> QED
  BY <1>1, <1>2, <1>3, <1>4, <1>5 DEF PollRead

(* What the reader of IrcTransport does is a step of the input and one of  *)
(* the output.                                                             *)
LEMMA NextSteps ==
  ASSUME [Next]_tvars
  PROVE  InputStep /\ OutputStep
<1>1. CASE Poll \/ Sleep \/ Drop
  BY <1>1 DEF Poll, Sleep, Drop, InputStep, OutputStep, input, output,
              environment, reader, writer, history
<1>2. CASE Answer
  BY <1>2 DEF Answer, InputStep, OutputStep, input, output, reader, writer
<1>3. CASE OtherWrites
  BY <1>3 DEF OtherWrites, InputStep, OutputStep, input, reader
<1>4. CASE UNCHANGED tvars
  BY <1>4 DEF tvars, InputStep, OutputStep, input, output, environment, reader, writer, history
<1> QED
  BY <1>1, <1>2, <1>3, <1>4, ClientSteps, PollSteps DEF Next

(* And so is what the session of Login does. *)
LEMMA LoginSteps ==
  ASSUME [LoginNext]_lvars
  PROVE  InputStep /\ OutputStep
<1>1. CASE PollTask \/ NotReady \/ Register \/ PollMatrix \/ SyncHandled \/ End \/ LoginAnswer
           \/ SyncAnswer
  BY <1>1 DEF PollTask, NotReady, Register, PollMatrix, SyncHandled, End, LoginAnswer, SyncAnswer,
              InputStep, OutputStep, input, output, environment, reader, writer, history
<1>2. CASE Registered
  BY <1>2 DEF Registered, Refuse, InputStep, OutputStep, input, output, reader, writer
<1>3. CASE LoginDone
  BY <1>3 DEF LoginDone, Refuse, InputStep, OutputStep, input, output, reader, writer
<1>4. CASE Command
  BY <1>4 DEF Command, Answer, InputStep, OutputStep, input, output, reader, writer
<1>5. CASE WriteSyncLine
  BY <1>5 DEF WriteSyncLine, InputStep, OutputStep, input, reader
<1>6. CASE UNCHANGED lvars
  BY <1>6 DEF lvars, tvars, InputStep, OutputStep, input, output, environment, reader, writer,
              history
<1> QED
  BY <1>1, <1>2, <1>3, <1>4, <1>5, <1>6, ClientSteps, PollSteps DEF LoginNext, PollStream

-----------------------------------------------------------------------------
(* What the client reads is what was written, without a gap or a           *)
(* repetition, however many units the socket takes at a time.              *)
THEOREM OutputArrivesIntact == Spec => []OutputIntact
<1>1. TransportInit => OutputInv
  BY InitHasOutputInv
<1>2. OutputInv /\ [Next]_tvars => OutputInv'
  BY NextSteps, OutputStepKeepsInv
<1>3. OutputInv => OutputIntact
  BY DEF OutputInv
<1> QED
  BY <1>1, <1>2, <1>3, PTL DEF Spec

-----------------------------------------------------------------------------
(* The input is taken line by line.                                        *)

(* What a script is. *)
LEMMA ScriptIs ==
  ASSUME script \in Scripts
  PROVE  /\ Lines_ \in Nat /\ DOMAIN script.lines = 1 .. Lines_ /\ script.rest \in Nat
         /\ \A n \in 1 .. Lines_ : script.lines[n].size \in Nat \ {0}
<1>1. script.lines \in Seq([kind : STRING, size : Nat \ {0}]) /\ script.rest \in Nat
  BY ScriptsAssumption
<1> DEFINE lines == script.lines
           R == [kind : STRING, size : Nat \ {0}]
<1>2. lines \in Seq(R)
  BY <1>1
<1>3. \A x \in R : x.size \in Nat \ {0}
  OBVIOUS
<1> HIDE DEF R, lines
<1>4. Len(lines) \in Nat /\ DOMAIN lines = 1 .. Len(lines) /\ \A n \in 1 .. Len(lines) : lines[n] \in R
  BY <1>2
<1> QED
  BY <1>1, <1>3, <1>4 DEF Lines_, lines

(* What the text of a line is. *)
LEMMA TextIs ==
  ASSUME script \in Scripts, NEW n \in Nat
  PROVE  /\ Text(n) \in Seq(Unit) /\ Len(Text(n)) \in Nat
         /\ \A i \in 1 .. Len(Text(n)) : Text(n)[i] = <<n, i>>
         /\ n \in 1 .. Lines_ =>
              Text(n) = Line(n) /\ Len(Text(n)) = script.lines[n].size /\ Len(Text(n)) > 0
<1>1. CASE n \in 1 .. Lines_
  <2>1. n \in DOMAIN script.lines /\ script.lines[n].size \in Nat \ {0}
    BY <1>1, ScriptIs
  <2> DEFINE size == script.lines[n].size
  <2>2. Text(n) = [k \in 1 .. size |-> <<n, k>>] /\ Text(n) = Line(n)
    BY <2>1 DEF Text, Line
  <2>3. size \in Nat \ {0}
    BY <2>1
  <2> HIDE DEF size
  <2>4. /\ Text(n) \in Seq(Unit) /\ Len(Text(n)) = size
        /\ \A i \in 1 .. size : Text(n)[i] = <<n, i>>
    BY <2>2, <2>3 DEF Unit
  <2> QED
    BY <2>2, <2>3, <2>4 DEF size
<1>2. CASE n \notin 1 .. Lines_
  <2>1. n \notin DOMAIN script.lines /\ script.rest \in Nat
    BY <1>2, ScriptIs
  <2> DEFINE size == script.rest
  <2>2. Text(n) = [k \in 1 .. size |-> <<n, k>>]
    BY <2>1 DEF Text
  <2>3. size \in Nat
    BY <2>1
  <2> HIDE DEF size
  <2>4. /\ Text(n) \in Seq(Unit) /\ Len(Text(n)) = size
        /\ \A i \in 1 .. size : Text(n)[i] = <<n, i>>
    BY <2>2, <2>3 DEF Unit
  <2> QED
    BY <1>2, <2>3, <2>4
<1> QED
  BY <1>1, <1>2

(* The texts from a line on are the line's and those after it. *)
LEMMA AfterIs ==
  ASSUME script \in Scripts, NEW n \in Nat, n <= Lines_
  PROVE  After(n) = Text(n + 1) \o After(n + 1)
<1> DEFINE m == Lines_ + 1 - n
           all == [i \in 1 .. m |-> Text(n + i)]
           first == <<Text(n + 1)>>
           later == [i \in 1 .. m - 1 |-> Text(n + 1 + i)]
<1>1. Lines_ \in Nat /\ m \in Nat \ {0} /\ Lines_ + 1 - (n + 1) = m - 1
  BY ScriptIs
<1>2. \A i \in Nat : Text(i) \in Seq(Unit)
  BY TextIs
<1>3. After(n) = FlattenSeq(all) /\ After(n + 1) = FlattenSeq(later)
  BY <1>1 DEF After
<1> HIDE DEF m
<1>4. all \in Seq(Seq(Unit)) /\ Len(all) = m /\ \A i \in 1 .. m : all[i] = Text(n + i)
  BY <1>1, <1>2
<1>5. /\ later \in Seq(Seq(Unit)) /\ Len(later) = m - 1
      /\ \A i \in 1 .. m - 1 : later[i] = Text(n + 1 + i)
  BY <1>1, <1>2
<1>6. first \in Seq(Seq(Unit)) /\ Len(first) = 1 /\ first[1] = Text(n + 1)
  <2>1. Text(n + 1) \in Seq(Unit)
    BY <1>2
  <2> QED
    BY <2>1
<1> HIDE DEF all, first, later
<1>7. all = first \o later
  <2> DEFINE both == first \o later
  <2> DEFINE T == Seq(Unit)
  <2>0. first \in Seq(T) /\ later \in Seq(T) /\ all \in Seq(T)
    BY <1>4, <1>5, <1>6
  <2> HIDE DEF T
  <2>1. both \in Seq(T) /\ Len(both) = m
    <3>1. both \in Seq(T) /\ Len(both) = Len(first) + Len(later)
      BY <2>0, ConcatProperties
    <3> QED
      BY <1>1, <1>5, <1>6, <3>1
  <2>2. both[1] = first[1] /\ \A i \in 1 .. m - 1 : both[1 + i] = later[i]
    <3>1. /\ \A i \in 1 .. Len(first) : both[i] = first[i]
          /\ \A i \in 1 .. Len(later) : both[Len(first) + i] = later[i]
      BY <2>0, ConcatParts
    <3> HIDE DEF both
    <3>2. Len(first) = 1 /\ Len(later) = m - 1
      BY <1>5, <1>6
    <3> QED
      BY <3>1, <3>2
  <2> HIDE DEF both
  <2>3. ASSUME NEW i \in 1 .. m PROVE all[i] = both[i]
    <3>1. CASE i = 1
      BY <1>4, <1>6, <2>2, <3>1
    <3>2. CASE i # 1
      <4>1. i - 1 \in 1 .. m - 1 /\ 1 + (i - 1) = i /\ n + 1 + (i - 1) = n + i
        BY <1>1, <3>2
      <4> QED
        BY <1>4, <1>5, <2>2, <4>1
    <3> QED
      BY <3>1, <3>2
  <2>4. all = both
    <3>1. Len(all) = m /\ m \in Nat
      BY <1>1, <1>4
    <3> QED
      BY <2>0, <2>1, <2>3, <3>1, SameElements
  <2> QED
    BY <2>4 DEF both
<1>8. FlattenSeq(first \o later) = FlattenSeq(first) \o FlattenSeq(later)
  BY <1>5, <1>6, FlattenSeqConcat
<1>9. FlattenSeq(first) = Text(n + 1)
  <2> DEFINE t == Text(n + 1)
  <2>1. t \in Seq(Unit) /\ first = Append(<<>>, t)
    BY <1>2 DEF first
  <2> HIDE DEF t
  <2>2. FlattenSeq(Append(<<>>, t)) = FlattenSeq(<<>>) \o t
    <3>1. <<>> \in Seq(Seq(Unit))
      OBVIOUS
    <3> QED
      BY <2>1, <3>1, FlattenSeqAppend
  <2>3. <<>> \o t = t
    BY <2>1
  <2> QED
    BY <2>1, <2>2, <2>3, FlattenSeqEmpty DEF t
<1> QED
  BY <1>3, <1>7, <1>8, <1>9

(* What is after a line is of later lines. *)
LEMMA AfterHolds ==
  ASSUME script \in Scripts, NEW n \in Nat, n <= Lines_ + 1
  PROVE  /\ After(n) \in Seq(Unit)
         /\ \A i \in DOMAIN After(n) : After(n)[i][1] > n
<1> DEFINE m == Lines_ + 1 - n
           all == [i \in 1 .. m |-> Text(n + i)]
<1>1. Lines_ \in Nat /\ m \in Nat
  BY ScriptIs
<1>2. \A i \in 1 .. m : n + i \in Nat
  BY <1>1
<1>3. After(n) = FlattenSeq(all)
  BY DEF After
<1> HIDE DEF m
<1>4. \A i \in 1 .. m : /\ Text(n + i) \in Seq(Unit)
                        /\ \A j \in 1 .. Len(Text(n + i)) : Text(n + i)[j] = <<n + i, j>>
  BY <1>2, TextIs
<1>5. all \in Seq(Seq(Unit)) /\ Len(all) = m /\ \A i \in 1 .. m : all[i] = Text(n + i)
  BY <1>1, <1>4, SMTT(60)
<1> HIDE DEF all
<1>6. After(n) \in Seq(Unit)
  BY <1>3, <1>5, FlattenSeqType
<1>7. Range(After(n)) = UNION {Range(all[i]) : i \in 1 .. Len(all)}
  BY <1>3, <1>5, FlattenSeqRange
<1>8. ASSUME NEW j \in DOMAIN After(n) PROVE After(n)[j][1] > n
  <2>1. After(n)[j] \in Range(After(n))
    BY DEF Range
  <2>2. PICK i \in 1 .. m : After(n)[j] \in Range(all[i])
    BY <1>5, <1>7, <2>1
  <2>3. After(n)[j] \in Range(Text(n + i)) /\ Text(n + i) \in Seq(Unit)
    BY <1>4, <1>5, <2>2
  <2>4. PICK l \in 1 .. Len(Text(n + i)) : After(n)[j] = Text(n + i)[l]
    BY <2>3 DEF Range
  <2>5. After(n)[j] = <<n + i, l>>
    BY <1>4, <2>4
  <2> QED
    BY <2>5, <2>2, <1>1
<1> QED
  BY <1>6, <1>8

(* The last text is followed by nothing. *)
LEMMA NothingAfterAll ==
  ASSUME script \in Scripts
  PROVE  After(Lines_ + 1) = <<>>
<1>1. Lines_ + 1 - (Lines_ + 1) = 0
  BY ScriptIs
<1>2. [i \in 1 .. 0 |-> Text(Lines_ + 1 + i)] = <<>>
  OBVIOUS
<1> QED
  BY <1>1, <1>2, FlattenSeqEmpty DEF After

(* All texts are the lines, put together, and the rest. *)
LEMMA AllTexts ==
  ASSUME script \in Scripts
  PROVE  After(0) = FlattenSeq([n \in DOMAIN script.lines |-> Line(n)])
                      \o [k \in 1 .. script.rest |-> <<Len(script.lines) + 1, k>>]
<1> DEFINE m == Lines_
           lines == [n \in 1 .. m |-> Text(n)]
           last == Text(m + 1)
           all == [i \in 1 .. m + 1 |-> Text(0 + i)]
<1>1. m \in Nat /\ DOMAIN script.lines = 1 .. m
  BY ScriptIs
<1>2. \A i \in Nat : Text(i) \in Seq(Unit)
  BY TextIs
<1>3. last = [k \in 1 .. script.rest |-> <<Len(script.lines) + 1, k>>]
  BY <1>1 DEF Text, Lines_
<1>4. lines = [n \in DOMAIN script.lines |-> Line(n)]
  BY <1>1 DEF Text
<1>5. After(0) = FlattenSeq(all)
  BY <1>1 DEF After
<1> HIDE DEF m
<1>6. lines \in Seq(Seq(Unit)) /\ Len(lines) = m /\ last \in Seq(Unit)
  <2>1. \A i \in 1 .. m : Text(i) \in Seq(Unit)
    BY <1>1, <1>2
  <2>2. Text(m + 1) \in Seq(Unit)
    BY <1>1, <1>2
  <2> QED
    BY <1>1, <2>1, <2>2
<1>7. all = Append(lines, last)
  BY <1>1, <1>6
<1> HIDE DEF lines, last, all
<1>8. FlattenSeq(Append(lines, last)) = FlattenSeq(lines) \o last
  BY <1>6, FlattenSeqAppend
<1> QED
  BY <1>3, <1>4, <1>5, <1>7, <1>8

(* The invariant of the input holds at first. *)
LEMMA InitHasInputInv == TransportInit => InputInv
<1> SUFFICES ASSUME TransportInit PROVE InputInv
  OBVIOUS
<1>1. /\ script \in Scripts /\ client = "open" /\ inbox = <<>> /\ read_buffer = <<>>
      /\ consumed = <<>>
  BY DEF TransportInit
<1>2. Lines_ \in Nat /\ 0 <= Lines_
  BY <1>1, ScriptIs
<1>3. unsent = After(0)
  BY <1>1, AllTexts DEF TransportInit
<1>4. unsent \in Seq(Unit)
  BY <1>1, <1>2, <1>3, AfterHolds
<1>5. CutInv
  <2>1. Len(consumed) = 0 /\ consumed = [i \in 1 .. 0 |-> i]
    BY <1>1
  <2>2. read_buffer \o (inbox \o unsent) = unsent
    BY <1>1, <1>4
  <2>3. inbox \in Seq(Unit)
    BY <1>1
  <2> QED
    BY <1>2, <1>3, <2>1, <2>2, <2>3 DEF CutInv
<1>6. UnsentInv
  <2>1. /\ Text(1) \in Seq(Unit) /\ Len(Text(1)) \in Nat
        /\ 0 < Lines_ => Len(Text(1)) > 0
    BY <1>1, <1>2, TextIs
  <2>2. Behind(Text(1), 0) = Text(1)
    BY <2>1 DEF Behind
  <2>3. unsent = Behind(Text(0 + 1), 0) \o After(0 + 1)
    BY <1>1, <1>2, <1>3, <2>2, AfterIs
  <2>4. 0 <= Len(Text(0 + 1)) /\ (0 < Lines_ => 0 < Len(Text(0 + 1)))
    BY <1>2, <2>1
  <2>5. 0 \in 0 .. Lines_ /\ 0 \in Nat
    BY <1>2
  <2> QED
    BY <2>3, <2>4, <2>5, Zenon DEF UnsentInv, SentTo
<1> QED
  BY <1>1, <1>4, <1>5, <1>6, SizesAssumption DEF InputInv

(* Where the first newline of the buffer is. *)
LEMMA NewlineIs ==
  ASSUME read_buffer \in Seq(Unit)
  PROVE  /\ Newline \in 0 .. Len(read_buffer)
         /\ Newline = 0 => \A i \in 1 .. Len(read_buffer) : ~IsNewline(read_buffer[i])
         /\ Newline > 0 => /\ IsNewline(read_buffer[Newline])
                           /\ \A i \in 1 .. Newline - 1 : ~IsNewline(read_buffer[i])
<1> DEFINE I == {i \in 1 .. Len(read_buffer) : IsNewline(read_buffer[i])}
<1>1. Newline = IF I # {} THEN Min(I) ELSE 0
  BY DEF Newline, SelectInSeq
<1>2. Len(read_buffer) \in Nat
  OBVIOUS
<1>3. CASE I = {}
  BY <1>1, <1>2, <1>3
<1>4. CASE I # {}
  <2>1. I \in SUBSET Nat
    BY <1>2
  <2>2. \E i \in I : \A j \in I : i <= j
    BY <1>4, <2>1, LeastNumber
  <2>3. Newline = CHOOSE i \in I : \A j \in I : i <= j
    BY <1>1, <1>4 DEF Min
  <2>4. Newline \in I /\ \A j \in I : Newline <= j
    BY <2>2, <2>3
  <2>5. Newline \in 1 .. Len(read_buffer) /\ IsNewline(read_buffer[Newline])
    BY <2>4
  <2>6. ASSUME NEW i \in 1 .. Newline - 1 PROVE ~IsNewline(read_buffer[i])
    <3>1. i \in 1 .. Len(read_buffer) /\ ~(Newline <= i)
      BY <1>2, <2>5
    <3> QED
      BY <2>4, <3>1
  <2> QED
    BY <1>2, <2>5, <2>6
<1> QED
  BY <1>3, <1>4

(* What is in the buffer is the start of the next text, and of the later   *)
(* ones if it is longer; its first newline is the end of the next line.    *)
LEMMA BufferHolds ==
  ASSUME InputInv
  PROVE  LET n == Len(consumed) + 1 IN
         /\ Newline = 0 /\ n \in 1 .. Lines_ => Len(read_buffer) < script.lines[n].size
         /\ Newline = 0 /\ n \notin 1 .. Lines_ => n = Lines_ + 1 /\ Len(read_buffer) <= script.rest
         /\ Newline > 0 => /\ n \in 1 .. Lines_ /\ Newline = script.lines[n].size
                           /\ SubSeq(read_buffer, 1, Newline) = Line(n)
<1> DEFINE k == Len(consumed)
           n == k + 1
           t == Text(n)
           later == After(n)
<1>1. /\ script \in Scripts /\ read_buffer \in Seq(Unit) /\ unsent \in Seq(Unit)
      /\ consumed \in Seq(Nat) /\ CutInv
  BY DEF InputInv
<1>2. k \in Nat /\ Lines_ \in Nat /\ k <= Lines_ /\ script.rest \in Nat
  BY <1>1, ScriptIs DEF CutInv
<1>3. PICK lost \in Seq(Unit) : read_buffer \o (lost \o unsent) = After(k)
  BY <1>1 DEF CutInv
<1> DEFINE w == lost \o unsent
<1>4. w \in Seq(Unit)
  BY <1>1
<1> HIDE DEF w
<1>5. After(k) = t \o later
  BY <1>1, <1>2, AfterIs
<1>6. n \in Nat /\ n <= Lines_ + 1
  BY <1>2
<1>7. /\ t \in Seq(Unit) /\ Len(t) \in Nat
      /\ \A i \in 1 .. Len(t) : t[i] = <<n, i>>
      /\ n \in 1 .. Lines_ => t = Line(n) /\ Len(t) = script.lines[n].size /\ Len(t) > 0
  BY <1>1, <1>6, TextIs
<1>8. later \in Seq(Unit)
  BY <1>1, <1>6, AfterHolds
<1>9. n \notin 1 .. Lines_ => n = Lines_ + 1 /\ Len(t) = script.rest /\ later = <<>>
  <2> SUFFICES ASSUME n \notin 1 .. Lines_ PROVE n = Lines_ + 1 /\ Len(t) = script.rest /\ later = <<>>
    OBVIOUS
  <2>1. n = Lines_ + 1
    BY <1>2
  <2>2. n \notin DOMAIN script.lines
    BY <1>1, ScriptIs
  <2>3. t = [j \in 1 .. script.rest |-> <<n, j>>]
    BY <2>2 DEF Text
  <2>4. Len(t) = script.rest
    BY <1>2, <2>3
  <2> QED
    BY <1>1, <2>1, <2>4, NothingAfterAll
<1> HIDE DEF k, n, t, later
<1>10. read_buffer \o w = t \o later
  BY <1>3, <1>5 DEF w
<1>11. Len(read_buffer) \in Nat
  BY <1>1
<1>12. \A i \in 1 .. Len(read_buffer) : i <= Len(t) => read_buffer[i] = <<n, i>>
  <2> SUFFICES ASSUME NEW i \in 1 .. Len(read_buffer), i <= Len(t) PROVE read_buffer[i] = <<n, i>>
    OBVIOUS
  <2>1. (read_buffer \o w)[i] = read_buffer[i]
    BY <1>1, <1>4, ConcatParts
  <2>2. i \in 1 .. Len(t)
    BY <1>7, <1>11
  <2>3. (t \o later)[i] = t[i]
    BY <1>7, <1>8, <2>2, ConcatParts
  <2> QED
    BY <1>7, <1>10, <2>1, <2>2, <2>3
<1>13. \A i \in 1 .. Len(t) : IsNewline(<<n, i>>) <=> n \in 1 .. Lines_ /\ i = Len(t)
  <2>1. DOMAIN script.lines = 1 .. Lines_
    BY <1>1, ScriptIs
  <2> QED
    BY <1>7, <2>1 DEF IsNewline
<1>14. CASE Newline = 0
  <2>1. \A i \in 1 .. Len(read_buffer) : ~IsNewline(read_buffer[i])
    BY <1>1, <1>14, NewlineIs
  <2>2. CASE n \in 1 .. Lines_
    <3>1. Len(read_buffer) < Len(t)
      <4> SUFFICES ASSUME ~(Len(read_buffer) < Len(t)) PROVE FALSE
        OBVIOUS
      <4> DEFINE j == Len(t)
      <4>1. j \in 1 .. Len(read_buffer) /\ j \in 1 .. Len(t) /\ j <= Len(t)
        BY <1>7, <1>11, <2>2
      <4>2. read_buffer[j] = <<n, j>>
        BY <1>12, <4>1
      <4>3. IsNewline(<<n, j>>)
        BY <1>13, <2>2, <4>1
      <4> QED
        BY <2>1, <4>1, <4>2, <4>3
    <3> QED
      BY <1>7, <1>14, <2>2, <3>1 DEF n, k
  <2>3. CASE n \notin 1 .. Lines_
    <3>1. later = <<>> /\ Len(t) = script.rest /\ n = Lines_ + 1
      BY <1>9, <2>3
    <3>2. Len(read_buffer \o w) = Len(t)
      BY <1>7, <1>10, <3>1
    <3>3. Len(read_buffer) <= Len(t)
      BY <1>1, <1>4, <1>11, <3>2
    <3> QED
      BY <1>14, <2>3, <3>1, <3>3 DEF n, k
  <2> QED
    BY <2>2, <2>3
<1>15. CASE Newline # 0
  <2>1. /\ Newline \in 1 .. Len(read_buffer) /\ IsNewline(read_buffer[Newline])
        /\ \A i \in 1 .. Newline - 1 : ~IsNewline(read_buffer[i])
    BY <1>1, <1>11, <1>15, NewlineIs
  <2>2. n \in 1 .. Lines_
    <3> SUFFICES ASSUME n \notin 1 .. Lines_ PROVE FALSE
      OBVIOUS
    <3>1. later = <<>>
      BY <1>9
    <3>2. Len(read_buffer \o w) = Len(t)
      BY <1>7, <1>10, <3>1
    <3>3. Len(read_buffer) <= Len(t)
      BY <1>1, <1>4, <1>11, <3>2
    <3>4. Newline \in 1 .. Len(t) /\ Newline <= Len(t)
      BY <1>7, <1>11, <2>1, <3>3
    <3>5. read_buffer[Newline] = <<n, Newline>>
      BY <1>12, <2>1, <3>4
    <3> QED
      BY <1>13, <2>1, <3>4, <3>5
  <2>3. Newline = Len(t)
    <3>1. CASE Newline < Len(t)
      <4>1. Newline \in 1 .. Len(t) /\ Newline <= Len(t)
        BY <1>7, <1>11, <2>1, <3>1
      <4>2. read_buffer[Newline] = <<n, Newline>>
        BY <1>12, <2>1, <4>1
      <4> QED
        BY <1>13, <2>1, <3>1, <4>1, <4>2
    <3>2. CASE Newline > Len(t)
      <4> DEFINE j == Len(t)
      <4>1. j \in 1 .. Len(read_buffer) /\ j \in 1 .. Len(t) /\ j \in 1 .. Newline - 1 /\ j <= Len(t)
        BY <1>7, <1>11, <2>1, <2>2, <3>2
      <4>2. read_buffer[j] = <<n, j>>
        BY <1>12, <4>1
      <4>3. IsNewline(<<n, j>>)
        BY <1>13, <2>2, <4>1
      <4> QED
        BY <2>1, <4>1, <4>2, <4>3
    <3> QED
      BY <1>7, <1>11, <2>1, <3>1, <3>2
  <2>4. Len(t) <= Len(read_buffer)
    BY <1>11, <2>1, <2>3
  <2>5. SubSeq(read_buffer, 1, Len(t)) = t
    <3>1. read_buffer \in Seq(Unit)
      BY <1>1
    <3> QED
      BY <1>4, <1>7, <1>8, <1>10, <2>4, <3>1, CutTwice
  <2> QED
    BY <1>7, <1>15, <2>2, <2>3, <2>5 DEF n, k
<1> QED
  BY <1>14, <1>15

(* The client sends a unit: the texts are the same, and it is one further. *)
LEMMA SendsOneUnit ==
  ASSUME script \in Scripts, script' = script, unsent # <<>>, unsent' = Tail(unsent),
         NEW n \in 0 .. Lines_, NEW k \in Nat, SentTo(n, k)
  PROVE  \E m \in {n, n + 1} : m <= Lines_ /\ \E j \in Nat : SentTo(m, j)'
<1> DEFINE t == Text(n + 1)
           later == After(n + 1)
           left == Behind(t, k)
<1>1. n \in Nat /\ n + 1 \in Nat /\ Lines_ \in Nat /\ n <= Lines_ /\ n + 1 <= Lines_ + 1
  BY ScriptIs
<1>2. t \in Seq(Unit) /\ Len(t) \in Nat
  BY <1>1, TextIs
<1>3. later \in Seq(Unit)
  BY <1>1, AfterHolds
<1>4. k <= Len(t) /\ (n < Lines_ => k < Len(t)) /\ unsent = left \o later
  BY DEF SentTo
<1>5. /\ Lines_' = Lines_ /\ Text(n + 1)' = t /\ After(n + 1)' = later
      /\ Text(n + 1 + 1)' = Text(n + 1 + 1) /\ After(n + 1 + 1)' = After(n + 1 + 1)
  BY DEF Lines_, Text, After, Line
<1>6. n = Lines_ => later = <<>>
  BY NothingAfterAll
<1> HIDE DEF t, later
<1>7. left \in Seq(Unit) /\ Len(left) = Len(t) - k
  BY <1>2, <1>4, BehindElements
<1>8. k < Len(t)
  <2> SUFFICES ASSUME ~(k < Len(t)) PROVE FALSE
    OBVIOUS
  <2>1. later = <<>> /\ Len(left) = 0
    BY <1>1, <1>2, <1>4, <1>6, <1>7
  <2> HIDE DEF left
  <2>2. left = <<>>
    BY <1>7, <2>1
  <2> QED
    BY <1>4, <2>1, <2>2
<1>9. Tail(left) = Behind(t, k + 1)
  <2>1. left # <<>>
    BY <1>2, <1>7, <1>8
  <2>2. Tail(left) = SubSeq(left, 2, Len(left))
    BY <1>7, <2>1, TailIsSubSeq
  <2>3. Behind(Behind(t, k), 1) = Behind(t, k + 1)
    BY <1>2, <1>8, BehindBehind
  <2> QED
    BY <2>2, <2>3 DEF Behind
<1>10. unsent' = Behind(t, k + 1) \o later
  <2>1. left # <<>>
    BY <1>2, <1>7, <1>8
  <2>2. left \in Seq(Unit)
    BY <1>7
  <2> HIDE DEF left
  <2>3. Tail(left \o later) = Tail(left) \o later
    BY <1>3, <2>1, <2>2, TailOfConcat
  <2> QED
    BY <1>4, <1>9, <2>3
<1>11. CASE k + 1 < Len(t) \/ n = Lines_
  <2>1. k + 1 \in Nat /\ k + 1 <= Len(t) /\ (n < Lines_ => k + 1 < Len(t))
    BY <1>1, <1>2, <1>8, <1>11
  <2>2. SentTo(n, k + 1)'
    BY <1>5, <1>10, <2>1 DEF SentTo
  <2> QED
    BY <1>1, <2>1, <2>2
<1>12. CASE ~(k + 1 < Len(t)) /\ n # Lines_
  <2>1. n + 1 <= Lines_ /\ k + 1 = Len(t)
    BY <1>1, <1>2, <1>8, <1>12
  <2>2. Behind(t, k + 1) = <<>>
    BY <1>2, <2>1 DEF Behind
  <2>3. unsent' = later
    BY <1>3, <1>10, <2>2, SMTT(60)
  <2> DEFINE u == Text(n + 1 + 1)
             far == After(n + 1 + 1)
  <2>4. later = u \o far
    BY <1>1, <2>1, AfterIs DEF later
  <2>5. u \in Seq(Unit) /\ Len(u) \in Nat
    BY <1>1, TextIs
  <2>6. n + 1 < Lines_ => Len(u) > 0
    <3> SUFFICES ASSUME n + 1 < Lines_ PROVE Len(u) > 0
      OBVIOUS
    <3>1. n + 1 + 1 \in 1 .. Lines_ /\ n + 1 + 1 \in Nat
      BY <1>1
    <3> QED
      BY <3>1, TextIs
  <2> HIDE DEF u, far
  <2>7. Behind(u, 0) = u
    BY <2>5 DEF Behind
  <2>8. /\ 0 <= Len(u) /\ (n + 1 < Lines_ => 0 < Len(u))
        /\ unsent' = Behind(u, 0) \o far
    <3>1. unsent' = u \o far
      BY <2>3, <2>4
    <3>2. 0 <= Len(u) /\ (n + 1 < Lines_ => 0 < Len(u))
      BY <1>1, <2>5, <2>6
    <3> QED
      BY <2>7, <3>1, <3>2, Zenon
  <2>9. SentTo(n + 1, 0)'
    BY <1>5, <2>8 DEF SentTo, u, far
  <2> QED
    BY <2>1, <2>9
<1> QED
  BY <1>11, <1>12

(* A step that leaves the script and the unsent alone. *)
LEMMA KeepsUnsentInv ==
  ASSUME UnsentInv, UNCHANGED <<script, unsent>>
  PROVE  UnsentInv'
BY DEF UnsentInv, SentTo, Lines_, Text, After, Line

(* The client's unit goes from what it has to send into the socket. *)
LEMMA ClientSendsKeepsInputInv ==
  ASSUME InputInv, ClientSends
  PROVE  InputInv'
<1>1. /\ script \in Scripts /\ unsent \in Seq(Unit) /\ inbox \in Seq(Unit)
      /\ read_buffer \in Seq(Unit) /\ Len(read_buffer) <= BufferSize /\ consumed \in Seq(Nat)
      /\ CutInv /\ UnsentInv
  BY DEF InputInv
<1>2. /\ client = "open" /\ client' = "open" /\ unsent # <<>>
      /\ inbox' = Append(inbox, Head(unsent)) /\ unsent' = Tail(unsent)
      /\ script' = script /\ read_buffer' = read_buffer /\ consumed' = consumed
  BY DEF ClientSends, reader, history
<1>3. Head(unsent) \in Unit /\ unsent' \in Seq(Unit) /\ inbox' \in Seq(Unit)
  BY <1>1, <1>2
<1>4. UnsentInv'
  <2>1. PICK n \in 0 .. Lines_, k \in Nat : SentTo(n, k)
    BY <1>1 DEF UnsentInv
  <2>2. PICK m \in {n, n + 1} : m <= Lines_ /\ \E j \in Nat : SentTo(m, j)'
    BY <1>1, <1>2, <2>1, SendsOneUnit
  <2>3. m \in 0 .. Lines_ /\ Lines_' = Lines_
    BY <1>1, <1>2, <2>2, ScriptIs DEF Lines_
  <2> QED
    BY <2>2, <2>3 DEF UnsentInv
<1>5. CutInv'
  <2>1. read_buffer \o (inbox \o unsent) = After(Len(consumed))
    BY <1>1, <1>2 DEF CutInv
  <2>2. inbox' \o unsent' = inbox \o unsent
    <3> DEFINE one == <<Head(unsent)>>
    <3>1. one \in Seq(Unit) /\ inbox' = inbox \o one /\ unsent = one \o unsent'
      BY <1>1, <1>2, <1>3
    <3> HIDE DEF one
    <3>2. (inbox \o one) \o unsent' = inbox \o (one \o unsent')
      <4>1. inbox \in Seq(Unit) /\ one \in Seq(Unit) /\ unsent' \in Seq(Unit)
        BY <1>1, <1>3, <3>1
      <4> QED
        BY <4>1, ConcatAssociative
    <3> QED
      BY <3>1, <3>2
  <2>3. read_buffer' \o (inbox' \o unsent') = After(Len(consumed))
    BY <1>2, <2>1, <2>2
  <2>4. After(Len(consumed))' = After(Len(consumed)) /\ Lines_' = Lines_
    BY <1>2 DEF After, Lines_, Text, Line
  <2>5. \E lost \in Seq(Unit) : /\ client' # "gone" => lost = inbox'
                                /\ read_buffer' \o (lost \o unsent') = After(Len(consumed))'
    BY <1>3, <2>3, <2>4
  <2>6. /\ Len(consumed) <= Lines_ /\ consumed = [i \in 1 .. Len(consumed) |-> i]
        /\ \A i \in 1 .. Len(consumed) : script.lines[i].size <= BufferSize
    BY <1>1 DEF CutInv
  <2> QED
    BY <1>2, <2>4, <2>5, <2>6 DEF CutInv
<1> QED
  BY <1>1, <1>2, <1>3, <1>4, <1>5 DEF InputInv

(* The invariant of the input, as far as a read changes it. *)
LEMMA ReadKeepsInputInv ==
  ASSUME InputInv, UNCHANGED <<script, unsent, client>>, CutInv',
         inbox' \in Seq(Unit), read_buffer' \in Seq(Unit), Len(read_buffer') <= BufferSize,
         consumed' \in Seq(Nat), client = "gone" => inbox' = <<>>
  PROVE  InputInv'
<1>1. UnsentInv'
  BY KeepsUnsentInv DEF InputInv
<1> QED
  BY <1>1 DEF InputInv

(* Units move from the socket into the buffer. *)
LEMMA ReadBytesKeepsInputInv ==
  ASSUME InputInv, ReadBytes
  PROVE  InputInv'
<1> DEFINE n == Lesser(Len(inbox), BufferSize - Len(read_buffer))
           first == SubSeq(inbox, 1, n)
           rest == Behind(inbox, n)
<1>1. /\ script \in Scripts /\ unsent \in Seq(Unit) /\ inbox \in Seq(Unit)
      /\ read_buffer \in Seq(Unit) /\ Len(read_buffer) <= BufferSize /\ consumed \in Seq(Nat)
      /\ CutInv /\ client # "gone"
  BY DEF InputInv, ReadBytes
<1>2. /\ read_buffer' = read_buffer \o first /\ inbox' = rest
      /\ client' = client /\ script' = script /\ unsent' = unsent /\ consumed' = consumed
  BY DEF ReadBytes, Behind, history
<1>3. /\ n \in Nat /\ n <= Len(inbox) /\ n <= BufferSize - Len(read_buffer)
      /\ Len(read_buffer) \in Nat /\ BufferSize \in Nat
  <2>1. Len(inbox) \in Nat /\ Len(read_buffer) \in Nat /\ BufferSize \in Nat
    BY <1>1, SizesAssumption
  <2> QED
    BY <1>1, <2>1 DEF Lesser
<1> HIDE DEF n
<1>4. first \in Seq(Unit) /\ Len(first) = n /\ rest \in Seq(Unit) /\ first \o rest = inbox
  BY <1>1, <1>3, FirstElements, BehindElements, CutAndJoined
<1> HIDE DEF first, rest
<1>5. read_buffer' \in Seq(Unit) /\ Len(read_buffer') <= BufferSize
  <2>1. first \in Seq(Unit) /\ Len(first) = n
    BY <1>4
  <2>2. read_buffer \o first \in Seq(Unit) /\ Len(read_buffer \o first) = Len(read_buffer) + Len(first)
    BY <1>1, <2>1, ConcatProperties
  <2> QED
    BY <1>2, <1>3, <2>1, <2>2
<1>6. read_buffer' \o (inbox' \o unsent) = After(Len(consumed))
  <2>1. read_buffer \o (inbox \o unsent) = After(Len(consumed))
    BY <1>1 DEF CutInv
  <2>2. first \in Seq(Unit) /\ rest \in Seq(Unit)
    BY <1>4
  <2> DEFINE w == rest \o unsent
  <2>3. w \in Seq(Unit)
    BY <1>1, <2>2, ConcatProperties
  <2> HIDE DEF w
  <2>4. (read_buffer \o first) \o w = read_buffer \o (first \o w)
    <3>1. read_buffer \in Seq(Unit) /\ first \in Seq(Unit)
      BY <1>1, <2>2
    <3> QED
      BY <2>3, <3>1, ConcatAssociative
  <2>5. (first \o rest) \o unsent = first \o (rest \o unsent)
    BY <1>1, <2>2, ConcatAssociative, SMTT(60)
  <2> QED
    BY <1>2, <1>4, <2>1, <2>4, <2>5 DEF w
<1>7. CutInv'
  <2>1. After(Len(consumed))' = After(Len(consumed)) /\ Lines_' = Lines_
    BY <1>2 DEF After, Lines_, Text, Line
  <2>2. \E lost \in Seq(Unit) : /\ client' # "gone" => lost = inbox'
                                /\ read_buffer' \o (lost \o unsent') = After(Len(consumed))'
    BY <1>2, <1>4, <1>6, <2>1
  <2>3. /\ Len(consumed) <= Lines_ /\ consumed = [i \in 1 .. Len(consumed) |-> i]
        /\ \A i \in 1 .. Len(consumed) : script.lines[i].size <= BufferSize
    BY <1>1 DEF CutInv
  <2> QED
    BY <1>2, <2>1, <2>2, <2>3 DEF CutInv
<1> QED
  BY <1>1, <1>2, <1>4, <1>5, <1>7, ReadKeepsInputInv

(* The line of the script that the text of a line is. *)
LEMMA LineOfLine ==
  ASSUME script \in Scripts, NEW n \in 1 .. Lines_
  PROVE  LineOf(Line(n)) = n
<1>1. DOMAIN script.lines = 1 .. Lines_ /\ Lines_ \in Nat
  BY ScriptIs
<1>2. \A m \in 1 .. Lines_ : Line(m) = Line(n) => m = n
  <2> SUFFICES ASSUME NEW m \in 1 .. Lines_, Line(m) = Line(n) PROVE m = n
    OBVIOUS
  <2>1. m \in Nat /\ n \in Nat
    BY <1>1
  <2>2. /\ Line(m) = Text(m) /\ Len(Text(m)) \in Nat /\ Len(Text(m)) > 0
        /\ \A i \in 1 .. Len(Text(m)) : Text(m)[i] = <<m, i>>
    BY <2>1, TextIs
  <2>3. /\ Line(n) = Text(n) /\ Len(Text(n)) \in Nat /\ Len(Text(n)) > 0
        /\ \A i \in 1 .. Len(Text(n)) : Text(n)[i] = <<n, i>>
    BY <2>1, TextIs
  <2>4. Text(m)[1] = <<m, 1>> /\ Text(n)[1] = <<n, 1>>
    BY <2>2, <2>3
  <2>5. <<m, 1>> = <<n, 1>>
    BY <2>2, <2>3, <2>4
  <2> QED
    BY <2>5
<1>3. LineOf(Line(n)) = CHOOSE m \in 1 .. Lines_ : Line(n) = Line(m)
  BY <1>1 DEF LineOf
<1> QED
  BY <1>2, <1>3

(* What poll_read cuts off is the next line. *)
LEMMA ReadLineTakes ==
  ASSUME InputInv, ReadLine
  PROVE  LET n == Len(consumed) + 1 IN
         /\ n \in 1 .. Lines_ /\ consumed' = Append(consumed, n)
         /\ script.lines[n].size <= BufferSize
         /\ Newline = Len(Line(n)) /\ SubSeq(read_buffer, 1, Newline) = Line(n)
         /\ Line(n) \in Seq(Unit) /\ Newline \in Nat /\ Newline <= Len(read_buffer)
<1> DEFINE n == Len(consumed) + 1
<1>1. script \in Scripts /\ read_buffer \in Seq(Unit) /\ Len(read_buffer) <= BufferSize
  BY DEF InputInv
<1>2. Newline > 0 /\ consumed' = Append(consumed, LineOf(SubSeq(read_buffer, 1, Newline)))
  BY Zenon DEF ReadLine
<1>3. n \in 1 .. Lines_ /\ Newline = script.lines[n].size /\ SubSeq(read_buffer, 1, Newline) = Line(n)
  BY <1>2, BufferHolds
<1>4. Newline \in Nat /\ Newline <= Len(read_buffer)
  <2>1. Newline \in 0 .. Len(read_buffer)
    BY <1>1, NewlineIs
  <2> QED
    BY <1>1, <2>1
<1> HIDE DEF n
<1>5. n \in Nat /\ LineOf(Line(n)) = n
  BY <1>1, <1>3, LineOfLine, ScriptIs
<1>6. Line(n) \in Seq(Unit) /\ Len(Line(n)) = script.lines[n].size
  BY <1>1, <1>3, <1>5, TextIs
<1>7. script.lines[n].size <= BufferSize
  <2>1. Len(read_buffer) \in Nat /\ BufferSize \in Nat
    BY <1>1, SizesAssumption
  <2> QED
    BY <1>1, <1>3, <1>4, <2>1
<1> QED
  BY <1>2, <1>3, <1>4, <1>5, <1>6, <1>7 DEF n

(* A line is cut off: what is left is after it. *)
LEMMA ReadLineKeepsInputInv ==
  ASSUME InputInv, ReadLine
  PROVE  InputInv'
<1> DEFINE k == Len(consumed)
           n == k + 1
           line == Line(n)
           rest == Behind(read_buffer, Newline)
           later == After(n)
<1>1. /\ script \in Scripts /\ unsent \in Seq(Unit) /\ inbox \in Seq(Unit)
      /\ read_buffer \in Seq(Unit) /\ Len(read_buffer) <= BufferSize /\ consumed \in Seq(Nat)
      /\ CutInv
      /\ client = "gone" => inbox = <<>>
  BY DEF InputInv
<1>2. /\ read_buffer' = rest
      /\ client' = client /\ script' = script /\ unsent' = unsent /\ inbox' = inbox
  BY DEF ReadLine, Behind, environment
<1>3. /\ n \in 1 .. Lines_ /\ consumed' = Append(consumed, n)
      /\ script.lines[n].size <= BufferSize
      /\ Newline = Len(line) /\ SubSeq(read_buffer, 1, Newline) = line
      /\ line \in Seq(Unit) /\ Newline \in Nat /\ Newline <= Len(read_buffer)
  BY ReadLineTakes
<1>4. /\ k <= Lines_ /\ consumed = [i \in 1 .. k |-> i]
      /\ \A i \in 1 .. k : script.lines[i].size <= BufferSize
  BY <1>1 DEF CutInv
<1>5. PICK lost \in Seq(Unit) : /\ client # "gone" => lost = inbox
                                /\ read_buffer \o (lost \o unsent) = After(k)
  BY <1>1 DEF CutInv
<1>6. k \in Nat /\ Lines_ \in Nat /\ n \in Nat /\ n <= Lines_ + 1
  BY <1>1, <1>3, ScriptIs
<1>7. After(k) = line \o later
  <2>1. After(k) = Text(k + 1) \o After(k + 1)
    BY <1>1, <1>4, <1>6, AfterIs
  <2>2. Text(n) = Line(n)
    BY <1>1, <1>3, <1>6, TextIs
  <2> QED
    BY <2>1, <2>2
<1>8. later \in Seq(Unit)
  BY <1>1, <1>6, AfterHolds
<1> DEFINE w == lost \o unsent
<1>9. w \in Seq(Unit)
  BY <1>1, <1>5
<1>10. rest \in Seq(Unit) /\ Len(rest) = Len(read_buffer) - Newline
  BY <1>1, <1>3, BehindElements
<1> HIDE DEF line, rest, later, w, k, n
<1>11. rest \o w = later
  <2>1. read_buffer \o w = line \o later
    BY <1>5, <1>7 DEF w
  <2>2. line \in Seq(Unit) /\ Len(line) <= Len(read_buffer)
    BY <1>3
  <2>3. Behind(read_buffer, Len(line)) \o w = later
    BY <1>1, <1>8, <1>9, <2>1, <2>2, CutTwice
  <2> QED
    BY <1>3, <2>3 DEF rest
<1>12. /\ consumed' \in Seq(Nat) /\ Len(consumed') = n
       /\ consumed' = [i \in 1 .. n |-> i]
       /\ \A i \in 1 .. n : script.lines[i].size <= BufferSize
  <2>1. n = k + 1
    BY DEF n
  <2>2. Len(consumed) = k
    BY DEF k
  <2>3. consumed' \in Seq(Nat) /\ Len(consumed') = n
    BY <1>1, <1>3, <1>6, <2>1, <2>2
  <2>4. consumed' = [i \in 1 .. n |-> i]
    BY <1>3, <1>4, <1>6, <2>1, <2>2
  <2>5. \A i \in 1 .. n : script.lines[i].size <= BufferSize
    BY <1>3, <1>4, <1>6, <2>1
  <2> QED
    BY <2>3, <2>4, <2>5
<1>13. Lines_' = Lines_
  BY <1>2 DEF Lines_
<1>14. CutInv'
  <2>1. Len(consumed') <= Lines_
    BY <1>3, <1>6, <1>12
  <2>2. After(Len(consumed))' = later
    BY <1>2, <1>12 DEF Lines_, After, Text, Line, later
  <2>3. read_buffer' \o (lost \o unsent') = After(Len(consumed))'
    BY <1>2, <1>11, <2>2 DEF w
  <2>4. client' # "gone" => lost = inbox'
    BY <1>2, <1>5
  <2>5. \E x \in Seq(Unit) : /\ client' # "gone" => x = inbox'
                             /\ read_buffer' \o (x \o unsent') = After(Len(consumed))'
    BY <1>5, <2>3, <2>4
  <2> QED
    BY <1>2, <1>12, <1>13, <2>1, <2>5 DEF CutInv
<1>15. read_buffer' \in Seq(Unit) /\ Len(read_buffer') <= BufferSize
  <2>1. Len(read_buffer) \in Nat /\ BufferSize \in Nat
    BY <1>1, SizesAssumption
  <2> QED
    BY <1>1, <1>2, <1>3, <1>10, <2>1
<1> QED
  BY <1>1, <1>2, <1>12, <1>14, <1>15, ReadKeepsInputInv

(* A step of the client that sends nothing: what the socket held is lost   *)
(* if it dies.                                                             *)
LEMMA ClientEndsKeepsInputInv ==
  ASSUME InputInv, UNCHANGED <<script, unsent, read_buffer, consumed>>,
         \/ client # "gone" /\ client' = "finished" /\ inbox' = inbox
         \/ client' = "gone" /\ inbox' = <<>>
  PROVE  InputInv'
<1>1. CutInv /\ UnsentInv'
  BY KeepsUnsentInv DEF InputInv
<1>2. PICK lost \in Seq(Unit) : /\ client # "gone" => lost = inbox
                                /\ read_buffer \o (lost \o unsent) = After(Len(consumed))
  BY <1>1 DEF CutInv
<1>3. After(Len(consumed))' = After(Len(consumed)) /\ Lines_' = Lines_
  BY DEF After, Lines_, Text, Line
<1>4. CutInv'
  BY <1>1, <1>2, <1>3 DEF CutInv
<1>5. /\ client' \in {"open", "finished", "gone"} /\ inbox' \in Seq(Unit)
      /\ client' = "gone" => inbox' = <<>>
  <2>1. inbox \in Seq(Unit) /\ <<>> \in Seq(Unit)
    BY DEF InputInv
  <2>2. CASE client # "gone" /\ client' = "finished" /\ inbox' = inbox
    BY <2>1, <2>2
  <2>3. CASE client' = "gone" /\ inbox' = <<>>
    BY <2>1, <2>3
  <2> QED
    BY <2>2, <2>3
<1> QED
  BY <1>1, <1>4, <1>5 DEF InputInv

(* Every step of the input keeps its invariant. *)
LEMMA InputStepKeepsInv ==
  ASSUME InputInv, InputStep
  PROVE  InputInv'
<1>1. CASE ReadLine
  BY <1>1, ReadLineKeepsInputInv
<1>2. CASE ReadBytes
  BY <1>2, ReadBytesKeepsInputInv
<1>3. CASE ClientSends
  BY <1>3, ClientSendsKeepsInputInv
<1>4. CASE ClientFinishes
  BY <1>4, ClientEndsKeepsInputInv DEF ClientFinishes, reader, history
<1>5. CASE ClientDies
  BY <1>5, ClientEndsKeepsInputInv, SMTT(60) DEF ClientDies, reader, history
<1>6. CASE UNCHANGED input
  BY <1>6, ZenonT(60) DEF input, InputInv, CutInv, UnsentInv, SentTo, Lines_, After, Text, Line
<1> QED
  BY <1>1, <1>2, <1>3, <1>4, <1>5, <1>6 DEF InputStep

-----------------------------------------------------------------------------
(* The length limit, and the order of the lines.                           *)

(* The first newline is where it was as long as the buffer is the same. *)
LEMMA SameNewline ==
  ASSUME read_buffer' = read_buffer, script' = script
  PROVE  Newline' = Newline
BY DEF Newline, SelectInSeq, IsNewline

(* What makes the stream fail stays. *)
LEMMA NextKeepsFailureInv ==
  ASSUME FailureInv, [Next]_tvars
  PROVE  FailureInv'
<1>1. CASE Poll \/ Sleep \/ Drop \/ Client \/ Answer \/ OtherWrites \/ UNCHANGED tvars
  <2>1. /\ read_buffer' = read_buffer /\ script' = script /\ failure' = failure
        /\ pc \in {"error", "dropped"} => pc' \in {"error", "dropped"}
    BY <1>1 DEF Poll, Sleep, Drop, Client, ClientSends, ClientFinishes, ClientDies, ClientReads,
                Answer, OtherWrites, tvars, environment, task, reader, history
  <2> QED
    BY <2>1, SameNewline DEF FailureInv
<1>2. CASE PollStart
  <2>1. /\ read_buffer' = read_buffer /\ script' = script
        /\ failure' = failure \/ (pc' = "error" /\ failure' = "io")
        /\ pc = "poll"
    BY <1>2 DEF PollStart, reader, writer
  <2>2. failure = "none"
    BY <2>1 DEF FailureInv
  <2> QED
    BY <2>1, <2>2 DEF FailureInv
<1>3. CASE ReadLine
  <2>1. pc = "read" /\ (failure' = failure \/ (pc' = "error" /\ failure' = "utf8"))
    BY <1>3, Zenon DEF ReadLine
  <2>2. failure = "none"
    BY <2>1 DEF FailureInv
  <2> QED
    BY <2>1, <2>2 DEF FailureInv
<1>4. CASE LineTooLong
  <2>1. /\ read_buffer' = read_buffer /\ script' = script
        /\ Newline = 0 /\ Len(read_buffer) >= BufferSize /\ pc' = "error"
    BY <1>4 DEF LineTooLong, reader, environment
  <2> QED
    BY <2>1, SameNewline DEF FailureInv
<1>5. CASE ReadBytes \/ ReadWouldBlock \/ ReadEnd \/ ReadError
  <2>1. pc = "read" /\ (failure' = failure \/ (pc' = "error" /\ failure' = "io"))
    BY <1>5 DEF ReadBytes, ReadWouldBlock, ReadEnd, ReadError, MustRead, history
  <2>2. failure = "none"
    BY <2>1 DEF FailureInv
  <2> QED
    BY <2>1, <2>2 DEF FailureInv
<1> QED
  BY <1>1, <1>2, <1>3, <1>4, <1>5 DEF Next, PollRead

(* The limit follows from what the buffer holds. *)
LEMMA LimitHolds == InputInv /\ FailureInv => LengthLimit
<1> SUFFICES ASSUME InputInv, FailureInv PROVE LengthLimit
  OBVIOUS
<1>1. /\ Len(consumed) \in Nat /\ DOMAIN consumed = 1 .. Len(consumed)
      /\ consumed = [i \in 1 .. Len(consumed) |-> i]
      /\ \A i \in 1 .. Len(consumed) : script.lines[i].size <= BufferSize
  BY DEF InputInv, CutInv
<1>2. \A i \in DOMAIN consumed : script.lines[consumed[i]].size <= BufferSize
  <2> SUFFICES ASSUME NEW i \in DOMAIN consumed
               PROVE  script.lines[consumed[i]].size <= BufferSize
    OBVIOUS
  <2>1. consumed[i] = i /\ i \in 1 .. Len(consumed)
    BY <1>1
  <2> QED
    BY <1>1, <2>1
<1> DEFINE n == Len(consumed) + 1
<1>3. failure = "too_long" =>
        IF n \in DOMAIN script.lines THEN script.lines[n].size > BufferSize
                                     ELSE script.rest >= BufferSize
  <2> SUFFICES ASSUME failure = "too_long"
               PROVE  IF n \in DOMAIN script.lines THEN script.lines[n].size > BufferSize
                                                   ELSE script.rest >= BufferSize
    OBVIOUS
  <2>1. Newline = 0 /\ Len(read_buffer) >= BufferSize
    BY DEF FailureInv
  <2>2. /\ n \in 1 .. Lines_ => Len(read_buffer) < script.lines[n].size
        /\ n \notin 1 .. Lines_ => Len(read_buffer) <= script.rest
    BY <2>1, BufferHolds
  <2>3. /\ DOMAIN script.lines = 1 .. Lines_ /\ script.rest \in Nat
        /\ \A i \in 1 .. Lines_ : script.lines[i].size \in Nat
        /\ Len(read_buffer) \in Nat /\ BufferSize \in Nat
    BY ScriptIs, SizesAssumption DEF InputInv
  <2> HIDE DEF n
  <2> QED
    BY <2>1, <2>2, <2>3
<1> QED
  BY <1>2, <1>3 DEF LengthLimit

(* However the bytes of the client's lines arrive, the length limit falls  *)
(* on the lines that are too long, and on no other.                        *)
THEOREM LimitIsOfLines == Spec => []LengthLimit
<1>1. TransportInit => InputInv /\ FailureInv
  BY InitHasInputInv DEF TransportInit, FailureInv
<1>2. InputInv /\ FailureInv /\ [Next]_tvars => InputInv' /\ FailureInv'
  BY NextSteps, InputStepKeepsInv, NextKeepsFailureInv
<1> QED
  BY <1>1, <1>2, LimitHolds, PTL DEF Spec

(* What has left the client whole is what it has sent. *)
LEMMA LeftWholeIs ==
  ASSUME script \in Scripts, unsent \in Seq(Unit),
         NEW n \in 0 .. Lines_, NEW k \in Nat, SentTo(n, k)
  PROVE  LeftWhole = UpTo(n)
<1> DEFINE t == Text(n + 1)
           later == After(n + 1)
           left == Behind(t, k)
           whole(m) == \A i \in DOMAIN unsent : unsent[i][1] > m
           ends(m) == whole(m) /\ (m < Len(script.lines) => ~whole(m + 1))
<1>1. n \in Nat /\ n + 1 \in Nat /\ Lines_ \in Nat /\ n <= Lines_ /\ n + 1 <= Lines_ + 1
  BY ScriptIs
<1>2. t \in Seq(Unit) /\ Len(t) \in Nat /\ \A i \in 1 .. Len(t) : t[i] = <<n + 1, i>>
  BY <1>1, TextIs
<1>3. later \in Seq(Unit) /\ \A i \in DOMAIN later : later[i][1] > n + 1
  BY <1>1, AfterHolds
<1>4. k <= Len(t) /\ (n < Lines_ => k < Len(t)) /\ unsent = left \o later
  BY DEF SentTo
<1> HIDE DEF t, later
<1>5. /\ left \in Seq(Unit) /\ Len(left) = Len(t) - k
      /\ \A i \in 1 .. Len(t) - k : left[i] = t[k + i]
  BY <1>2, <1>4, BehindElements
<1>6. \A i \in 1 .. Len(left) : left[i] = <<n + 1, k + i>>
  <2> SUFFICES ASSUME NEW i \in 1 .. Len(left) PROVE left[i] = <<n + 1, k + i>>
    OBVIOUS
  <2>1. k + i \in 1 .. Len(t) /\ i \in 1 .. Len(t) - k
    BY <1>2, <1>4, <1>5
  <2> QED
    BY <1>2, <1>5, <2>1
<1> HIDE DEF left
<1>7. /\ Len(unsent) = Len(left) + Len(later) /\ DOMAIN unsent = 1 .. Len(unsent)
      /\ Len(left) \in Nat /\ Len(later) \in Nat /\ DOMAIN later = 1 .. Len(later)
      /\ \A i \in 1 .. Len(left) : unsent[i] = left[i]
      /\ \A i \in 1 .. Len(later) : unsent[Len(left) + i] = later[i]
  <2>1. left \in Seq(Unit) /\ later \in Seq(Unit)
    BY <1>3, <1>5
  <2>2. /\ \A i \in 1 .. Len(left) : (left \o later)[i] = left[i]
        /\ \A i \in 1 .. Len(later) : (left \o later)[Len(left) + i] = later[i]
    BY <2>1, ConcatParts
  <2>3. Len(left \o later) = Len(left) + Len(later)
    BY <2>1, ConcatProperties
  <2> QED
    BY <1>4, <2>1, <2>2, <2>3
<1>8. whole(n)
  <2> SUFFICES ASSUME NEW i \in DOMAIN unsent PROVE unsent[i][1] > n
    OBVIOUS
  <2>1. CASE i \in 1 .. Len(left)
    BY <1>1, <1>6, <1>7, <2>1
  <2>2. CASE i \notin 1 .. Len(left)
    <3>1. i \in 1 .. Len(left) + Len(later)
      BY <1>7
    <3>2. PICK j \in 1 .. Len(later) : i = Len(left) + j
      BY <1>7, <2>2, <3>1, FirstOrSecond
    <3>3. unsent[i] = later[j] /\ later[j][1] > n + 1 /\ later[j] \in Unit
      BY <1>3, <1>7, <3>2, SMTT(60)
    <3>4. later[j][1] \in Nat
      BY <3>3 DEF Unit
    <3> QED
      BY <1>1, <3>3, <3>4
  <2> QED
    BY <2>1, <2>2
<1>9. n < Lines_ => ~whole(n + 1)
  <2> SUFFICES ASSUME n < Lines_, whole(n + 1) PROVE FALSE
    OBVIOUS
  <2>1. 1 \in 1 .. Len(left) /\ 1 \in DOMAIN unsent
    BY <1>2, <1>4, <1>5, <1>7
  <2>2. unsent[1] = <<n + 1, k + 1>>
    BY <1>6, <1>7, <2>1
  <2>3. unsent[1][1] > n + 1
    BY <2>1
  <2> QED
    BY <1>1, <2>2, <2>3
<1>10. Len(script.lines) = Lines_
  BY DEF Lines_
<1>11. \A i \in DOMAIN unsent : unsent[i][1] \in Nat
  BY <1>7 DEF Unit
<1>12. ASSUME NEW m \in 0 .. Lines_, ends(m)
       PROVE  m = n
  <2>1. m \in Nat
    BY <1>1
  <2>2. CASE m < n
    <3>1. whole(m + 1)
      <4> SUFFICES ASSUME NEW i \in DOMAIN unsent PROVE unsent[i][1] > m + 1
        OBVIOUS
      <4>1. unsent[i][1] > n /\ unsent[i][1] \in Nat
        BY <1>8, <1>11
      <4> QED
        BY <1>1, <2>1, <2>2, <4>1
    <3>2. m < Len(script.lines)
      BY <1>1, <1>10, <2>1, <2>2
    <3> QED
      BY <1>12, <3>1, <3>2
  <2>3. CASE m > n
    <3>1. n < Lines_
      BY <1>1, <2>1, <2>3
    <3>2. whole(n + 1)
      <4> SUFFICES ASSUME NEW i \in DOMAIN unsent PROVE unsent[i][1] > n + 1
        OBVIOUS
      <4>1. unsent[i][1] > m /\ unsent[i][1] \in Nat
        BY <1>11, <1>12
      <4> QED
        BY <1>1, <2>1, <2>3, <4>1
    <3> QED
      BY <1>9, <3>1, <3>2
  <2> QED
    BY <1>1, <2>1, <2>2, <2>3
<1>13. ends(n)
  BY <1>8, <1>9, <1>10
<1>14. LeftWhole = UpTo(CHOOSE m \in 0 .. Len(script.lines) : ends(m))
  BY DEF LeftWhole, UpTo
<1> HIDE DEF ends
<1>15. (CHOOSE m \in 0 .. Lines_ : ends(m)) = n
  BY <1>12, <1>13
<1> QED
  BY <1>10, <1>14, <1>15

(* So it is in every state. *)
LeftInv == \A n \in 0 .. Lines_ : \A k \in Nat : SentTo(n, k) => LeftWhole = UpTo(n)

LEMMA LeftIsSent == InputInv => LeftInv
BY LeftWholeIs DEF InputInv, LeftInv

(* What was taken has left the client before. *)
TakenInv == \E n \in 0 .. Lines_ : /\ LeftWhole = UpTo(n) /\ Len(consumed) <= n
                                   /\ consumed = UpTo(Len(consumed))

(* No line that is not sent whole can be taken, for its end would be in    *)
(* what is still to be sent.                                               *)
LEMMA TakenIsSent == InputInv => TakenInv
<1> SUFFICES ASSUME InputInv PROVE TakenInv
  OBVIOUS
<1>1. /\ script \in Scripts /\ unsent \in Seq(Unit) /\ read_buffer \in Seq(Unit)
      /\ consumed \in Seq(Nat) /\ CutInv
  BY DEF InputInv
<1>2. PICK n \in 0 .. Lines_, k \in Nat : SentTo(n, k)
  BY DEF InputInv, UnsentInv
<1>3. LeftWhole = UpTo(n)
  BY <1>1, <1>2, LeftWholeIs
<1> DEFINE taken == Len(consumed)
<1>4. /\ taken \in Nat /\ Lines_ \in Nat /\ taken <= Lines_ /\ n \in Nat /\ n <= Lines_
      /\ n + 1 \in Nat /\ n + 1 <= Lines_ + 1 /\ taken <= Lines_ + 1
  BY <1>1, ScriptIs DEF CutInv
<1>5. PICK lost \in Seq(Unit) : read_buffer \o (lost \o unsent) = After(taken)
  BY <1>1 DEF CutInv
<1>6. consumed = UpTo(taken)
  BY <1>1 DEF CutInv, UpTo
<1>7. taken <= n
  <2> SUFFICES ASSUME ~(taken <= n) PROVE FALSE
    OBVIOUS
  <2> DEFINE t == Text(n + 1)
             later == After(n + 1)
             left == Behind(t, k)
             all == After(taken)
             before == read_buffer \o lost
  <2>1. n < Lines_ /\ n + 1 <= taken
    BY <1>4
  <2>2. t \in Seq(Unit) /\ Len(t) \in Nat /\ \A i \in 1 .. Len(t) : t[i] = <<n + 1, i>>
    BY <1>1, <1>4, TextIs
  <2>3. later \in Seq(Unit)
    BY <1>1, <1>4, AfterHolds
  <2>4. all \in Seq(Unit) /\ \A i \in DOMAIN all : all[i][1] > taken
    BY <1>1, <1>4, AfterHolds
  <2>5. k < Len(t) /\ unsent = left \o later
    BY <1>2, <2>1 DEF SentTo
  <2> HIDE DEF t, later, all, taken
  <2>6. left \in Seq(Unit) /\ Len(left) > 0 /\ left[1] = <<n + 1, k + 1>>
    <3>1. k <= Len(t) /\ 1 \in 1 .. Len(t) - k /\ k + 1 \in 1 .. Len(t)
      BY <2>2, <2>5
    <3>2. /\ left \in Seq(Unit) /\ Len(left) = Len(t) - k
          /\ \A i \in 1 .. Len(t) - k : left[i] = t[k + i]
      BY <2>2, <3>1, BehindElements
    <3>3. left[1] = t[k + 1]
      BY <3>1, <3>2
    <3>4. t[k + 1] = <<n + 1, k + 1>>
      BY <2>2, <3>1
    <3>5. Len(left) > 0
      BY <2>2, <2>5, <3>2
    <3> QED
      BY <3>2, <3>3, <3>4, <3>5, Zenon
  <2> HIDE DEF left
  <2>7. 1 \in 1 .. Len(unsent) /\ unsent[1] = <<n + 1, k + 1>>
    <3>1. \A i \in 1 .. Len(left) : (left \o later)[i] = left[i]
      BY <2>3, <2>6, ConcatParts
    <3>2. Len(left \o later) = Len(left) + Len(later) /\ Len(left) \in Nat /\ Len(later) \in Nat
      BY <2>3, <2>6, ConcatProperties
    <3>3. 1 \in 1 .. Len(left) /\ 1 \in 1 .. Len(left \o later)
      BY <2>6, <3>2
    <3>4. (left \o later)[1] = left[1]
      BY <3>1, <3>3
    <3> QED
      BY <2>5, <2>6, <3>3, <3>4
  <2>8. before \in Seq(Unit) /\ all = before \o unsent
    <3>1. before \in Seq(Unit)
      BY <1>1, <1>5, ConcatProperties
    <3>2. (read_buffer \o lost) \o unsent = read_buffer \o (lost \o unsent)
      <4>1. read_buffer \in Seq(Unit) /\ lost \in Seq(Unit) /\ unsent \in Seq(Unit)
        BY <1>1, <1>5
      <4> QED
        BY <4>1, ConcatAssociative, SMTT(60)
    <3> QED
      BY <1>5, <3>1, <3>2 DEF all
  <2> HIDE DEF before
  <2>9. /\ all[Len(before) + 1] = unsent[1] /\ Len(before) + 1 \in DOMAIN all
    <3>1. \A i \in 1 .. Len(unsent) : (before \o unsent)[Len(before) + i] = unsent[i]
      BY <1>1, <2>8, ConcatParts
    <3>2. Len(before \o unsent) = Len(before) + Len(unsent) /\ Len(before) \in Nat
      BY <1>1, <2>8, ConcatProperties
    <3>3. Len(before) + 1 \in 1 .. Len(all)
      BY <1>1, <2>7, <2>8, <3>2
    <3>4. all[Len(before) + 1] = unsent[1]
      BY <2>7, <2>8, <3>1
    <3> QED
      BY <2>4, <3>3, <3>4
  <2>10. unsent[1][1] > taken
    BY <2>4, <2>9
  <2> QED
    BY <1>4, <2>1, <2>7, <2>10
<1> QED
  BY <1>3, <1>6, <1>7 DEF TakenInv

(* The abstract stream starts empty. *)
LEMMA InitIsLinesInit == TransportInit => Lines!Init
<1> SUFFICES ASSUME TransportInit PROVE Lines!Init
  OBVIOUS
<1>1. /\ script \in Scripts /\ Lines_ \in Nat /\ unsent \in Seq(Unit) /\ unsent = After(0)
      /\ consumed = <<>>
  BY InitHasInputInv, AllTexts, ScriptIs DEF InputInv, TransportInit
<1>2. SentTo(0, 0)
  <2>1. /\ Text(1) \in Seq(Unit) /\ Len(Text(1)) \in Nat
        /\ 0 < Lines_ => Len(Text(1)) > 0
    BY <1>1, TextIs
  <2>2. Behind(Text(1), 0) = Text(1)
    BY <2>1 DEF Behind
  <2>3. unsent = Behind(Text(0 + 1), 0) \o After(0 + 1)
    BY <1>1, <2>2, AfterIs
  <2>4. 0 <= Len(Text(0 + 1)) /\ (0 < Lines_ => 0 < Len(Text(0 + 1)))
    BY <1>1, <2>1
  <2> QED
    BY <2>3, <2>4, Zenon DEF SentTo
<1>3. LeftWhole = UpTo(0)
  BY <1>1, <1>2, LeftWholeIs
<1>4. UpTo(0) = <<>>
  BY DEF UpTo
<1> QED
  BY <1>1, <1>3, <1>4 DEF Lines!Init

(* A unit that the client sends may complete a line. *)
LEMMA SendsOrNot ==
  ASSUME InputInv, InputInv', LeftInv', ClientSends
  PROVE  Lines!Send \/ UNCHANGED <<LeftWhole, consumed>>
<1>1. /\ script \in Scripts /\ unsent \in Seq(Unit) /\ UnsentInv /\ script' = script
      /\ unsent # <<>> /\ unsent' = Tail(unsent) /\ consumed' = consumed /\ unsent' \in Seq(Unit)
  BY DEF InputInv, ClientSends, history
<1>2. PICK n \in 0 .. Lines_, k \in Nat : SentTo(n, k)
  BY <1>1 DEF UnsentInv
<1>3. PICK m \in {n, n + 1} : m <= Lines_ /\ \E j \in Nat : SentTo(m, j)'
  BY <1>1, <1>2, SendsOneUnit
<1>4. LeftWhole = UpTo(n)
  BY <1>1, <1>2, LeftWholeIs
<1>5. Lines_ \in Nat /\ Lines_' = Lines_ /\ n \in Nat /\ m \in Nat /\ m \in 0 .. Lines_
  BY <1>1, <1>3, ScriptIs DEF Lines_
<1>6. LeftWhole' = UpTo(m)
  <2>1. PICK j \in Nat : SentTo(m, j)'
    BY <1>3
  <2>2. m \in 0 .. Lines_'
    BY <1>5
  <2> QED
    BY <2>1, <2>2 DEF LeftInv
<1>7. CASE m = n
  BY <1>1, <1>4, <1>6, <1>7
<1>8. CASE m # n
  <2>1. n < m
    BY <1>3, <1>5, <1>8
  <2>2. IsStrictPrefix(UpTo(n), UpTo(m))
    BY <1>5, <2>1, UpToIsPrefix
  <2>3. UpTo(m) \in Seq(LineNumbers)
    <3>1. 1 .. m \subseteq DOMAIN script.lines
      BY <1>1, <1>5, ScriptIs
    <3>2. 1 .. m \subseteq LineNumbers
      BY <1>1, <3>1 DEF LineNumbers
    <3> QED
      BY <1>5, <3>2 DEF UpTo
  <2> QED
    BY <1>1, <1>4, <1>6, <2>2, <2>3
    DEF Lines!Send, Lines!IsStrictPrefix, Lines!IsPrefix, IsStrictPrefix, IsPrefix
<1> QED
  BY <1>7, <1>8

(* What the stream of lines does is a step of the abstract stream. *)
LEMMA InputStepIsLinesNext ==
  ASSUME InputInv, InputInv', LeftInv', TakenInv', InputStep
  PROVE  [Lines!Next]_<<LeftWhole, consumed>>
<1>1. CASE ReadLine
  <2> DEFINE n == Len(consumed) + 1
  <2>1. n \in 1 .. Lines_ /\ consumed' = Append(consumed, n)
    BY <1>1, ReadLineTakes
  <2>2. script' = script /\ unsent' = unsent /\ consumed \in Seq(Nat) /\ CutInv
    BY <1>1 DEF ReadLine, environment, InputInv
  <2>3. LeftWhole' = LeftWhole
    BY <2>2 DEF LeftWhole
  <2>4. PICK m \in 0 .. Lines_' : /\ LeftWhole' = UpTo(m) /\ Len(consumed') <= m
                                  /\ consumed' = UpTo(Len(consumed'))
    BY DEF TakenInv
  <2>5. Lines_' = Lines_ /\ Lines_ \in Nat
    BY <2>2, ScriptIs DEF Lines_, InputInv
  <2>6. Len(consumed') = Len(consumed) + 1 /\ Len(consumed) \in Nat /\ m \in Nat
    BY <2>1, <2>2, <2>4, <2>5
  <2>7. consumed = UpTo(Len(consumed))
    BY <2>2 DEF CutInv, UpTo
  <2>8. IsStrictPrefix(consumed, consumed')
    <3> DEFINE a == Len(consumed)
               b == Len(consumed')
    <3>1. a \in Nat /\ b \in Nat /\ a <= b /\ a < b
      BY <2>6
    <3> HIDE DEF a, b
    <3>2. IsStrictPrefix(UpTo(a), UpTo(b))
      BY <3>1, UpToIsPrefix
    <3> QED
      BY <2>4, <2>7, <3>2 DEF a, b
  <2>9. IsPrefix(consumed', LeftWhole)
    <3> DEFINE b == Len(consumed')
    <3>1. b \in Nat /\ b <= m /\ m \in Nat
      BY <2>4, <2>6
    <3> HIDE DEF b
    <3>2. IsPrefix(UpTo(b), UpTo(m))
      BY <3>1, UpToIsPrefix
    <3> QED
      BY <2>3, <2>4, <3>2 DEF b
  <2> QED
    BY <2>3, <2>8, <2>9
    DEF Lines!Next, Lines!Take, Lines!IsStrictPrefix, Lines!IsPrefix, IsStrictPrefix, IsPrefix
<1>2. CASE ClientSends
  BY <1>2, SendsOrNot DEF Lines!Next
<1>3. CASE ReadBytes \/ ClientFinishes \/ ClientDies \/ UNCHANGED input
  <2>1. script' = script /\ unsent' = unsent /\ consumed' = consumed
    BY <1>3 DEF ReadBytes, ClientFinishes, ClientDies, input, history
  <2> QED
    BY <2>1 DEF LeftWhole
<1> QED
  BY <1>1, <1>2, <1>3 DEF InputStep

(* However they are cut up, the client's lines are taken from the stream   *)
(* whole, once and in order, whichever of them are commands.               *)
THEOREM LinesAreTakenInOrder == Spec => TakesLinesInOrder
<1>1. TransportInit => InputInv /\ Lines!Init
  BY InitHasInputInv, InitIsLinesInit
<1>2. InputInv /\ [Next]_tvars => InputInv'
  BY NextSteps, InputStepKeepsInv
<1>3. InputInv => LeftInv /\ TakenInv
  BY LeftIsSent, TakenIsSent
<1>4. InputInv /\ InputInv' /\ LeftInv' /\ TakenInv' /\ [Next]_tvars
        => [Lines!Next]_<<LeftWhole, consumed>>
  BY NextSteps, InputStepIsLinesNext
<1> QED
  BY <1>1, <1>2, <1>3, <1>4, PTL DEF Spec, TakesLinesInOrder, Lines!Spec

(* It is the same for the session of Login, whatever it waits for.         *)
THEOREM LoginTakesLinesInOrder == LoginSpec => TakesLinesInOrder
<1>1. LoginInit => InputInv /\ Lines!Init
  BY InitHasInputInv, InitIsLinesInit DEF LoginInit
<1>2. InputInv /\ [LoginNext]_lvars => InputInv'
  BY LoginSteps, InputStepKeepsInv
<1>3. InputInv => LeftInv /\ TakenInv
  BY LeftIsSent, TakenIsSent
<1>4. InputInv /\ InputInv' /\ LeftInv' /\ TakenInv' /\ [LoginNext]_lvars
        => [Lines!Next]_<<LeftWhole, consumed>>
  BY LoginSteps, InputStepIsLinesNext
<1> QED
  BY <1>1, <1>2, <1>3, <1>4, PTL DEF LoginSpec, TakesLinesInOrder, Lines!Spec

-----------------------------------------------------------------------------
(* A sleeping task has nothing to do.                                      *)

(* poll_write asks to be woken for what the socket does not take. *)
LEMMA PollWriteAsks ==
  ASSUME OutputInv, PollWrite(write_buffer), client # "gone", write_buffer' # <<>>
  PROVE  write_interest' /\ Len(outbox') = SendBuffer
BY PollWriteMoves DEF OutputInv

(* A task that falls asleep, or sleeps on, has asked for what it waits for. *)
LEMMA NextKeepsSleepInv ==
  ASSUME OutputInv, SleepInv, [Next]_tvars
  PROVE  SleepInv'
<1>1. CASE Poll
  BY <1>1 DEF Poll, SleepInv
<1>2. CASE PollStart
  <2>1. client' = client /\ woken' = woken
    BY <1>2 DEF PollStart
  <2>2. \/ pc' \in {"none", "error"}
        \/ pc' = "read" /\ PollWrite(write_buffer)
    BY <1>2, Zenon DEF PollStart
  <2>3. CASE pc' \in {"none", "error"}
    BY <2>3 DEF SleepInv
  <2>4. CASE pc' = "read" /\ PollWrite(write_buffer)
    BY <2>1, <2>4, PollWriteAsks DEF SleepInv
  <2> QED
    BY <2>2, <2>3, <2>4
<1>3. CASE ReadLine
  <2>1. /\ pc = "read" /\ pc' \in {"read", "ready", "error"}
        /\ woken' = woken /\ client' = client /\ write_buffer' = write_buffer /\ outbox' = outbox
        /\ write_interest' = write_interest
    <3>1. /\ pc = "read"
          /\ pc' = pc \/ pc' = "ready" \/ pc' = "error"
          /\ UNCHANGED <<environment, woken, read_interest, write_interest, closed, writer, written>>
      BY <1>3, Zenon DEF ReadLine
    <3> QED
      BY <3>1 DEF environment, writer
  <2> QED
    BY <2>1 DEF SleepInv
<1>4. CASE LineTooLong \/ ReadEnd \/ ReadError
  BY <1>4 DEF LineTooLong, ReadEnd, ReadError, SleepInv
<1>5. CASE ReadBytes
  BY <1>5 DEF ReadBytes, MustRead, task, writer, SleepInv
<1>6. CASE ReadWouldBlock
  <2>1. /\ Newline = 0 /\ inbox = <<>> /\ client = "open" /\ pc = "read"
        /\ read_interest' /\ pc' = "pending" /\ woken' = woken /\ inbox' = inbox
        /\ client' = client /\ read_buffer' = read_buffer /\ script' = script
        /\ write_buffer' = write_buffer /\ outbox' = outbox /\ write_interest' = write_interest
    BY <1>6 DEF ReadWouldBlock, MustRead, environment, reader, writer
  <2>2. Newline' = 0
    BY <2>1, SameNewline
  <2> QED
    BY <2>1, <2>2 DEF SleepInv
<1>7. CASE Sleep \/ UNCHANGED tvars
  <2>1. /\ pc' = pc \/ (pc = "pending" /\ pc' = "idle")
        /\ woken' = woken /\ inbox' = inbox /\ read_interest' = read_interest
        /\ client' = client /\ read_buffer' = read_buffer /\ script' = script
        /\ write_buffer' = write_buffer /\ outbox' = outbox /\ write_interest' = write_interest
    BY <1>7 DEF Sleep, tvars, environment, task, reader, writer
  <2>2. Newline' = Newline
    BY <2>1, SameNewline
  <2> QED
    BY <2>1, <2>2 DEF SleepInv
<1>8. CASE Answer \/ Drop
  BY <1>8 DEF Answer, Drop, SleepInv
<1>9. CASE OtherWrites
  BY <1>9 DEF OtherWrites, WriteLine, SleepInv
<1>10. CASE Client
  <2>1. pc' = pc /\ read_buffer' = read_buffer /\ script' = script /\ write_buffer' = write_buffer
    BY <1>10 DEF Client, ClientSends, ClientFinishes, ClientDies, ClientReads, reader, writer
  <2>2. Newline' = Newline
    BY <2>1, SameNewline
  <2>3. CASE ClientSends \/ ClientFinishes
    <3>1. /\ woken' = (woken \/ read_interest)
          /\ client # "gone" /\ outbox' = outbox /\ write_interest' = write_interest
      BY <2>3 DEF ClientSends, ClientFinishes
    <3> QED
      BY <2>1, <3>1 DEF SleepInv
  <2>4. CASE ClientDies
    BY <2>1, <2>4 DEF ClientDies, SleepInv
  <2>5. CASE ClientReads
    <3>1. /\ woken' = (woken \/ write_interest) /\ read_interest' = read_interest
          /\ client' = client /\ inbox' = inbox
      BY <2>5 DEF ClientReads
    <3> QED
      BY <2>1, <2>2, <3>1 DEF SleepInv
  <2> QED
    BY <1>10, <2>3, <2>4, <2>5 DEF Client
<1> QED
  BY <1>1, <1>2, <1>3, <1>4, <1>5, <1>6, <1>7, <1>8, <1>9, <1>10 DEF Next, PollRead

(* While the session's task sleeps there is nothing for it to read, no     *)
(* line in its buffer, and nothing to write that the socket would take.    *)
THEOREM TransportSleepsWhenIdle == Spec => []SleepsOnlyWhenIdle
<1>1. TransportInit => OutputInv /\ SleepInv
  BY InitHasOutputInv DEF TransportInit, SleepInv
<1>2. OutputInv /\ SleepInv /\ [Next]_tvars => OutputInv' /\ SleepInv'
  BY NextSteps, OutputStepKeepsInv, NextKeepsSleepInv
<1>3. SleepInv => SleepsOnlyWhenIdle
  BY DEF SleepInv, SleepsOnlyWhenIdle
<1> QED
  BY <1>1, <1>2, <1>3, PTL DEF Spec

-----------------------------------------------------------------------------
(* The handshake.                                                          *)

(* What a poll of the stream may do. *)
LEMMA StreamSteps ==
  ASSUME PollStream
  PROVE  /\ pc \in {"poll", "read"} /\ pc' \in {"none", "read", "error", "ready", "pending"}
         /\ UNCHANGED session
<1>1. CASE PollStart
  BY <1>1 DEF PollStart, PollStream
<1>2. CASE ReadLine
  <2>1. pc = "read" /\ (pc' = pc \/ pc' = "ready" \/ pc' = "error")
    BY <1>2, Zenon DEF ReadLine
  <2> QED
    BY <2>1 DEF PollStream
<1>3. CASE LineTooLong \/ ReadEnd \/ ReadError \/ ReadWouldBlock
  BY <1>3 DEF LineTooLong, ReadEnd, ReadError, ReadWouldBlock, MustRead, PollStream
<1>4. CASE ReadBytes
  BY <1>4 DEF ReadBytes, MustRead, task, PollStream
<1> QED
  BY <1>1, <1>2, <1>3, <1>4 DEF PollStream, PollRead

(* What the client does is nothing to the session. *)
LEMMA ClientLeavesSession ==
  ASSUME Client, UNCHANGED session
  PROVE  UNCHANGED <<pc, read_buffer, consumed, script, written, session>>
BY DEF Client, ClientSends, ClientFinishes, ClientDies, ClientReads, reader, history

(* The session's task is where its phase lets it be. *)
LEMMA LoginNextKeepsPhaseInv ==
  ASSUME PhaseInv, [LoginNext]_lvars
  PROVE  PhaseInv'
<1>1. CASE PollTask
  <2>1. /\ pc = "idle" /\ UNCHANGED <<phase, is_first_sync, outcome>>
        /\ pc' = CASE phase = "matrix_login" -> "login"
                   [] phase = "running" /\ is_first_sync -> "matrix"
                   [] OTHER -> "poll"
    BY <1>1 DEF PollTask, session
  <2> QED
    BY <2>1 DEF PhaseInv
<1>2. CASE PollStream
  <2>1. /\ pc \in {"poll", "read"} /\ pc' \in {"none", "read", "error", "ready", "pending"}
        /\ UNCHANGED <<phase, is_first_sync, outcome>>
    BY <1>2, StreamSteps DEF session
  <2> QED
    BY <2>1 DEF PhaseInv
<1>3. CASE NotReady
  BY <1>3 DEF NotReady, session, PhaseInv
<1>4. CASE Register
  BY <1>4 DEF Register, PhaseInv
<1>5. CASE Registered
  BY <1>5 DEF Registered, Refuse, PhaseInv
<1>6. CASE LoginDone
  BY <1>6 DEF LoginDone, Refuse, PhaseInv
<1>7. CASE Command
  BY <1>7 DEF Command, Answer, session, PhaseInv
<1>8. CASE PollMatrix
  BY <1>8 DEF PollMatrix, PhaseInv
<1>9. CASE WriteSyncLine
  BY <1>9 DEF WriteSyncLine, PhaseInv
<1>10. CASE SyncHandled
  BY <1>10 DEF SyncHandled, PhaseInv
<1>11. CASE End
  BY <1>11 DEF End, PhaseInv
<1>12. CASE LoginAnswer \/ SyncAnswer
  BY <1>12 DEF LoginAnswer, SyncAnswer, PhaseInv
<1>13. CASE Client /\ UNCHANGED session
  BY <1>13, ClientLeavesSession DEF session, PhaseInv
<1>14. CASE UNCHANGED lvars
  BY <1>14 DEF lvars, tvars, task, session, PhaseInv
<1> QED
  BY <1>1, <1>2, <1>3, <1>4, <1>5, <1>6, <1>7, <1>8, <1>9, <1>10, <1>11, <1>12, <1>13, <1>14
  DEF LoginNext

(* It holds at first. *)
LEMMA InitHasPhaseInv == LoginInit => PhaseInv
BY DEF LoginInit, TransportInit, PhaseInv

(* Only a poll of the stream takes anything from the client. *)
LEMMA OnlyPollsTake ==
  ASSUME [LoginNext]_lvars
  PROVE  (ReadLine \/ ReadBytes) \/ UNCHANGED <<consumed, read_buffer>>
<1>1. CASE PollStream
  BY <1>1 DEF PollStream, PollStart, PollRead, LineTooLong, ReadEnd, ReadError, ReadWouldBlock,
              reader, history
<1>2. CASE PollTask \/ NotReady \/ Register \/ Registered \/ LoginDone \/ Command \/ PollMatrix
           \/ WriteSyncLine \/ SyncHandled \/ End \/ LoginAnswer \/ SyncAnswer
           \/ UNCHANGED lvars
  BY <1>2 DEF PollTask, NotReady, Register, Registered, LoginDone, Command, Answer, PollMatrix,
              WriteSyncLine, SyncHandled, End, LoginAnswer, SyncAnswer, lvars, tvars, reader,
              history
<1>3. CASE Client /\ UNCHANGED session
  BY <1>3, ClientLeavesSession
<1> QED
  BY <1>1, <1>2, <1>3 DEF LoginNext

(* From the end of the registration until the first sync is handled no     *)
(* line is taken from the client: poll_irc waits for it, and before that   *)
(* the stream is not polled.                                               *)
THEOREM NothingIsTakenBeforeSync == LoginSpec => NothingHandledBeforeSync
<1>1. PhaseInv /\ [LoginNext]_lvars =>
        [phase # "await_login" /\ is_first_sync => UNCHANGED <<consumed, read_buffer>>]_lvars
  <2> SUFFICES ASSUME PhaseInv, [LoginNext]_lvars, phase # "await_login", is_first_sync
               PROVE  UNCHANGED <<consumed, read_buffer>>
    OBVIOUS
  <2>1. pc # "read"
    BY DEF PhaseInv
  <2>2. ~(ReadLine \/ ReadBytes)
    BY <2>1 DEF ReadLine, ReadBytes, MustRead
  <2> QED
    BY <2>2, OnlyPollsTake
<1>2. LoginInit => PhaseInv
  BY InitHasPhaseInv
<1>3. PhaseInv /\ [LoginNext]_lvars => PhaseInv'
  BY LoginNextKeepsPhaseInv
<1> QED
  BY <1>1, <1>2, <1>3, PTL DEF LoginSpec, NothingHandledBeforeSync

(* The kinds of lines that were taken before are what they were. *)
LEMMA TakenStays ==
  ASSUME InputInv, script' = script,
         consumed' = consumed \/ (\E x \in Nat : consumed' = Append(consumed, x))
  PROVE  \A n \in Nat : n <= Len(consumed) => Taken(n)' = Taken(n) /\ Complete(n)' = Complete(n)
<1> SUFFICES ASSUME NEW n \in Nat, n <= Len(consumed) PROVE Taken(n)' = Taken(n)
  BY DEF Complete
<1>1. consumed \in Seq(Nat)
  BY DEF InputInv
<1>2. \A i \in 1 .. n : consumed'[i] = consumed[i]
  BY <1>1
<1> QED
  BY <1>2 DEF Taken, Kind

(* One line more. *)
LEMMA TakenGrows ==
  ASSUME NEW n \in Nat
  PROVE  Taken(n + 1) = Taken(n) \cup {Kind(consumed[n + 1])}
<1>1. 1 .. n + 1 = (1 .. n) \cup {n + 1}
  OBVIOUS
<1> QED
  BY <1>1 DEF Taken

(* A registration that is complete stays complete. *)
LEMMA CompleteStays ==
  ASSUME NEW m \in Nat, NEW n \in Nat, m <= n, Complete(m)
  PROVE  Complete(n)
<1>1. 1 .. m \subseteq 1 .. n
  OBVIOUS
<1> QED
  BY <1>1 DEF Complete, Taken

(* What a line does that poll_read takes: unless it is a command it is     *)
(* none of the registration.                                               *)
LEMMA LineIsTaken ==
  ASSUME InputInv, ReadLine
  PROVE  /\ consumed \in Seq(Nat) /\ script' = script
         /\ \E x \in Nat : /\ consumed' = Append(consumed, x)
                           /\ Kind(x) \in {"invalid", "bad_utf8"} \/ pc' = "ready"
         /\ pc = "read" /\ pc' \in {"read", "error", "ready"}
<1> DEFINE x == Len(consumed) + 1
<1>1. consumed \in Seq(Nat) /\ x \in Nat
  BY DEF InputInv
<1>2. x \in 1 .. Lines_ /\ SubSeq(read_buffer, 1, Newline) = Line(x) /\ consumed' = Append(consumed, x)
  BY ReadLineTakes
<1>3. LineOf(SubSeq(read_buffer, 1, Newline)) = x
  BY <1>2, LineOfLine DEF InputInv
<1> DEFINE text == SubSeq(read_buffer, 1, Newline)
<1>4. \/ Kind(LineOf(text)) = "invalid" /\ pc' = pc
      \/ Kind(LineOf(text)) = "bad_utf8" /\ pc' = "error"
      \/ pc' = "ready"
  BY Zenon DEF ReadLine
<1>5. pc = "read" /\ script' = script
  BY DEF ReadLine, environment
<1> HIDE DEF x
<1> QED
  BY <1>1, <1>2, <1>3, <1>4, <1>5

(* Nothing of the registration has happened: a step that leaves its state  *)
(* and what was taken alone.                                               *)
LEMMA KeepsRegistrationInv ==
  ASSUME InputInv, RegistrationInv,
         UNCHANGED <<script, consumed, phase, user_nick, outcome>>, (pc = "ready") = (pc' = "ready")
  PROVE  RegistrationInv'
BY DEF RegistrationInv, Handled, Taken, Complete, Kind

(* A line is taken. *)
LEMMA ReadLineKeepsRegistrationInv ==
  ASSUME InputInv, PhaseInv, RegistrationInv, ReadLine, UNCHANGED session
  PROVE  RegistrationInv'
<1>0. PICK k \in Nat : k = Len(consumed)
  BY LineIsTaken
<1>1. PICK x \in Nat : /\ consumed' = Append(consumed, x)
                       /\ Kind(x) \in {"invalid", "bad_utf8"} \/ pc' = "ready"
  BY LineIsTaken
<1>2. /\ consumed \in Seq(Nat) /\ script' = script /\ pc = "read"
      /\ pc' \in {"read", "error", "ready"}
  BY LineIsTaken
<1>3. UNCHANGED <<phase, user_nick, outcome>> /\ outcome = "none"
  BY <1>2 DEF session, PhaseInv
<1>4. Len(consumed') = k + 1 /\ consumed'[k + 1] = x
  BY <1>0, <1>1, <1>2
<1>5. \A n \in Nat : n <= k => Taken(n)' = Taken(n) /\ Complete(n)' = Complete(n)
  BY <1>0, <1>1, <1>2, TakenStays
<1>6. Kind(x)' = Kind(x)
  BY <1>2 DEF Kind
<1>7. Taken(k)' = Taken(k) /\ (Complete(k)' <=> Complete(k))
  BY <1>5
<1>8. Taken(k + 1)' = Taken(k) \cup {Kind(x)}
  <2>1. 1 .. k + 1 = (1 .. k) \cup {k + 1}
    BY <1>4
  <2>2. Taken(k + 1)' = Taken(k)' \cup {Kind(consumed[k + 1])'}
    BY <2>1 DEF Taken
  <2>3. Kind(consumed[k + 1])' = Kind(x)'
    BY <1>4 DEF Kind
  <2> QED
    BY <1>6, <1>7, <2>2, <2>3
<1>9. (phase = "await_login" /\ outcome = "none" =>
         /\ user_nick = Taken(Handled) \cap {"NICK", "USER", "PASS"}
         /\ ~Complete(Handled))'
  <2> SUFFICES ASSUME phase = "await_login"
               PROVE  /\ user_nick = Taken(Handled)' \cap {"NICK", "USER", "PASS"}
                      /\ ~Complete(Handled)'
    BY <1>3
  <2>1. user_nick = Taken(k) \cap {"NICK", "USER", "PASS"} /\ ~Complete(k)
    BY <1>0, <1>2, <1>3 DEF RegistrationInv, Handled
  <2>2. CASE pc' = "ready"
    <3>1. Handled' = k
      BY <1>4, <2>2 DEF Handled
    <3>2. Taken(Handled)' = Taken(k) /\ (Complete(Handled)' <=> Complete(k))
      BY <1>7, <3>1 DEF Taken, Complete
    <3> QED
      BY <2>1, <3>2
  <2>3. CASE pc' # "ready"
    <3>1. Handled' = k + 1
      BY <1>4, <2>3 DEF Handled
    <3>2. Taken(Handled)' = Taken(k) \cup {Kind(x)}
      BY <1>8, <3>1 DEF Taken
    <3>3. Kind(x) \notin {"NICK", "USER", "PASS"}
      BY <1>1, <2>3
    <3> QED
      BY <2>1, <3>2, <3>3 DEF Complete
  <2> QED
    BY <2>2, <2>3
<1>10. (phase # "await_login" =>
          \E n \in 1 .. Len(consumed) : Complete(n) /\ ~Complete(n - 1) /\ "PASS" \in Taken(n))'
  <2> SUFFICES ASSUME phase # "await_login"
               PROVE  (\E n \in 1 .. Len(consumed) :
                         Complete(n) /\ ~Complete(n - 1) /\ "PASS" \in Taken(n))'
    BY <1>3
  <2>1. PICK n \in 1 .. k : Complete(n) /\ ~Complete(n - 1) /\ "PASS" \in Taken(n)
    BY <1>0 DEF RegistrationInv
  <2>2. n \in Nat /\ n - 1 \in Nat /\ n <= k /\ n - 1 <= k /\ n \in 1 .. k + 1
    BY <1>4
  <2>3. Complete(n)' /\ ~Complete(n - 1)' /\ ("PASS" \in Taken(n))'
    BY <1>5, <2>1, <2>2
  <2> QED
    BY <1>4, <2>2, <2>3
<1> QED
  BY <1>3, <1>4, <1>9, <1>10 DEF RegistrationInv

(* What was given when the last command of it is handled. *)
LEMMA GivenIs ==
  ASSUME InputInv, PhaseInv, RegistrationInv, pc = "ready", phase = "await_login"
  PROVE  /\ Len(consumed) \in Nat \ {0} /\ ~Complete(Len(consumed) - 1)
         /\ Given = Taken(Len(consumed)) \cap {"NICK", "USER", "PASS"}
<1>1. consumed \in Seq(Nat) /\ Len(consumed) \in Nat \ {0}
  BY DEF InputInv, RegistrationInv
<1>2. PICK k \in Nat : Len(consumed) = k + 1
  BY <1>1
<1>3. user_nick = Taken(k) \cap {"NICK", "USER", "PASS"} /\ ~Complete(k)
  BY <1>2 DEF RegistrationInv, PhaseInv, Handled
<1>4. Taken(k + 1) = Taken(k) \cup {Kind(consumed[k + 1])}
  BY TakenGrows
<1>5. Last(consumed) = consumed[k + 1]
  BY <1>2 DEF Last
<1>6. Given = user_nick \cup ({Kind(consumed[k + 1])} \cap {"NICK", "USER", "PASS"})
  BY <1>5 DEF Given
<1>7. Len(consumed) - 1 = k
  BY <1>2
<1>8. ~Complete(Len(consumed) - 1)
  BY <1>3, <1>7
<1>9. Given = Taken(k + 1) \cap {"NICK", "USER", "PASS"}
  BY <1>3, <1>4, <1>6
<1>10. Given = Taken(Len(consumed)) \cap {"NICK", "USER", "PASS"}
  BY <1>2, <1>9
<1> QED
  BY <1>1, <1>8, <1>10

(* After the registration there is nothing more to it. *)
LEMMA LaterKeepsRegistrationInv ==
  ASSUME InputInv, RegistrationInv, phase # "await_login", phase' # "await_login",
         UNCHANGED <<script, consumed>>, pc' # "ready",
         outcome' = outcome \/ outcome' # "no_password"
  PROVE  RegistrationInv'
<1>1. PICK n \in 1 .. Len(consumed) : Complete(n) /\ ~Complete(n - 1) /\ "PASS" \in Taken(n)
  BY DEF RegistrationInv
<1>2. (Complete(n) /\ ~Complete(n - 1) /\ "PASS" \in Taken(n))'
  BY <1>1 DEF Complete, Taken, Kind
<1>3. (\E m \in 1 .. Len(consumed) : Complete(m) /\ ~Complete(m - 1) /\ "PASS" \in Taken(m))'
  BY <1>1, <1>2
<1>4. outcome' = "no_password" =>
        (/\ Complete(Len(consumed)) /\ "PASS" \notin Taken(Len(consumed))
         /\ ~Complete(Len(consumed) - 1))'
  BY DEF RegistrationInv, Complete, Taken, Kind
<1> QED
  BY <1>3, <1>4 DEF RegistrationInv

(* The kinds that were taken go with the script and the lines. *)
LEMMA SameTaken ==
  ASSUME UNCHANGED <<script, consumed>>
  PROVE  \A n \in Nat : Taken(n)' = Taken(n) /\ (Complete(n)' <=> Complete(n))
BY DEF Complete, Taken, Kind

(* A command of the registration, the last of it and any other. *)
LEMMA RegisterKeepsRegistrationInv ==
  ASSUME InputInv, PhaseInv, RegistrationInv, Register \/ Registered
  PROVE  RegistrationInv'
<1>1. pc = "ready" /\ phase = "await_login" /\ UNCHANGED <<script, consumed>> /\ user_nick' = Given
  BY DEF Register, Registered, environment, history
<1>2. PICK k \in Nat : /\ Len(consumed) = k + 1 /\ ~Complete(k)
                       /\ Given = Taken(k + 1) \cap {"NICK", "USER", "PASS"}
  <2>1. /\ Len(consumed) \in Nat \ {0} /\ ~Complete(Len(consumed) - 1)
        /\ Given = Taken(Len(consumed)) \cap {"NICK", "USER", "PASS"}
    BY <1>1, GivenIs
  <2>2. PICK k \in Nat : Len(consumed) = k + 1 /\ Len(consumed) - 1 = k
    BY <2>1
  <2>3. ~Complete(k)
    BY <2>1, <2>2
  <2>4. Given = Taken(k + 1) \cap {"NICK", "USER", "PASS"}
    BY <2>1, <2>2
  <2> QED
    BY <2>2, <2>3, <2>4
<1>3. /\ Len(consumed') = k + 1 /\ ~Complete(k)'
      /\ Taken(k + 1)' = Taken(k + 1) /\ (Complete(k + 1)' <=> Complete(k + 1))
  BY <1>1, <1>2, SameTaken
<1>4. Complete(k + 1) <=> {"NICK", "USER"} \subseteq Given
  BY <1>2 DEF Complete
<1>5. outcome = "none"
  BY <1>1 DEF PhaseInv
<1>6. CASE Register
  <2>1. pc' = "poll" /\ UNCHANGED <<phase, outcome>> /\ ~({"NICK", "USER"} \subseteq Given)
    BY <1>6 DEF Register
  <2>2. Handled' = k + 1
    BY <1>3, <2>1 DEF Handled
  <2>3. user_nick' = Taken(k + 1)' \cap {"NICK", "USER", "PASS"} /\ ~Complete(k + 1)'
    BY <1>1, <1>2, <1>3, <1>4, <2>1
  <2>4. user_nick' = Taken(Handled)' \cap {"NICK", "USER", "PASS"} /\ ~Complete(Handled)'
    BY <2>2, <2>3 DEF Complete, Taken
  <2> QED
    BY <1>1, <1>5, <2>1, <2>4 DEF RegistrationInv
<1>7. CASE Registered
  <2>1. /\ {"NICK", "USER"} \subseteq Given
        /\ \/ "PASS" \in Given /\ phase' = "matrix_login" /\ pc' = "idle" /\ outcome' = outcome
           \/ /\ "PASS" \notin Given /\ phase' = phase
              /\ pc' = "error" /\ outcome' = "no_password"
    BY <1>7 DEF Registered, Refuse
  <2>2. Complete(k + 1)'
    BY <1>3, <1>4, <2>1
  <2>3. CASE "PASS" \in Given /\ phase' = "matrix_login" /\ pc' = "idle" /\ outcome' = outcome
    <3>1. "PASS" \in Taken(k + 1)'
      BY <1>2, <1>3, <2>3
    <3>2. k + 1 \in 1 .. Len(consumed') /\ (k + 1) - 1 = k
      BY <1>3
    <3>3. (Complete(k + 1) /\ ~Complete((k + 1) - 1) /\ "PASS" \in Taken(k + 1))'
      BY <1>3, <2>2, <3>1, <3>2
    <3>4. (\E n \in 1 .. Len(consumed) :
             Complete(n) /\ ~Complete(n - 1) /\ "PASS" \in Taken(n))'
      BY <3>2, <3>3
    <3> QED
      BY <1>5, <2>3, <3>4 DEF RegistrationInv
  <2>4. CASE /\ "PASS" \notin Given /\ phase' = phase
             /\ pc' = "error" /\ outcome' = "no_password"
    <3>1. "PASS" \notin Taken(k + 1)'
      BY <1>2, <1>3, <2>4
    <3>2. (k + 1) - 1 = k
      OBVIOUS
    <3>3. (/\ Complete(Len(consumed)) /\ "PASS" \notin Taken(Len(consumed))
           /\ ~Complete(Len(consumed) - 1))'
      BY <1>3, <2>2, <3>1, <3>2 DEF Complete, Taken
    <3> QED
      BY <1>1, <2>4, <3>3 DEF RegistrationInv
  <2> QED
    BY <2>1, <2>3, <2>4
<1> QED
  BY <1>6, <1>7

(* Every step of the session keeps it. *)
LEMMA LoginNextKeepsRegistrationInv ==
  ASSUME InputInv, PhaseInv, RegistrationInv, [LoginNext]_lvars
  PROVE  RegistrationInv'
<1>1. CASE PollTask
  BY <1>1, KeepsRegistrationInv DEF PollTask, environment, history, session
<1>2. CASE PollStream
  <2>1. CASE ReadLine
    BY <1>2, <2>1, ReadLineKeepsRegistrationInv DEF PollStream
  <2>2. CASE ~ReadLine
    <3>1. UNCHANGED <<script, consumed, phase, user_nick, outcome>>
      BY <1>2, <2>2 DEF PollStream, PollStart, PollRead, LineTooLong, ReadEnd, ReadError,
                        ReadWouldBlock, ReadBytes, environment, history, session
    <3>2. pc \in {"poll", "read"}
      BY <1>2, StreamSteps
    <3>3. pc' # "ready"
      BY <1>2, <2>2, <3>2 DEF PollStream, PollStart, PollRead, LineTooLong, ReadEnd, ReadError,
                              ReadWouldBlock, ReadBytes, task
    <3> QED
      BY <3>1, <3>2, <3>3, KeepsRegistrationInv
  <2> QED
    BY <2>1, <2>2
<1>3. CASE NotReady
  BY <1>3, KeepsRegistrationInv DEF NotReady, environment, history, session
<1>4. CASE Register \/ Registered
  BY <1>4, RegisterKeepsRegistrationInv
<1>5. CASE LoginDone
  <2>1. /\ pc = "login" /\ pc' \in {"idle", "error"} /\ UNCHANGED <<script, consumed>>
        /\ phase' = phase \/ phase' = "running"
        /\ outcome' = outcome \/ outcome' # "no_password"
    BY <1>5 DEF LoginDone, Refuse
  <2>2. phase # "await_login"
    BY <2>1 DEF PhaseInv
  <2> QED
    BY <2>1, <2>2, LaterKeepsRegistrationInv
<1>6. CASE Command
  BY <1>6, LaterKeepsRegistrationInv DEF Command, Answer, session
<1>7. CASE PollMatrix
  <2>1. /\ pc = "matrix" /\ pc' \in {"idle", "sync", "error"}
        /\ UNCHANGED <<script, consumed, phase>>
        /\ outcome' = outcome \/ outcome' # "no_password"
    BY <1>7 DEF PollMatrix, environment, history
  <2>2. phase # "await_login"
    BY <2>1 DEF PhaseInv
  <2> QED
    BY <2>1, <2>2, LaterKeepsRegistrationInv
<1>8. CASE WriteSyncLine
  BY <1>8, KeepsRegistrationInv DEF WriteSyncLine
<1>9. CASE SyncHandled
  BY <1>9, KeepsRegistrationInv DEF SyncHandled, environment, history
<1>10. CASE End
  <2>1. /\ pc # "ready" /\ pc' # "ready"
        /\ UNCHANGED <<script, consumed, phase, user_nick>>
        /\ outcome' = IF outcome = "none" THEN "disconnected" ELSE outcome
    BY <1>10 DEF End, environment, history
  <2>2. CASE outcome # "none"
    BY <2>1, <2>2, KeepsRegistrationInv
  <2>3. CASE outcome = "none"
    <3>1. outcome' # "none" /\ outcome' # "no_password"
      BY <2>1, <2>3
    <3>2. CASE phase # "await_login"
      BY <2>1, <3>1, <3>2, LaterKeepsRegistrationInv
    <3>3. CASE phase = "await_login"
      BY <2>1, <3>1, <3>3 DEF RegistrationInv
    <3> QED
      BY <3>2, <3>3
  <2> QED
    BY <2>2, <2>3
<1>11. CASE LoginAnswer \/ SyncAnswer
  BY <1>11, KeepsRegistrationInv DEF LoginAnswer, SyncAnswer, environment, history
<1>12. CASE Client /\ UNCHANGED session
  BY <1>12, ClientLeavesSession, KeepsRegistrationInv DEF session
<1>13. CASE UNCHANGED lvars
  BY <1>13, KeepsRegistrationInv DEF lvars, tvars, environment, task, history, session
<1> QED
  BY <1>1, <1>2, <1>3, <1>4, <1>5, <1>6, <1>7, <1>8, <1>9, <1>10, <1>11, <1>12, <1>13
  DEF LoginNext

(* It holds at first. *)
LEMMA InitHasRegistrationInv == LoginInit => RegistrationInv
<1> SUFFICES ASSUME LoginInit PROVE RegistrationInv
  OBVIOUS
<1>1. consumed = <<>> /\ pc = "idle" /\ user_nick = {} /\ phase = "await_login"
      /\ outcome = "none"
  BY DEF LoginInit, TransportInit
<1>2. Handled = 0 /\ Taken(0) = {}
  BY <1>1 DEF Handled, Taken
<1> QED
  BY <1>1, <1>2 DEF RegistrationInv, Complete

(* It is what LoginNeedsPassword says: the first of the lines that complete*)
(* a registration is the only one that does.                               *)
LEMMA RegistrationDecides == InputInv /\ RegistrationInv => LoginNeedsPassword
<1> SUFFICES ASSUME InputInv, RegistrationInv PROVE LoginNeedsPassword
  OBVIOUS
<1>1. consumed \in Seq(Nat)
  BY DEF InputInv
<1>2. \A n \in 0 .. Len(consumed) : Kinds(SubSeq(consumed, 1, n)) = Taken(n)
  <2> SUFFICES ASSUME NEW n \in 0 .. Len(consumed)
               PROVE  Kinds(SubSeq(consumed, 1, n)) = Taken(n)
    OBVIOUS
  <2>1. /\ DOMAIN SubSeq(consumed, 1, n) = 1 .. n
        /\ \A i \in 1 .. n : SubSeq(consumed, 1, n)[i] = consumed[i]
    BY <1>1
  <2> QED
    BY <2>1 DEF Kinds, Taken
<1>3. Kinds(consumed) = Taken(Len(consumed)) /\ DOMAIN consumed = 1 .. Len(consumed)
  BY <1>1 DEF Kinds, Taken
<1> DEFINE complete(k) == {"NICK", "USER"} \subseteq Kinds(SubSeq(consumed, 1, k))
           first == CHOOSE k \in DOMAIN consumed : complete(k) /\ ~complete(k - 1)
<1>4. \A n \in 0 .. Len(consumed) : complete(n) <=> Complete(n)
  BY <1>2 DEF Complete
<1>5. ASSUME phase # "await_login"
      PROVE  complete(Len(consumed)) /\ "PASS" \in Kinds(SubSeq(consumed, 1, first))
  <2>1. PICK n \in 1 .. Len(consumed) :
          Complete(n) /\ ~Complete(n - 1) /\ "PASS" \in Taken(n)
    BY <1>5 DEF RegistrationInv
  <2>2. n \in Nat /\ Len(consumed) \in Nat /\ n <= Len(consumed) /\ n - 1 \in 0 .. Len(consumed)
    BY <1>1
  <2>3. Complete(Len(consumed))
    BY <2>1, <2>2, CompleteStays
  <2>4. \A k \in DOMAIN consumed : complete(k) /\ ~complete(k - 1) => k = n
    <3> SUFFICES ASSUME NEW k \in 1 .. Len(consumed), Complete(k), ~Complete(k - 1)
                 PROVE  k = n
      <4>1. \A k \in DOMAIN consumed : k \in 1 .. Len(consumed) /\ k - 1 \in 0 .. Len(consumed)
                                       /\ k \in 0 .. Len(consumed)
        BY <1>1, <1>3
      <4> HIDE DEF complete
      <4> QED
        BY <1>4, <4>1
    <3>1. k \in Nat /\ k - 1 \in Nat /\ n - 1 \in Nat
      BY <1>1
    <3>2. ~(k <= n - 1)
      BY <2>1, <3>1, CompleteStays
    <3>3. ~(n <= k - 1)
      BY <2>1, <3>1, CompleteStays
    <3> QED
      BY <2>2, <3>1, <3>2, <3>3
  <2>5. n \in DOMAIN consumed /\ complete(n) /\ ~complete(n - 1)
    <3> HIDE DEF complete
    <3> QED
      BY <1>3, <1>4, <2>1, <2>2
  <2>6. first = n
    <3> HIDE DEF complete
    <3> QED
      BY <2>4, <2>5
  <2> HIDE DEF first
  <2>7. "PASS" \in Kinds(SubSeq(consumed, 1, first))
    BY <1>2, <2>1, <2>2, <2>6
  <2>8. Len(consumed) \in 0 .. Len(consumed)
    BY <2>2
  <2> QED
    BY <1>4, <2>3, <2>7, <2>8
<1>6. ASSUME outcome = "no_password"
      PROVE  /\ complete(Len(consumed)) /\ "PASS" \notin Kinds(consumed)
             /\ ~complete(Len(consumed) - 1)
  <2>1. /\ Complete(Len(consumed)) /\ "PASS" \notin Taken(Len(consumed))
        /\ ~Complete(Len(consumed) - 1)
    BY <1>6 DEF RegistrationInv
  <2>2. Len(consumed) # 0
    BY <2>1 DEF Complete, Taken
  <2>3. Len(consumed) \in 0 .. Len(consumed) /\ Len(consumed) - 1 \in 0 .. Len(consumed)
    BY <1>1, <2>2
  <2> HIDE DEF complete
  <2> QED
    BY <1>3, <1>4, <2>1, <2>3
<1> QED
  BY <1>5, <1>6 DEF LoginNeedsPassword

(* The homeserver is asked exactly when NICK and USER are complete and a   *)
(* PASS came before; a client is refused for lack of one only if it gave   *)
(* none by then, however its lines are cut up on their way.                *)
THEOREM LoginAsksWithPassword == LoginSpec => []LoginNeedsPassword
<1>1. LoginInit => InputInv /\ PhaseInv /\ RegistrationInv
  BY InitHasInputInv, InitHasPhaseInv, InitHasRegistrationInv DEF LoginInit
<1>2. InputInv /\ PhaseInv /\ RegistrationInv /\ [LoginNext]_lvars
        => InputInv' /\ PhaseInv' /\ RegistrationInv'
  BY LoginSteps, InputStepKeepsInv, LoginNextKeepsPhaseInv, LoginNextKeepsRegistrationInv
<1>3. InputInv /\ RegistrationInv => LoginNeedsPassword
  BY RegistrationDecides
<1> QED
  BY <1>1, <1>2, <1>3, PTL DEF LoginSpec

-----------------------------------------------------------------------------
(* The refusal.                                                            *)

(* The socket, which nothing was written to, takes a line at once.         *)
LEMMA FirstLineIsSent ==
  ASSUME OutputInv, LineSize <= SendBuffer, written = 0, client # "gone",
         WriteLine(OwnLine(written + 1))
  PROVE  write_buffer' = <<>>
<1> DEFINE line == OwnLine(written + 1)
           old == Behind(write_buffer, position)
           left == Behind(write_buffer \o line, position)
<1>1. /\ outbox \in Seq(Unit) /\ received \in Seq(Unit) /\ write_buffer \in Seq(Unit)
      /\ position \in Nat /\ position <= Len(write_buffer)
  BY DEF OutputInv
<1>2. line \in Seq(Unit) /\ Len(line) = LineSize
  BY OwnLineType
<1>3. old \in Seq(Unit)
  BY <1>1, BehindElements
<1>4. Own(0) = <<>>
  <2>1. [i \in 1 .. 0 |-> OwnLine(i)] = <<>>
    OBVIOUS
  <2> QED
    BY <2>1, FlattenSeqEmpty DEF Own
<1>5. (received \o outbox) \o old = <<>>
  BY <1>4, OutputInvMeans DEF OutputInv
<1>6. Len(outbox) = 0 /\ Len(old) = 0
  <2> HIDE DEF old
  <2>1. Len(received \o outbox) = Len(received) + Len(outbox) /\ received \o outbox \in Seq(Unit)
    BY <1>1, ConcatProperties
  <2>2. Len((received \o outbox) \o old) = Len(received \o outbox) + Len(old)
    BY <1>3, <2>1, ConcatProperties
  <2>3. Len((received \o outbox) \o old) = 0
    BY <1>5
  <2>4. Len(received) \in Nat /\ Len(outbox) \in Nat /\ Len(old) \in Nat
    BY <1>1, <1>3
  <2> QED
    BY <2>1, <2>2, <2>3, <2>4
<1>7. Len(left) = LineSize
  <2> HIDE DEF line
  <2>1. left = old \o line
    BY <1>1, <1>2, BehindConcat
  <2>2. Len(old \o line) = Len(old) + Len(line)
    BY <1>2, <1>3, ConcatProperties
  <2>3. LineSize \in Nat
    BY SizesAssumption
  <2> HIDE DEF left, old
  <2> QED
    BY <1>2, <1>6, <2>1, <2>2, <2>3
<1>8. LET n == IF client = "gone" THEN 0 ELSE Lesser(Len(left), SendBuffer - Len(outbox))
      IN  n = Len(left) => write_buffer' = <<>>
  BY DEF WriteLine, PollWrite, Behind
<1>9. LineSize \in Nat /\ SendBuffer \in Nat
  BY SizesAssumption
<1> HIDE DEF left
<1>10. Lesser(Len(left), SendBuffer - Len(outbox)) = Len(left)
  BY <1>6, <1>7, <1>9 DEF Lesser
<1> QED
  BY <1>8, <1>10

(* A step that refuses nobody. *)
LEMMA QuietKeepsRefusalInv ==
  ASSUME RefusalInv,
         phase' # "running" => phase # "running" /\ written' = written,
         outcome' = outcome \/ outcome' \notin {"none", "no_password", "invalid_password"},
         outcome # "none" => UNCHANGED <<written, write_buffer>>,
         client' # "gone" => client # "gone"
  PROVE  RefusalInv'
BY DEF RefusalInv

(* A step that does. *)
LEMMA RefuseKeepsRefusalInv ==
  ASSUME OutputInv, RefusalInv, LineSize <= SendBuffer, phase # "running", outcome = "none",
         NEW reason \in {"no_password", "invalid_password"}, Refuse(reason),
         UNCHANGED <<client, received>>
  PROVE  RefusalInv'
<1>1. written = 0
  BY DEF RefusalInv
<1>2. WriteLine(OwnLine(written + 1)) /\ outcome' = reason
  BY DEF Refuse
<1>3. written' = 1
  BY <1>1, <1>2 DEF WriteLine
<1>4. client # "gone" => write_buffer' = <<>>
  BY <1>1, <1>2, FirstLineIsSent
<1> QED
  BY <1>2, <1>3, <1>4 DEF RefusalInv

(* Every step of the session keeps it. *)
LEMMA LoginNextKeepsRefusalInv ==
  ASSUME OutputInv, PhaseInv, RefusalInv, LineSize <= SendBuffer, [LoginNext]_lvars
  PROVE  RefusalInv'
<1>1. CASE PollTask
  BY <1>1, QuietKeepsRefusalInv DEF PollTask, environment, writer, history, session
<1>2. CASE PollStream
  <2>1. UNCHANGED <<client, written, phase, outcome>>
    BY <1>2 DEF PollStream, PollStart, PollRead, ReadLine, LineTooLong, ReadEnd, ReadError,
                ReadWouldBlock, ReadBytes, environment, history, session
  <2>2. outcome = "none"
    BY <1>2, StreamSteps DEF PhaseInv
  <2> QED
    BY <2>1, <2>2, QuietKeepsRefusalInv
<1>3. CASE NotReady
  BY <1>3, QuietKeepsRefusalInv DEF NotReady, environment, writer, history, session
<1>4. CASE Register
  BY <1>4, QuietKeepsRefusalInv DEF Register, environment, writer, history
<1>5. CASE Registered
  <2>1. phase # "running" /\ outcome = "none"
    BY <1>5 DEF Registered, PhaseInv
  <2>2. CASE Refuse("no_password")
    BY <1>5, <2>1, <2>2, RefuseKeepsRefusalInv DEF Registered
  <2>3. CASE ~Refuse("no_password")
    BY <1>5, <2>1, <2>3, QuietKeepsRefusalInv DEF Registered, writer
  <2> QED
    BY <2>2, <2>3
<1>6. CASE LoginDone
  <2>1. phase # "running" /\ outcome = "none"
    BY <1>6 DEF LoginDone, PhaseInv
  <2>2. CASE Refuse("invalid_password")
    BY <1>6, <2>1, <2>2, RefuseKeepsRefusalInv DEF LoginDone
  <2>3. CASE ~Refuse("invalid_password")
    BY <1>6, <2>1, <2>3, QuietKeepsRefusalInv DEF LoginDone, writer
  <2> QED
    BY <2>2, <2>3
<1>7. CASE Command
  <2>1. phase = "running" /\ outcome = "none" /\ UNCHANGED <<client, phase, outcome>>
    BY <1>7 DEF Command, Answer, session, PhaseInv
  <2> QED
    BY <2>1, QuietKeepsRefusalInv
<1>8. CASE PollMatrix
  BY <1>8, QuietKeepsRefusalInv DEF PollMatrix, environment, writer, history
<1>9. CASE WriteSyncLine
  <2>1. phase = "running" /\ outcome = "none" /\ UNCHANGED <<client, phase, outcome>>
    BY <1>9 DEF WriteSyncLine, PhaseInv
  <2> QED
    BY <2>1, QuietKeepsRefusalInv
<1>10. CASE SyncHandled
  BY <1>10, QuietKeepsRefusalInv DEF SyncHandled, environment, writer, history
<1>11. CASE End
  BY <1>11, QuietKeepsRefusalInv DEF End, environment, writer, history
<1>12. CASE LoginAnswer \/ SyncAnswer
  BY <1>12, QuietKeepsRefusalInv DEF LoginAnswer, SyncAnswer, environment, writer, history
<1>13. CASE Client /\ UNCHANGED session
  <2>1. UNCHANGED <<written, write_buffer, phase, outcome>> /\ (client' # "gone" => client # "gone")
    BY <1>13 DEF Client, ClientSends, ClientFinishes, ClientDies, ClientReads, writer, history,
                 session
  <2> QED
    BY <2>1, QuietKeepsRefusalInv
<1>14. CASE UNCHANGED lvars
  BY <1>14, QuietKeepsRefusalInv DEF lvars, tvars, environment, writer, history, session
<1> QED
  BY <1>1, <1>2, <1>3, <1>4, <1>5, <1>6, <1>7, <1>8, <1>9, <1>10, <1>11, <1>12, <1>13, <1>14
  DEF LoginNext

(* It is what RefusedAreTold says. *)
LEMMA RefusedIsTold == OutputInv /\ RefusalInv => RefusedAreTold
<1> SUFFICES ASSUME OutputInv, RefusalInv, client # "gone", written = 1, write_buffer = <<>>
             PROVE  received \o outbox = OwnLine(1)
  BY DEF RefusalInv, RefusedAreTold
<1>1. received \in Seq(Unit) /\ outbox \in Seq(Unit)
  BY DEF OutputInv
<1>2. Behind(write_buffer, position) = <<>>
  BY DEF Behind, OutputInv
<1>3. (received \o outbox) \o <<>> = Own(1)
  BY <1>2, OutputInvMeans DEF OutputInv
<1>4. received \o outbox = Own(1)
  <2>1. received \o outbox \in Seq(Unit)
    BY <1>1, ConcatProperties
  <2> QED
    BY <1>3, <2>1, ConcatEmptySeq
<1>5. Own(1) = OwnLine(1)
  <2>1. [i \in 1 .. 0 |-> OwnLine(i)] = <<>>
    OBVIOUS
  <2>2. Own(0) = <<>>
    BY <2>1, FlattenSeqEmpty DEF Own
  <2>3. Own(0 + 1) = Own(0) \o OwnLine(0 + 1)
    BY OwnGrows
  <2>4. 0 + 1 = 1
    OBVIOUS
  <2>5. <<>> \o OwnLine(1) = OwnLine(1)
    BY OwnLineType, ConcatEmptySeq
  <2> QED
    BY <2>2, <2>3, <2>4, <2>5
<1> QED
  BY <1>4, <1>5

(* A client that is refused has been told: if the socket has room for one  *)
(* line, the numeric is in it when the connection is dropped.              *)
THEOREM RefusalIsTold ==
  ASSUME LineSize <= SendBuffer
  PROVE  LoginSpec => []RefusedAreTold
<1>1. LoginInit => OutputInv /\ PhaseInv /\ RefusalInv
  BY InitHasOutputInv, InitHasPhaseInv DEF LoginInit, TransportInit, RefusalInv
<1>2. OutputInv /\ PhaseInv /\ RefusalInv /\ [LoginNext]_lvars
        => OutputInv' /\ PhaseInv' /\ RefusalInv'
  BY LoginSteps, OutputStepKeepsInv, LoginNextKeepsPhaseInv, LoginNextKeepsRefusalInv
<1>3. OutputInv /\ RefusalInv => RefusedAreTold
  BY RefusedIsTold
<1> QED
  BY <1>1, <1>2, <1>3, PTL DEF LoginSpec
=============================================================================
