----------------------------- MODULE HttpParser -----------------------------
(***************************************************************************)
(* The incremental parser of HTTP responses, HttpParser of src/src/http.rs *)
(* and, external to the code, the server's end of the connection and the   *)
(* crate httparse.                                                         *)
(*                                                                         *)
(* Bytes are cut into units that name what they are: two for the status    *)
(* line and headers, two for the line with a chunk's size, one for each    *)
(* part of a body, and the two of the line end that follows a chunk.  The  *)
(* code and type of a response are the number of the one whose head it is. *)
(*                                                                         *)
(* Not in the scripts, though HTTP allows it: trailers behind the last     *)
(* chunk.  The code skips two bytes there (http.rs:432) and would take the *)
(* rest of them for the next head.  Nor are heads of more than 32 headers. *)
(***************************************************************************)
EXTENDS Integers, SequencesExt

CONSTANT Scripts  \* sequences of [framing, chunks] that the server sends

Framings == {"length", "chunked", "none", "bad_head", "bad_chunk"}

(* A body with a length or without is one piece; an empty chunk would be   *)
(* the last.  After a response that is broken or has no length nothing     *)
(* more can be told apart.                                                 *)
ASSUME ScriptsAssumption ==
  \A s \in Scripts :
    /\ s \in Seq([framing : Framings, chunks : Seq(Nat)])
    /\ \A r \in DOMAIN s :
         /\ s[r].framing \in {"length", "none"} => Len(s[r].chunks) = 1
         /\ s[r].framing \in {"chunked", "bad_chunk"} =>
              \A i \in DOMAIN s[r].chunks : s[r].chunks[i] > 0
         /\ s[r].framing \in {"none", "bad_head", "bad_chunk"} => r = Len(s)

VARIABLES
  script,
  unsent,            \* units the server has still to send
  ended,             \* the server has closed the connection
  stream,            \* units that arrived and were not read
  pc,                \* "idle", "poll" or "dropped"
  response_buffer,
  curr_state,        \* HttpStreamState
  partial_response,  \* [head, data]
  returned           \* history: the responses handed out, [head, data]

server == <<script, unsent, ended>>
parser == <<response_buffer, curr_state, partial_response>>
vars == <<server, stream, pc, parser, returned>>

(* Framings: "length" has a Content-Length, "chunked" chunks, "none" only  *)
(* the end of the connection.  A "bad_head" is no HTTP, a "bad_chunk" is   *)
(* where the size of the last chunk should be.                             *)
Data(r, i) == [k \in 1 .. script[r].chunks[i] |-> <<"data", r, i, k>>]
LineEnd(r) == <<<<"cr", r>>, <<"lf", r>>>>
SizeLine(r, i) == <<<<"size", r, i>>, <<"size end", r, i>>>>
Junk(r) == <<<<"junk", r>>>>
Head1(r) == <<<<"head", r, 1>>, <<"head", r, 2>>>>

AllData(r) == FlattenSeq([i \in DOMAIN script[r].chunks |-> Data(r, i)])

Chunks(r) ==
  FlattenSeq([i \in DOMAIN script[r].chunks |-> SizeLine(r, i) \o Data(r, i) \o LineEnd(r)])

Encoded(r) ==
  CASE script[r].framing = "bad_head" -> Junk(r)
    [] script[r].framing = "bad_chunk" -> Head1(r) \o Chunks(r) \o Junk(r)
    [] script[r].framing = "chunked" ->
         Head1(r) \o Chunks(r) \o SizeLine(r, Len(script[r].chunks) + 1) \o LineEnd(r)
    [] OTHER -> Head1(r) \o AllData(r)

NoLength == -1
Headers == [tag |-> "Headers", len |-> NoLength]
RawData(len) == [tag |-> "RawData", len |-> len]
ChunkedData == [tag |-> "ChunkedData", len |-> NoLength]
Empty == [head |-> 0, data |-> <<>>]

Init ==
  /\ script \in Scripts
  /\ unsent = FlattenSeq([r \in DOMAIN script |-> Encoded(r)]) /\ ended = FALSE
  /\ stream = <<>> /\ pc = "poll"
  /\ response_buffer = <<>> /\ curr_state = Headers /\ partial_response = Empty
  /\ returned = <<>>

-----------------------------------------------------------------------------
(* httparse: what it makes of the start of a buffer.                       *)

HeadComplete(buffer) == Len(buffer) >= 2 /\ SubSeq(buffer, 1, 2) = Head1(buffer[1][2])
HeadPartial(buffer) == Len(buffer) = 1 /\ buffer[1][1] = "head" /\ buffer[1][3] = 1

SizeComplete(buffer) ==
  Len(buffer) >= 2 /\ buffer[1][1] = "size" /\ buffer[2][1] = "size end"
SizePartial(buffer) == buffer = <<>> \/ (Len(buffer) = 1 /\ buffer[1][1] = "size")
ChunkLen(buffer) ==
  LET chunks == script[buffer[1][2]].chunks
  IN  IF buffer[1][3] \in DOMAIN chunks THEN chunks[buffer[1][3]] ELSE 0

-----------------------------------------------------------------------------
(* The code: poll_for_response, a turn of its loop at a time.              *)

Consume(n) == response_buffer' = SubSeq(response_buffer, n + 1, Len(response_buffer))

(* The response is returned.  HttpClientHandler polls on for the next.     *)
Return(response) ==
  /\ returned' = Append(returned, response)
  /\ partial_response' = Empty
  /\ curr_state' = Headers
  /\ UNCHANGED <<server, stream, pc>>

Fail == pc' = "dropped" /\ UNCHANGED <<server, stream, parser, returned>>

ParseHead ==
  /\ pc = "poll" /\ curr_state = Headers /\ HeadComplete(response_buffer)
  /\ LET r == response_buffer[1][2]
     IN  /\ partial_response' = [head |-> r, data |-> <<>>]
         /\ curr_state' = CASE script[r].framing = "length" -> RawData(script[r].chunks[1])
                            [] script[r].framing = "none" -> RawData(NoLength)
                            [] OTHER -> ChunkedData
  /\ Consume(2)
  /\ UNCHANGED <<server, stream, pc, returned>>

HeadError ==
  /\ pc = "poll" /\ curr_state = Headers /\ response_buffer # <<>>
  /\ ~HeadComplete(response_buffer) /\ ~HeadPartial(response_buffer)
  /\ Fail

(* Mutant: the whole buffer is the body. *)
TakeBodyAll ==
  /\ pc = "poll" /\ curr_state.tag = "RawData" /\ curr_state.len # NoLength
  /\ Len(response_buffer) >= curr_state.len
  /\ Return([partial_response EXCEPT !.data = response_buffer])
  /\ response_buffer' = <<>>

TakeBody ==
  /\ pc = "poll" /\ curr_state.tag = "RawData" /\ curr_state.len # NoLength
  /\ Len(response_buffer) >= curr_state.len
  /\ Return([partial_response EXCEPT !.data = SubSeq(response_buffer, 1, curr_state.len)])
  /\ Consume(curr_state.len)

AtChunk == pc = "poll" /\ curr_state = ChunkedData /\ SizeComplete(response_buffer)

(* Mutant: the line end after the chunk may still be missing. *)
TakeChunkEarly ==
  /\ AtChunk /\ ChunkLen(response_buffer) > 0
  /\ Len(response_buffer) >= 2 + ChunkLen(response_buffer)
  /\ partial_response' = [partial_response EXCEPT
                            !.data = @ \o SubSeq(response_buffer, 3, 2 + ChunkLen(response_buffer))]
  /\ Consume(2 + ChunkLen(response_buffer) + 2)
  /\ UNCHANGED <<server, stream, pc, curr_state, returned>>

TakeChunk ==
  /\ AtChunk /\ ChunkLen(response_buffer) > 0
  /\ Len(response_buffer) >= 2 + ChunkLen(response_buffer) + 2
  /\ partial_response' = [partial_response EXCEPT
                            !.data = @ \o SubSeq(response_buffer, 3, 2 + ChunkLen(response_buffer))]
  /\ Consume(2 + ChunkLen(response_buffer) + 2)
  /\ UNCHANGED <<server, stream, pc, curr_state, returned>>

(* Mutant: the line end after the last chunk may still be missing. *)
TakeLastChunkEarly ==
  /\ AtChunk /\ ChunkLen(response_buffer) = 0
  /\ Return(partial_response)
  /\ Consume(2 + 2)

TakeLastChunk ==
  /\ AtChunk /\ ChunkLen(response_buffer) = 0
  /\ Len(response_buffer) >= 2 + 2
  /\ Return(partial_response)
  /\ Consume(2 + 2)

ChunkError ==
  /\ pc = "poll" /\ curr_state = ChunkedData
  /\ ~SizeComplete(response_buffer) /\ ~SizePartial(response_buffer)
  /\ Fail

(* Mutant: before a head it reads, whatever is in the buffer. *)
NeedsMoreFirst ==
  /\ pc = "poll"
  /\ \/ curr_state = Headers
     \/ /\ curr_state.tag = "RawData"
        /\ curr_state.len = NoLength \/ Len(response_buffer) < curr_state.len
     \/ curr_state = ChunkedData /\ SizePartial(response_buffer)
     \/ /\ AtChunk
        /\ Len(response_buffer) < 2 + ChunkLen(response_buffer) + 2

(* Nothing can be made of the buffer yet. *)
NeedsMore ==
  /\ pc = "poll"
  /\ \/ curr_state = Headers /\ (response_buffer = <<>> \/ HeadPartial(response_buffer))
     \/ /\ curr_state.tag = "RawData"
        /\ curr_state.len = NoLength \/ Len(response_buffer) < curr_state.len
     \/ curr_state = ChunkedData /\ SizePartial(response_buffer)
     \/ /\ AtChunk
        /\ Len(response_buffer) < 2 + ChunkLen(response_buffer) + 2

Read ==
  /\ NeedsMore /\ stream # <<>>
  /\ response_buffer' = response_buffer \o stream
  /\ stream' = <<>>
  /\ UNCHANGED <<server, pc, curr_state, partial_response, returned>>

ReadWouldBlock ==
  /\ NeedsMore /\ stream = <<>> /\ ~ended
  /\ pc' = "idle"
  /\ UNCHANGED <<server, stream, parser, returned>>

(* The end of the connection completes a response without a length, but    *)
(* the body, still in the buffer, is not put in it.                        *)
ReadEnd ==
  /\ NeedsMore /\ stream = <<>> /\ ended
  /\ \/ /\ curr_state = RawData(NoLength)
        /\ Return(partial_response)
        /\ UNCHANGED response_buffer
     \/ /\ curr_state # RawData(NoLength)
        /\ Fail

PollForResponse == \/ ParseHead \/ HeadError \/ TakeBody \/ TakeChunk \/ TakeLastChunk
                   \/ ChunkError \/ Read \/ ReadWouldBlock \/ ReadEnd

-----------------------------------------------------------------------------
(* The server, and the task that is woken when the socket is ready.        *)

ServerSends ==
  /\ unsent # <<>> /\ ~ended
  /\ stream' = Append(stream, Head(unsent))
  /\ unsent' = Tail(unsent)
  /\ pc' = (IF pc = "idle" THEN "poll" ELSE pc)
  /\ UNCHANGED <<script, ended, parser, returned>>

ServerEnds ==
  /\ ~ended
  /\ ended' = TRUE
  /\ pc' = (IF pc = "idle" THEN "poll" ELSE pc)
  /\ UNCHANGED <<script, unsent, stream, parser, returned>>

Next == PollForResponse \/ ServerSends \/ ServerEnds

Spec == Init /\ [][Next]_vars

-----------------------------------------------------------------------------
(* Properties.                                                             *)

(* The responses that are under way as a whole, in order.  One without a   *)
(* length is whole when the connection ends after its headers.             *)
Whole(r) ==
  /\ script[r].framing \notin {"bad_head", "bad_chunk"}
  /\ IF script[r].framing = "none"
     THEN ended /\ \A i \in DOMAIN unsent : unsent[i][2] >= r /\ unsent[i][1] # "head"
     ELSE \A i \in DOMAIN unsent : unsent[i][2] > r

SentWhole == [r \in {r \in DOMAIN script : Whole(r)} |-> r]

Heads == [i \in DOMAIN returned |-> returned[i].head]

(* The heads of the responses handed out are those the server sent, once   *)
(* and in order, and none comes before the response has been sent whole,   *)
(* however the bytes arrive (http.rs:315).                                 *)
Responses == INSTANCE OrderedDelivery WITH Item <- Nat, sent <- SentWhole, taken <- Heads
ReturnsInOrder == Responses!Spec

(* A response that says its length, or comes in chunks, is handed out with *)
(* its own body, all of it and nothing else, however the bytes arrive.     *)
(* Nothing is claimed of the body of one that ends with the connection: it *)
(* is not handed out but stays in the buffer (http.rs:415).                *)
BodiesOfKnownLength ==
  \A i \in DOMAIN returned :
    LET r == returned[i].head
    IN  r \in DOMAIN script /\ script[r].framing # "none" => returned[i].data = AllData(r)

(* No response is held back: when the task sleeps, and when the connection *)
(* is given up, all that came whole have been handed out.                  *)
NothingHeldBack ==
  pc = "dropped" \/ (pc = "idle" /\ stream = <<>>) => Heads = SentWhole

(* The connection is given up only when it has ended or where the server   *)
(* does not keep to the protocol, however the bytes arrive.                *)
ErrorsAreJustified ==
  pc = "dropped" =>
    \/ ended /\ stream = <<>>
    \/ LET next == Len(returned) + 1
       IN  next \in DOMAIN script /\ script[next].framing \in {"bad_head", "bad_chunk"}
=============================================================================
