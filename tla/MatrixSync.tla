----------------------------- MODULE MatrixSync -----------------------------
(***************************************************************************)
(* The sync loop, MatrixSyncClient of src/src/matrix/sync.rs, with the     *)
(* homeserver and, as far as a single request can tell, the HTTP client:   *)
(* a request waits, is answered or is cancelled, once (RequestService).    *)
(*                                                                         *)
(* The account's events are numbered as they happen.  A token stands for a *)
(* position in them, and no token for the start.                           *)
(***************************************************************************)
EXTENDS Integers, SequencesExt

CONSTANTS MaxEvents,    \* events that happen
          MaxFailures   \* requests that are cancelled

ASSUME SyncAssumption == MaxEvents \in Nat /\ MaxFailures \in Nat

None == -1     \* no token
Missing == -2  \* the token of an answer that has none

VARIABLES
  next_token,    \* None or a position
  current_sync,  \* "none", "waiting", "cancelled", "answered"
  since,         \* the token in the request, while there is one
  response,      \* the answer: [code, valid, batch, next_batch]
  pc,            \* "idle", "poll" or "failed"
  events,        \* number of events so far
  delivered,     \* history: the events in the batches handed over
  failures       \* counter of MaxFailures

vars == <<next_token, current_sync, since, response, pc, events, delivered, failures>>

Count(n) == [i \in 1 .. n |-> i]
WithoutBatch(code, valid) ==
  [code |-> code, valid |-> valid, batch |-> <<>>, next_batch |-> Missing]
NoResponse == WithoutBatch(0, FALSE)

Init ==
  /\ next_token = None /\ current_sync = "none" /\ since = None /\ response = NoResponse
  /\ pc = "poll" /\ events = 0 /\ delivered = <<>> /\ failures = 0

-----------------------------------------------------------------------------
(* The code: poll_sync, a turn of its loop at a time.                      *)

StartSync ==
  /\ pc = "poll" /\ current_sync = "none"
  /\ current_sync' = "waiting" /\ since' = next_token
  /\ UNCHANGED <<next_token, response, pc, events, delivered, failures>>

NotReady ==
  /\ pc = "poll" /\ current_sync = "waiting"
  /\ pc' = "idle"
  /\ UNCHANGED <<next_token, current_sync, since, response, events, delivered, failures>>

(* Mutants: the loop starts afresh; it waits to be polled again.           *)
RepeatFromStart ==
  /\ pc = "poll" /\ current_sync = "cancelled"
  /\ current_sync' = "none" /\ next_token' = None
  /\ UNCHANGED <<since, response, pc, events, delivered, failures>>
RepeatWhenWoken ==
  /\ pc = "poll" /\ current_sync = "cancelled"
  /\ current_sync' = "none" /\ pc' = "idle"
  /\ UNCHANGED <<next_token, since, response, events, delivered, failures>>

(* A request whose connection died is repeated. *)
Repeat ==
  /\ pc = "poll" /\ current_sync = "cancelled"
  /\ current_sync' = "none"
  /\ UNCHANGED <<next_token, since, response, pc, events, delivered, failures>>

(* An answer that is no sync response ends the session. *)
BadResponse ==
  /\ pc = "poll" /\ current_sync = "answered"
  /\ response.code # 200 \/ ~response.valid
  /\ current_sync' = "none" /\ pc' = "failed"
  /\ UNCHANGED <<next_token, since, response, events, delivered, failures>>

(* The response is handed to MatrixClient, which polls on when it is       *)
(* handled.                                                                *)
HandOver ==
  /\ pc = "poll" /\ current_sync = "answered" /\ response.code = 200 /\ response.valid
  /\ next_token' = response.next_batch
  /\ current_sync' = "none"
  /\ delivered' = delivered \o response.batch
  /\ UNCHANGED <<since, response, pc, events, failures>>

PollSync == StartSync \/ NotReady \/ Repeat \/ BadResponse \/ HandOver

-----------------------------------------------------------------------------
(* The homeserver and the HTTP client.                                     *)

Happens ==
  /\ events < MaxEvents
  /\ events' = events + 1
  /\ UNCHANGED <<next_token, current_sync, since, response, pc, delivered, failures>>

Wake == pc' = (IF pc = "idle" THEN "poll" ELSE pc)

(* The long poll returns what happened since the token, or nothing when it *)
(* times out.                                                              *)
Answered ==
  /\ current_sync = "waiting"
  /\ current_sync' = "answered"
  /\ LET from == IF since = None THEN 0 ELSE since
     IN  response' = [code |-> 200, valid |-> TRUE, batch |-> SubSeq(Count(events), from + 1, events),
                      next_batch |-> events]
  /\ Wake
  /\ UNCHANGED <<next_token, since, events, delivered, failures>>

AnsweredBadly ==
  /\ current_sync = "waiting"
  /\ current_sync' = "answered"
  /\ response' \in {WithoutBatch(500, TRUE), WithoutBatch(200, FALSE)}
  /\ Wake
  /\ UNCHANGED <<next_token, since, events, delivered, failures>>

(* Whether the homeserver has answered or not. *)
ConnectionDies ==
  /\ current_sync = "waiting" /\ failures < MaxFailures
  /\ current_sync' = "cancelled"
  /\ failures' = failures + 1
  /\ Wake
  /\ UNCHANGED <<next_token, since, response, events, delivered>>

Next == PollSync \/ Happens \/ Answered \/ AnsweredBadly \/ ConnectionDies

Spec == Init /\ [][Next]_vars

(* The task is polled when it is woken, and the homeserver answers. *)
FairSpec == Spec /\ WF_vars(PollSync) /\ WF_vars(Answered)

-----------------------------------------------------------------------------
(* Properties.                                                             *)

(* Every event is handed over once and in order, whatever fails on the way *)
(* (matrix/sync.rs:95, :119).                                              *)
Batches == INSTANCE OrderedDelivery WITH Item <- 1 .. MaxEvents, sent <- Count(events),
                                         taken <- delivered
HandsOverInOrder == Batches!Spec

(* Whatever happens is handed over in the end, unless the session fails. *)
KeepsUp == \A n \in 1 .. MaxEvents : events >= n ~> (Len(delivered) >= n \/ pc = "failed")
=============================================================================
