----------------------------- MODULE MatrixSend -----------------------------
(***************************************************************************)
(* What becomes of the messages an IRC user says in one room: PRIVMSG      *)
(* (src/src/bridge/mod.rs:128), MatrixClient::send_text_message over the   *)
(* connection of HttpClient, and the room on the homeserver.               *)
(*                                                                         *)
(* Request n is the n-th message.  Its transaction id is a random 16 bit   *)
(* number; what matters of it is which earlier messages have the same, so  *)
(* that an id is named by the first message that has it.  A homeserver     *)
(* that gets an id again answers as it did before and adds nothing to the  *)
(* room.  The futures of sends are spawned on the reactor: they go on when *)
(* the session ends, which is therefore no part of this module.            *)
(***************************************************************************)
EXTENDS HttpClient

VARIABLES txn,    \* the transaction id of every message
          said    \* the messages in the room, in its order

sendVars == <<vars, txn, said>>

SendInit == Init /\ txn = <<>> /\ said = <<>>

-----------------------------------------------------------------------------
(* send_text_message: a random id, an old one or a new one. *)
SendTextMessage ==
  /\ SendRequest
  /\ \E id \in Range(txn) \cup {Len(txn) + 1} : txn' = Append(txn, id)
  /\ UNCHANGED said

(* The room after the homeserver has carried out the request of message n. *)
SaidAfter(n) == IF \E m \in Range(served) : txn[m] = txn[n] THEN said ELSE Append(said, n)

SayArrived == Serve /\ said' = SaidAfter(Head(arrived)) /\ UNCHANGED txn

SayStray == ServeStray /\ said' = SaidAfter(Last(served')) /\ UNCHANGED txn

PollStepOfSend == PollStep /\ UNCHANGED <<txn, said>>

NetworkOfSend ==
  /\ \/ \E outcome \in {"up", "refused"} : DialEnds(outcome)
     \/ ServerRead
     \/ Close
  /\ UNCHANGED <<txn, said>>

SendNext == \/ SendTextMessage
            \/ PollStepOfSend
            \/ SayArrived
            \/ SayStray
            \/ NetworkOfSend

(* As HttpClient!FairSpec.  No fairness of requests that are late. *)
SendSpec ==
  /\ SendInit /\ [][SendNext]_sendVars
  /\ WF_sendVars(PollStepOfSend)
  /\ WF_sendVars((\E outcome \in {"up", "refused"} : DialEnds(outcome)) /\ UNCHANGED <<txn, said>>)
  /\ WF_sendVars(ServerRead /\ UNCHANGED <<txn, said>>)
  /\ WF_sendVars(SayArrived)

-----------------------------------------------------------------------------
(* Properties.                                                             *)

(* The bridge takes a message for sent, and logs no "Failed to send", when *)
(* its request was answered with success.                                  *)
Acknowledged(n) == n \in DOMAIN results /\ results[n] \in 1 .. MaxRequests

(* A message that counts as sent is in the room, unless its id was drawn   *)
(* before: then an earlier message with that id is in the room, and this   *)
(* one is swallowed without a word (matrix/mod.rs:143).                    *)
AcknowledgedIsSaid ==
  \A n \in DOMAIN results : Acknowledged(n) =>
    n \in Range(said) \/ \E m \in Range(said) : m < n /\ txn[m] = txn[n]

(* Messages that count as sent stand in the room in the order they were    *)
(* typed, over reconnects too.  Only one that failed may turn up late.     *)
SaidInOrder ==
  \A i, j \in DOMAIN said :
    i < j /\ Acknowledged(said[i]) /\ Acknowledged(said[j]) => said[i] < said[j]
=============================================================================
