------------------------------- MODULE Login -------------------------------
(***************************************************************************)
(* From a connection to a running session, as the reader of IrcTransport:  *)
(* await_login over StreamFold (src/src/irc/mod.rs, stream_fold.rs),       *)
(* MatrixClient::login, Bridge::create, and the tasks poll_irc and         *)
(* poll_matrix as far as they wait for each other.                         *)
(*                                                                         *)
(* Everything happens in the session's task.  It leaves the stream alone   *)
(* while it waits for the homeserver's answer to the login and to the      *)
(* first sync, so that the client's lines stay in the buffer and the       *)
(* socket, and the stream is not read again unless the task is woken.      *)
(* Homeserver and executor are external; the executor polls the tasks of   *)
(* the session in the order they were spawned, whenever it is polled.      *)
(***************************************************************************)
EXTENDS IrcTransport

CONSTANTS FirstSyncLines,  \* lines written for the first sync, with the welcome
          MaxSyncs         \* sync responses

ASSUME LoginAssumption == /\ FirstSyncLines \in Nat \ {0} /\ MaxSyncs \in Nat

VARIABLES
  phase,          \* "await_login", "matrix_login" or "running"
  user_nick,      \* which of NICK, USER and PASS were given
  login, sync,    \* the requests: "none", "sent", and the answer
  is_first_sync,
  to_write,       \* lines of the sync response still to be written
  syncs,          \* counter of MaxSyncs
  outcome         \* why the session ended

session == <<phase, user_nick, login, sync, is_first_sync, to_write, syncs, outcome>>
lvars == <<tvars, session>>

LoginInit ==
  /\ TransportInit
  /\ phase = "await_login" /\ user_nick = {}
  /\ login = "none" /\ sync = "none" /\ is_first_sync = TRUE
  /\ to_write = 0 /\ syncs = 0 /\ outcome = "none"

Refuse(reason) ==
  /\ WriteLine(OwnLine(written + 1))
  /\ pc' = "error" /\ outcome' = reason

-----------------------------------------------------------------------------
(* The code.                                                               *)

(* Mutant: poll_irc does not wait for the first sync.                      *)
PollTaskEarly ==
  /\ pc = "idle" /\ woken
  /\ woken' = FALSE
  /\ pc' = CASE phase = "matrix_login" -> "login"
             [] OTHER -> "poll"
  /\ UNCHANGED <<environment, read_interest, write_interest, reader, writer, history, session>>

(* The task is polled: StreamFold or poll_irc polls the stream, except     *)
(* that before the first sync is handled poll_irc does nothing, and the    *)
(* next task is poll_matrix.                                               *)
PollTask ==
  /\ pc = "idle" /\ woken
  /\ woken' = FALSE
  /\ pc' = CASE phase = "matrix_login" -> "login"
             [] phase = "running" /\ is_first_sync -> "matrix"
             [] OTHER -> "poll"
  /\ UNCHANGED <<environment, read_interest, write_interest, reader, writer, history, session>>

(* IrcServerConnection::poll, wherever it is called. *)
PollStream == (PollStart \/ PollRead) /\ UNCHANGED session

(* StreamFold::poll passes a "not ready" on and keeps the stream; the      *)
(* executor goes on with poll_matrix.                                      *)
NotReady ==
  /\ pc = "pending"
  /\ pc' = IF phase = "running" THEN "matrix" ELSE "idle"
  /\ UNCHANGED <<environment, woken, read_interest, write_interest, reader, writer, history,
                 session>>

Given == user_nick \cup ({Kind(Last(consumed))} \cap {"NICK", "USER", "PASS"})

(* A command in await_login, which is not the last of the registration. *)
Register ==
  /\ pc = "ready" /\ phase = "await_login"
  /\ user_nick' = Given /\ ~({"NICK", "USER"} \subseteq Given)
  /\ pc' = "poll"
  /\ UNCHANGED <<environment, woken, read_interest, write_interest, reader, writer, history,
                 phase, login, sync, is_first_sync, to_write, syncs, outcome>>

(* Mutant: a PASS is waited for. *)
RegisteredLate ==
  /\ pc = "ready" /\ phase = "await_login"
  /\ user_nick' = Given
  /\ \/ /\ {"NICK", "USER", "PASS"} \subseteq Given
        /\ phase' = "matrix_login" /\ login' = "sent" /\ pc' = "idle"
     \/ /\ {"NICK", "USER"} \subseteq Given /\ "PASS" \notin Given
        /\ pc' = "poll"
        /\ UNCHANGED <<phase, login>>
  /\ UNCHANGED <<environment, woken, read_interest, write_interest, reader, writer, history,
                 sync, is_first_sync, to_write, syncs, outcome>>

(* The command that completes it: without a password the client is told    *)
(* and the connection dropped, with one the homeserver is asked.           *)
Registered ==
  /\ pc = "ready" /\ phase = "await_login"
  /\ user_nick' = Given /\ {"NICK", "USER"} \subseteq Given
  /\ \/ /\ "PASS" \in Given
        /\ phase' = "matrix_login" /\ login' = "sent" /\ pc' = "idle"
        /\ UNCHANGED <<outbox, woken, write_interest, writer, written, outcome>>
     \/ /\ "PASS" \notin Given
        /\ Refuse("no_password")
        /\ UNCHANGED <<phase, login>>
  /\ UNCHANGED <<script, unsent, client, inbox, received, read_interest, reader, consumed,
                 failure, sync, is_first_sync, to_write, syncs>>

(* The future of MatrixClient::login is polled; once it is there,          *)
(* Bridge::create spawns the two tasks, poll_irc waits and poll_matrix     *)
(* asks for the first sync.                                                *)
LoginDone ==
  /\ pc = "login"
  /\ \/ /\ login = "sent"
        /\ pc' = "idle"
        /\ UNCHANGED <<outbox, woken, write_interest, writer, written, phase, sync, outcome>>
     \/ /\ login = "accepted"
        /\ phase' = "running" /\ sync' = "sent" /\ pc' = "idle"
        /\ UNCHANGED <<outbox, woken, write_interest, writer, written, outcome>>
     \/ /\ login = "forbidden"
        /\ Refuse("invalid_password")
        /\ UNCHANGED <<phase, sync>>
     \/ /\ login = "failed"
        /\ pc' = "error" /\ outcome' = "login_failed"
        /\ UNCHANGED <<outbox, woken, write_interest, writer, written, phase, sync>>
  /\ UNCHANGED <<script, unsent, client, inbox, received, read_interest, reader, consumed,
                 failure, user_nick, login, is_first_sync, to_write, syncs>>

(* poll_irc: a command of a running session. *)
Command ==
  /\ pc = "ready" /\ phase = "running"
  /\ Answer
  /\ UNCHANGED session

(* poll_matrix: a sync that fails ends the session. *)
PollMatrix ==
  /\ pc = "matrix"
  /\ \/ /\ sync = "sent"
        /\ pc' = "idle"
        /\ UNCHANGED <<to_write, outcome>>
     \/ /\ sync = "arrived"
        /\ to_write' = (IF is_first_sync THEN FirstSyncLines ELSE 1)
        /\ pc' = "sync"
        /\ UNCHANGED outcome
     \/ /\ sync = "failed"
        /\ pc' = "error" /\ outcome' = "sync_failed"
        /\ UNCHANGED to_write
  /\ UNCHANGED <<environment, woken, read_interest, write_interest, reader, writer, history,
                 phase, user_nick, login, sync, is_first_sync, syncs>>

(* handle_sync_response writes its lines ... *)
WriteSyncLine ==
  /\ pc = "sync" /\ to_write > 0
  /\ WriteLine(OwnLine(written + 1))
  /\ to_write' = to_write - 1
  /\ UNCHANGED <<script, unsent, client, inbox, received, read_interest, pc, reader, consumed,
                 failure, phase, user_nick, login, sync, is_first_sync, syncs, outcome>>

(* ... and returns, and poll_matrix asks for the next. *)
SyncHandled ==
  /\ pc = "sync" /\ to_write = 0
  /\ is_first_sync' = FALSE /\ sync' = "sent" /\ pc' = "matrix"
  /\ UNCHANGED <<environment, woken, read_interest, write_interest, reader, writer, history,
                 phase, user_nick, login, to_write, syncs, outcome>>

(* The stream ended or failed, or the session has: the future is done, and *)
(* the connection is dropped with what is left in its write buffer.        *)
End ==
  /\ pc \in {"none", "error"}
  /\ pc' = "dropped"
  /\ outcome' = IF outcome = "none" THEN "disconnected" ELSE outcome
  /\ UNCHANGED <<environment, woken, read_interest, write_interest, reader, writer, history,
                 phase, user_nick, login, sync, is_first_sync, to_write, syncs>>

-----------------------------------------------------------------------------
(* The homeserver: its answers wake the task.                              *)

LoginAnswer ==
  /\ login = "sent"
  /\ login' \in {"accepted", "forbidden", "failed"}
  /\ woken' = TRUE
  /\ UNCHANGED <<environment, read_interest, write_interest, pc, reader, writer, history, phase,
                 user_nick, sync, is_first_sync, to_write, syncs, outcome>>

SyncAnswer ==
  /\ sync = "sent" /\ syncs < MaxSyncs
  /\ sync' \in {"arrived", "failed"}
  /\ syncs' = syncs + 1
  /\ woken' = TRUE
  /\ UNCHANGED <<environment, read_interest, write_interest, pc, reader, writer, history, phase,
                 user_nick, login, is_first_sync, to_write, outcome>>

LoginNext == \/ PollTask \/ PollStream \/ NotReady \/ Register \/ Registered \/ LoginDone
             \/ Command \/ PollMatrix \/ WriteSyncLine \/ SyncHandled \/ End
             \/ LoginAnswer \/ SyncAnswer
             \/ Client /\ UNCHANGED session

LoginSpec == LoginInit /\ [][LoginNext]_lvars

(* A woken task is polled and a poll goes on; the homeserver answers the   *)
(* login and the first sync.                                               *)
LoginFairness ==
  /\ WF_lvars(PollTask) /\ WF_lvars(PollStream) /\ WF_lvars(NotReady)
  /\ WF_lvars(Register) /\ WF_lvars(Registered) /\ WF_lvars(LoginDone)
  /\ WF_lvars(Command) /\ WF_lvars(PollMatrix) /\ WF_lvars(WriteSyncLine)
  /\ WF_lvars(SyncHandled) /\ WF_lvars(End)
  /\ WF_lvars(LoginAnswer) /\ WF_lvars(is_first_sync /\ SyncAnswer)

FairLogin == LoginSpec /\ LoginFairness

-----------------------------------------------------------------------------
(* Properties.                                                             *)

Kinds(lines) == {Kind(lines[i]) : i \in DOMAIN lines}

(* The homeserver is asked exactly when NICK and USER are complete and a   *)
(* PASS came before; a client is refused for lack of one only if it gave   *)
(* none by then (irc/mod.rs:83), however the lines arrive.                 *)
LoginNeedsPassword ==
  LET complete(k) == {"NICK", "USER"} \subseteq Kinds(SubSeq(consumed, 1, k))
      first == CHOOSE k \in DOMAIN consumed : complete(k) /\ ~complete(k - 1)
  IN  /\ phase # "await_login" =>
           complete(Len(consumed)) /\ "PASS" \in Kinds(SubSeq(consumed, 1, first))
      /\ outcome = "no_password" =>
           /\ complete(Len(consumed)) /\ "PASS" \notin Kinds(consumed)
           /\ ~complete(Len(consumed) - 1)

(* A refused client has been told: the numeric has left the write buffer   *)
(* when the connection is dropped (irc/mod.rs:99, bridge/mod.rs:99).       *)
RefusedAreTold ==
  outcome \in {"no_password", "invalid_password"} /\ client # "gone" =>
    received \o outbox = OwnLine(1)

(* From the end of the registration until the first sync is handled no     *)
(* line is taken from the client (bridge/mod.rs:70).                       *)
NothingHandledBeforeSync ==
  [][phase # "await_login" /\ is_first_sync => UNCHANGED <<consumed, read_buffer>>]_lvars

(* Lines sent while the session was not reading are taken in the end, even *)
(* if no further sync and no further line comes: the first sync wakes the  *)
(* task (bridge/mod.rs:272).  Or the session ends.                         *)
LinesSurviveLogin ==
  \A n \in LineNumbers : n \in Range(LeftWhole) ~> (n \in Range(consumed) \/ pc = "dropped")

(* A client that goes away ends the session, at any stage of the login. *)
SessionEndsWithClient == client # "open" ~> pc = "dropped"
=============================================================================
