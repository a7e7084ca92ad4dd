------------------------------- MODULE Server -------------------------------
(***************************************************************************)
(* The process: the accept loop of src/src/main.rs, the task it spawns for *)
(* every connection (TLS handshake, Bridge::create, the session), and the  *)
(* tasks that HttpClient::new spawns on the same reactor (src/src/http.rs: *)
(* 133): one when a login is sent, one when it is accepted.  They are never*)
(* stopped: each keeps a connection to the homeserver, or dials one, until *)
(* the process ends.                                                       *)
(*                                                                         *)
(* A session is seen only through its stages and the messages it has handed*)
(* to its first HttpClient.  That no session panics, which would end the   *)
(* process as well, is what Bridge!NoPanic says.                           *)
(***************************************************************************)
EXTENDS Integers, FiniteSets, Sequences

CONSTANTS Clients,
          Tls,              \* the listener has a certificate
          MaxDescriptors,   \* descriptors the process may have open
          MaxMessages,      \* messages a session sends
          MaxFailures       \* deaths of connections to the homeserver

ASSUME ServerAssumption ==
  /\ IsFiniteSet(Clients) /\ Tls \in BOOLEAN
  /\ MaxDescriptors \in Nat \ {0} /\ MaxMessages \in Nat /\ MaxFailures \in Nat

VARIABLES
  process,     \* "up", or why `l.run(done).unwrap()` panicked: "full", "network"
  backlog,     \* clients in the listen queue of the kernel
  stage,       \* how far the task of a client is
  open,        \* clients whose socket the process holds
  dialers,     \* ReconnectingStream tasks: <<client, "account">>, <<client, "sync">>
  connected,   \* those with a connection
  unsettled,   \* per client: messages neither answered nor failed
  sent,        \* per client: messages said
  failures     \* counter of MaxFailures

vars == <<process, backlog, stage, open, dialers, connected, unsettled, sent, failures>>

(* The stages of a task that runs; one that is failing ends when it is     *)
(* polled next.                                                            *)
Serving == {"handshake", "registering", "login", "failing", "session"}

Init ==
  /\ process = "up" /\ backlog = <<>>
  /\ stage = [c \in Clients |-> "away"]
  /\ open = {} /\ dialers = {} /\ connected = {}
  /\ unsettled = [c \in Clients |-> 0] /\ sent = [c \in Clients |-> 0]
  /\ failures = 0

Up == process = "up"

(* The listener, the clients' sockets and the connections to the homeserver.*)
Full == 1 + Cardinality(open) + Cardinality(connected) >= MaxDescriptors

-----------------------------------------------------------------------------
(* The accept loop.                                                        *)

(* External: a client connects, which the kernel does alone. *)
Connect(c) ==
  /\ Up /\ stage[c] = "away"
  /\ stage' = [stage EXCEPT ![c] = "waiting"]
  /\ backlog' = Append(backlog, c)
  /\ UNCHANGED <<process, open, dialers, connected, unsettled, sent, failures>>

(* Mutant: the future is returned to for_each and not spawned. *)
AcceptAndWait ==
  /\ Up /\ backlog # <<>> /\ ~Full
  /\ \A c \in Clients : stage[c] \notin Serving
  /\ stage' = [stage EXCEPT ![Head(backlog)] = IF Tls THEN "handshake" ELSE "registering"]
  /\ open' = open \cup {Head(backlog)}
  /\ backlog' = Tail(backlog)
  /\ UNCHANGED <<process, dialers, connected, unsettled, sent, failures>>

(* A connection is accepted and its future spawned. *)
Accept ==
  /\ Up /\ backlog # <<>> /\ ~Full
  /\ stage' = [stage EXCEPT ![Head(backlog)] = IF Tls THEN "handshake" ELSE "registering"]
  /\ open' = open \cup {Head(backlog)}
  /\ backlog' = Tail(backlog)
  /\ UNCHANGED <<process, dialers, connected, unsettled, sent, failures>>

(* An error of accept ends for_each, and the unwrap the process. *)
AcceptFails ==
  /\ Up /\ backlog # <<>>
  /\ process' \in (IF Full THEN {"full"} ELSE {"network"})
  /\ UNCHANGED <<backlog, stage, open, dialers, connected, unsettled, sent, failures>>

-----------------------------------------------------------------------------
(* The task of a connection.                                               *)

(* Mutants: the socket is kept; the session's HTTP client is dropped with  *)
(* it.                                                                     *)
EndTaskLeaking(c) ==
  /\ stage' = [stage EXCEPT ![c] = "ended"]
  /\ UNCHANGED <<open, dialers, connected>>
EndTaskWithDialers(c) ==
  /\ stage' = [stage EXCEPT ![c] = "ended"]
  /\ open' = open \ {c}
  /\ dialers' = {d \in dialers : d[1] # c}
  /\ connected' = {d \in connected : d[1] # c}

(* The future ends, with an error or not: it is dropped with all it owns,  *)
(* which the spawned tasks are no part of.                                 *)
EndTask(c) ==
  /\ stage' = [stage EXCEPT ![c] = "ended"]
  /\ open' = open \ {c}
  /\ UNCHANGED <<dialers, connected>>

Handshake(c) ==
  /\ Up /\ stage[c] = "handshake"
  /\ stage' = [stage EXCEPT ![c] = "registering"]
  /\ UNCHANGED <<process, backlog, open, dialers, connected, unsettled, sent, failures>>

(* await_login is done; MatrixClient::login makes a client for the login.  *)
Register(c) ==
  /\ Up /\ stage[c] = "registering"
  /\ stage' = [stage EXCEPT ![c] = "login"]
  /\ dialers' = dialers \cup {<<c, "account">>}
  /\ UNCHANGED <<process, backlog, open, connected, unsettled, sent, failures>>

(* The login is accepted; MatrixClient::new makes the client of the sync.  *)
LoggedIn(c) ==
  /\ Up /\ stage[c] = "login" /\ <<c, "account">> \in connected
  /\ stage' = [stage EXCEPT ![c] = "session"]
  /\ dialers' = dialers \cup {<<c, "sync">>}
  /\ UNCHANGED <<process, backlog, open, connected, unsettled, sent, failures>>

(* PRIVMSG in a session. *)
Say(c) ==
  /\ Up /\ stage[c] = "session" /\ sent[c] < MaxMessages
  /\ unsettled' = [unsettled EXCEPT ![c] = @ + 1]
  /\ sent' = [sent EXCEPT ![c] = @ + 1]
  /\ UNCHANGED <<process, backlog, stage, open, dialers, connected, failures>>

(* The handshake fails, the client leaves, a login or a sync is refused.   *)
(* Nothing ends a login while the homeserver cannot be reached.            *)
Finish(c) ==
  /\ Up /\ stage[c] \in Serving
  /\ stage[c] = "login" => <<c, "account">> \in connected
  /\ EndTask(c)
  /\ UNCHANGED <<process, backlog, unsettled, sent, failures>>

-----------------------------------------------------------------------------
(* The tasks of HttpClient.                                                *)

DialUp(d) ==
  /\ Up /\ d \in dialers \ connected
  /\ ~Full
  /\ connected' = connected \cup {d}
  /\ UNCHANGED <<process, backlog, stage, open, dialers, unsettled, sent, failures>>

(* The connection dies and is dialled again.  The oldest few requests fail,*)
(* and a login with them.                                                  *)
ConnectionDies(d) ==
  /\ Up /\ d \in connected /\ failures < MaxFailures
  /\ connected' = connected \ {d}
  /\ failures' = failures + 1
  /\ \/ /\ d[2] = "account"
        /\ \E n \in 0 .. unsettled[d[1]] : unsettled' = [unsettled EXCEPT ![d[1]] = n]
        /\ stage' = [stage EXCEPT ![d[1]] = IF @ = "login" THEN "failing" ELSE @]
     \/ /\ d[2] = "sync"
        /\ UNCHANGED <<unsettled, stage>>
  /\ UNCHANGED <<process, backlog, open, dialers, sent>>

(* The homeserver answers the oldest message. *)
Settle(c) ==
  /\ Up /\ unsettled[c] > 0 /\ <<c, "account">> \in connected
  /\ unsettled' = [unsettled EXCEPT ![c] = @ - 1]
  /\ UNCHANGED <<process, backlog, stage, open, dialers, connected, sent, failures>>

-----------------------------------------------------------------------------
Next ==
  \/ Accept \/ AcceptFails
  \/ \E c \in Clients : \/ Connect(c) \/ Handshake(c) \/ Register(c) \/ LoggedIn(c)
                        \/ Say(c) \/ Finish(c) \/ Settle(c)
  \/ \E d \in dialers : DialUp(d) \/ ConnectionDies(d)

(* The reactor polls the listener and the dialers, and the homeserver takes*)
(* connections and answers.  Clients may hang in any stage.                *)
Spec ==
  /\ Init /\ [][Next]_vars
  /\ WF_vars(Accept \/ (Full /\ AcceptFails))
  /\ \A c \in Clients : /\ WF_vars(Settle(c))
                        /\ WF_vars(<<c, "account">> \in dialers /\ DialUp(<<c, "account">>))

-----------------------------------------------------------------------------
(* Properties.                                                             *)

(* The process fails for want of descriptors only by what it serves and by *)
(* the logins there have ever been: a connection that got no further than  *)
(* the handshake or the registration costs nothing once it has ended, a    *)
(* login one connection to the homeserver for ever, a session two.         *)
FullOnlyByLogins ==
  process = "full" =>
    1 + Cardinality({c \in Clients : stage[c] \in Serving}) + Cardinality(dialers)
      >= MaxDescriptors

(* A client that connects is accepted, however many others hang in the     *)
(* handshake, the registration or the login ("otherwise we'd block the     *)
(* stream of incoming connections", main.rs:216), unless the process ends. *)
EveryoneIsAccepted ==
  \A c \in Clients : stage[c] = "waiting" ~> (stage[c] # "waiting" \/ ~Up)

(* What a user said before he left still goes out: it is answered, or fails*)
(* with the connection, in the end, although the session has ended.  Unless*)
(* the process ends, or has no descriptor left to dial with.               *)
LastWordsAreSettled ==
  (\A c \in Clients : unsettled[c] > 0 ~> (unsettled[c] = 0 \/ ~Up)) \/ <>[]Full
=============================================================================
