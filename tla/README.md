# A verification project for matrix-ircd

matrix-ircd lets IRC clients use Matrix: a client that connects and logs in gets a *session*,
which logs in to a homeserver with the client's name and password, follows the account's rooms
through the homeserver's sync API and shows each as an IRC channel. This directory holds TLA+
modules of the code, the TLC configurations that check them, and proofs for TLAPS. Line numbers
refer to the files below `src/src/`.

Contents: [the system](#the-system), [the modules](#the-modules), [the runs](#the-runs),
[fairness](#fairness), [findings](#findings), [proofs](#proofs), [not modelled](#not-modelled),
[plan](#plan).

## The system

| component | state | operations | module |
|---|---|---|---|
| `main.rs` | listener, one task per connection | accept, TLS handshake, spawn a session | `Server` |
| login (`stream_fold.rs`, `irc/mod.rs:58`, `bridge/mod.rs:71`) | NICK, USER, PASS seen so far | collect, password check, `MatrixClient::login` | `Login` |
| `Bridge` (`bridge/mod.rs:43`) | `is_first_sync`, `joining_map`, the objects below | `poll_irc`, `poll_matrix`, one task per JOIN | `Bridge` |
| `MappingStore` (`bridge/mod.rs:316`) | four maps: room id ↔ channel, user id ↔ nick | insert, look up, make a unique name | `Names`, `Bridge`, `NameRegistry` |
| `ServerModel` (`irc/models.rs`) | channels with members, users with channels | `create_user`, `add_channel`, `get_members` | `Bridge` |
| `IrcUserConnection` (`irc/mod.rs`) | the model above, the transport | answers PING, JOIN, WHO, MODE, AWAY; writes lines | `Bridge` |
| `IrcServerConnection` (`irc/transport.rs`) | read and write buffer, `closed` | `write_line`, `poll_read`, `poll_write` | `IrcTransport`, `OrderedDelivery` |
| IRC protocol (`irc/protocol.rs`) | none | parse a line, make a command of it | `IrcGrammar` |
| `MatrixClient` (`matrix/mod.rs`) | rooms, an HTTP client | login, sync, send, join | `Login`, `Bridge`, `MatrixSend` |
| `MatrixSyncClient` (`matrix/sync.rs`) | `next_token`, `current_sync`, an HTTP client | `poll_sync` | `MatrixSync`; `Bridge` has the outcome |
| `Room` (`matrix/models.rs`) | state events, members | `from_sync`, `update_from_sync` | `MatrixRoom` |
| `HttpClient` (`http.rs`) | queue, registered task, connection, pending requests, write buffer | `send_request`, poll, reconnect | `HttpClient`, `RequestService` |
| `HttpParser` (`http.rs:300`) | buffer, state, partial response | `poll_for_response` | `HttpParser` |

How they interact. Everything runs on one thread, the tokio `Core` of `main.rs`; nothing is
interrupted in the middle of a poll. A session is one task with an executor of its own
(`TaskExecutorQueue`) for `poll_irc`, `poll_matrix` and the JOINs that wait for an answer. It owns
all its objects, so that calls between them are plain calls. Each HTTP client is a second task
(`ReconnectingStream`), which shares a locked queue with it: `send_request` puts a request in and
notifies the task, the task completes the request's oneshot. A session has two HTTP clients and so
two connections: one for the sync, one for login, joins and sends, so that what happens on the two
arrives in any order. The homeserver and other users are outside.

Hard behaviours, and where they are looked at:

- the answer to a JOIN and the sync that brings the room race (`joins`);
- own messages come back through the sync, timelines are cut (`talk`);
- names people choose collide with each other and with names made from them (`names`);
- two models of the IRC side are updated in turn, one of them with fatal assertions (`names`);
- a connection dies with requests answered, sent, half written and queued on it, the task sleeps
  and must be woken, the socket fills (`send`, `http_full_socket`);
- messages go out without waiting for each other, with transaction ids that may repeat (`send`);
- bytes arrive and leave in any pieces, the end of the connection anywhere among them
  (`transport`, `http_parser`);
- three tasks share one socket and are woken by it and by each other (`transport`, `login`);
- the client goes on talking while the bridge waits for the homeserver (`login`);
- a sync is lost before or after the homeserver has answered it (`sync_loop`);
- sessions share a listener, a reactor and the descriptors of a process, and leave tasks behind
  (`server`);
- spaces and colons mean different things in different places of a line (`grammar`).

What makes each component correct:

- *MappingStore*: the maps of a pair are inverse, an id keeps its name, no two share one.
- *ServerModel*: it knows what MappingStore knows; channel and user lists mirror each other; the
  assertions never fire.
- *Bridge*: no JOIN is forgotten or answered before its channel exists; every room of a sync gets
  a channel; every line of a member is read once, in order, in its channel.
- *Room*: the member list is that of the room's state (it is not: see [findings](#findings)).
- *HttpClient*: an answer goes to its request; a request is settled once, sent once, and settled in
  the end (with a socket smaller than a request it may hang).
- *MatrixClient*: a message that counts as sent is in the room, once, and in the order it was typed.
- *IRC protocol*: a line is read as the message format of IRC has it; texts arrive whole.
- *IrcServerConnection*: lines are taken and written whole, once and in order however bytes travel;
  the length limit falls on the same line however they arrive; the task never sleeps while there is
  something to read or to write.
- *Login*: the homeserver is asked only with a password, a refused client is told, and lines that
  come early are neither handled early nor lost.
- *HttpParser*: it returns the same responses however bytes arrive, with their bodies and as soon as
  they are whole (not so a body that ends with the connection, which is lost).
- *MatrixSyncClient*: it hands over every batch once, in order, and repeats only what failed.
- *main*: nobody keeps others from being accepted; what has ended leaves nothing but the connections of
  its logins; what a user said before he left still goes out.

## The modules

### Names, MatrixRoom: data

`Names` abstracts text. A name is a sequence of chunks (runs of characters that the bridge keeps
or strips) with the bracketed numbers the bridge appends, so that a user's own "bob[1]" and a
numbered "bob" are the same name. `UniqueName` is the search loop of `bridge/mod.rs:380` and `:452`;
`FreeNumbers` bounds it by the number of taken names, which `BridgeProofs` shows to be enough.

`MatrixRoom` is `matrix/models.rs`: `Applied` inserts the state events of a sequence one after
the other, `from_sync`, `update_from_sync` and `recalculate_members` keep their names. Members that
left are not taken out, and the test with the type `m.room_member` is kept as it is written.

### NameRegistry: what the name tables promise

A function from ids to names that only grows, never renames, and is injective. `Bridge` instantiates
it twice, for nicks and for channels.

### Bridge: a session

State: the fields of `Bridge` (`is_first_sync`, `joining_map`), `MatrixClient::rooms`, the four maps,
`ServerModel`'s `channels` and `users` (a channel maps nicks to the operator flag, a user has a user
id and channels); the lines written to the client (`irc_out`, a history); requests in flight on the
second connection in pipeline order and answers the JOIN tasks have not looked at; the homeserver's
event log per room, the prefix of it that a sync has delivered (`left_out` says which events of it no
timeline held), and the account's rooms.

| action | code |
|---|---|
| `SyncResponse`, `HandleKnownRoom`, `HandleNewRoom`, `SyncDone` | `poll_matrix`: `MatrixClient::poll_sync`, then `handle_sync_response` room by room in `BTreeMap` order. One response is several actions, but nothing else happens between them (`in_sync`), as on one thread. |
| `SyncError` | `matrix/sync.rs:102-116`: a response that is not 200 or not JSON ends the session |
| `IrcPrivMsg`, `IrcJoin`, `IrcWho`, `IrcReply`, `IrcClosed` | `poll_irc`, `IrcUserConnection::poll`, `handle_irc_cmd` |
| `JoinReply` | the closure of `bridge/mod.rs:148-168`, or the end of the session by an error |
| `ServerHandle`, `Deliver`, `HttpFail`, `ServerEvent` | the homeserver and the connection: external. `HttpFail` is what `HttpClient` does when a connection dies: the oldest requests fail together, the queued ones stay. |

`HandleNewRoom` is the whole of `create_or_get_channel_name_from_matrix` with the names of all
newcomers, `add_channel` and the lines it writes, the redirect and the timeline. `NickChoices` gives
the names of newcomers as a set, because each depends on those given before it: the set has one
element, for which the next state is a plain function of the state.

Abstracted: the lines of a JOIN (join, topic, names, mode) are one; `m.file`, `m.audio`, `m.video`
are as `m.image`; topics, masks, modes and PING data are left out; JSON is a record of the keys the
code looks at.

### RequestService and HttpClient

`RequestService` is what senders may rely on: requests are answered from the oldest on, or the
oldest few fail together, each once. `HttpClient` is `http.rs:35-297`: the shared queue with the
registered task, `ReconnectingStream` (connecting, connected), the handler's pending requests and
write buffer. A poll is cut at each look at the socket (`pc`), because the network and the server
go on meanwhile; `send_request` runs only between polls, on the same thread. External: a socket that
holds `SendBuffer` units (a request takes `Parts`), a server that reads, answers in order, closes,
resets (answers get lost) or closes with a notice nobody asked for, and that may carry out late what
was sent to it on a connection that is gone (`stray`). `BreakUp` is every way a handler ends.
The queue is emptied by one request at a time, which nothing can see.

### MatrixSend: what becomes of messages

Extends `HttpClient`: request n is the n-th PRIVMSG. `send_text_message` draws its transaction id, of
which only matters whether an earlier message has it (16 random bits in the code); the homeserver adds
a message to the room when it carries out a request with a new id. Each send is a future of its own
on the reactor (`bridge/mod.rs:133`), so that the end of the session changes nothing here.

### OrderedDelivery

What a stream promises: items are taken whole, once and in the order they were sent, any number at a
time. `IrcTransport`, `MatrixSync` and `HttpParser` each instantiate it with histories of their own.

### IrcTransport: the IRC socket

`irc/transport.rs`: `PollStart` and `PollRead` are `Stream::poll`, cut at each look at the socket;
`PollWrite` is `poll_write` with its `Cursor` (`write_buffer`, `position`), `WriteLine` is
`write_line` with the notification of the task that polled last. Text is units; the last unit of a
line is its newline, and a line has a kind (what `from_utf8` and `IrcCommand::from_str` make of it).
`Scripts` says what a client sends. `poll_write` is one step: what the client takes away while it
runs could be taken away before or after. External: the socket (bounded towards the client,
`SendBuffer`), the client, who sends unit by unit, reads, finishes or resets at any point, and the
reactor, which wakes the task once for each interest registered. `Poll`, `Sleep`, `Answer`, `Drop`
and `OtherWrites` are the least reader there can be; `Login` has the real one.

### Login: up to a running session

Extends `IrcTransport` with `await_login` over `StreamFold`, `MatrixClient::login`, `Bridge::create`
and, of the session, who polls what: `phase` says which future holds the stream. `PollTask` is the
executor polling the session's task; it polls `poll_irc` and then `poll_matrix`. While
`MatrixClient::login` is under way and before the first sync is handled nobody reads the stream, so
that wake-ups of the socket are used up; what wakes the reader afterwards is that the first sync
writes lines (`write_line` notifies). The three answers to a login are accepted, forbidden (401 or 403) and
any other failure.

### MatrixSync: the sync loop

`matrix/sync.rs`, a turn of the loop of `poll_sync` per action. Events of the account are numbers, a
token is a position in them. The homeserver returns what happened since the token of the request; a
request can be cancelled whether it was answered or not (`RequestService`).

### HttpParser: responses out of bytes

`poll_for_response` and `read_into_vec`, a turn of the loop per action; `NeedsMore` is the case that
nothing can be made of the buffer. Units name what they are (head, size line, body, line end, junk),
and `httparse`, external, says complete, partial or error of them. The history `returned` has the
responses handed out, each with the number in its head and its data. A response that ends with the
connection is returned without its body, as the code does, which leaves the body in the buffer
(`http.rs:415`): `ReturnsInOrder` is about heads, `BodiesOfKnownLength` about the bodies of the other
responses, and nothing is claimed of a body that ends with the connection. Left out of the scripts are trailers behind
the last chunk, which the code would take for the next head (`http.rs:432`), and more than 32 headers.

### IrcGrammar: lines into commands

`irc/protocol.rs`: a rule of the PEG is an operator of the same name, a function of the line and a
position; `Star` is the greedy repetition, and a part that fails gives back what it took. A line is
a sequence of units: a run of capital letters, a digit, a colon, a space, another character the
grammar takes, and one it takes nowhere. `from_irc_line` picks the arguments of a command as the code
does, by `nth` on an iterator that remembers where it is.

### Server: the process

`main.rs` and the tasks of `HttpClient::new`. A client's task has a stage: handshake, registering,
login, session. `Accept` is the closure of `for_each` with the `spawn`; `EndTask` is the drop of the
future; `Register` and `LoggedIn` are where an HTTP client is made and its `ReconnectingStream`
spawned, which nothing stops. `AcceptFails` ends `for_each` and by `unwrap` the process, for want of
descriptors or for another error. External: the kernel's listen queue and limit of descriptors, the
homeserver. A session is seen only through the messages it has handed to its HTTP client.

Definitions next to an original that are marked as mutants are not part of any specification: each
is a plausible error, with which the property named in `PROJECT.json` fails.

## The runs

`MCBridge` holds the scenarios; users, rooms and chunks are model values. Rooms and users are
ordered (`RoomOrder`, `UserOrder`), as in `BTreeMap`, so that there is no symmetry to use.

| run | properties | bounds | shows |
|---|---|---|---|
| `names` | `TypeOK`, `NoPanic`, `TablesInverse`, `TablesAgreeWithServer`, `MembershipBothWays`, `NicksAreRegistered`, `ChannelsAreRegistered` | 3 rooms, 2 strangers; all combinations of 6 room names and 6 kinds of member events | names that collide, before and after stripping, with numbers, with the own nick; 3 rooms are needed for "[2]" and for a name that is numbered already |
| `joins` | `JoiningHasNoChannel`, `KnownRoomsAreOnIrc`, `JoinedBeforeUse`, `JoinsAreAnswered` | 3 commands, 1 lost connection, a known room and a new one under 2 aliases | all orders of requests, answers and syncs; every JOIN is answered, see [fairness](#fairness) |
| `talk` | `HeardExactly`, `ChannelMirrorsRoom` | 2 rooms, 5 events of others, timelines of 2, 1 command, a refused JOIN, 1 lost connection | no line of a timeline twice, lost, misplaced or echoed |
| `dropped_sender` | `DroppedSenderIsNotInRoom` | as `talk`, no cut timelines | violated: a finding |
| `send` | `AtMostOnce`, `SleepsOnlyWhenIdle`, `AcknowledgedIsSaid`, `SaidInOrder`, `IsRequestService`, `SettledInTheEnd` | 3 requests of 2 units, socket of 3, 2 failures | answers go to their requests across reconnects, nothing is sent twice, no wake-up by a request, an answer or an end is lost; acknowledged messages are in the room, in order; every request is settled in the end |
| `http_full_socket` | `CancelledOnlyIfConnectionDies` | 2 requests, socket of 1 unit, no failures | violated: a finding |
| `transport` | `OutputIntact`, `LengthLimit`, `SleepsOnlyWhenIdle`, `TakesLinesInOrder`, `LinesGetThrough` | any 2 lines of 6 kinds and lengths, or one and a rest; read buffer of 3 units, socket of 3, 2 lines of other tasks | lines go through whole, once, in order and in the end, wherever bytes are cut and the stream ends |
| `login` | `LoginNeedsPassword`, `RefusedAreTold`, `NothingHandledBeforeSync`, `LinesSurviveLogin`, `SessionEndsWithClient` | all scripts of 2 or 3 commands, 27 of 4; 2 syncs | registrations in all orders and pieces, with all answers of the homeserver |
| `sync_loop` | `HandsOverInOrder`, `KeepsUp` | 4 events, 3 lost connections | no event is skipped or repeated |
| `http_parser` | `BodiesOfKnownLength`, `NothingHeldBack`, `ErrorsAreJustified`, `ReturnsInOrder` | 2 or 3 responses of all framings, bodies of 0 to 3 units | the same responses however the bytes arrive |
| `server` | `FullOnlyByLogins`, `EveryoneIsAccepted`, `LastWordsAreSettled` | 3 clients, 6 descriptors, 1 message each, 1 lost connection | clients that hang, fail or leave in any stage harm nobody else, but logins add up |
| `grammar` | `ParsesAsSplit`, `TextsArriveWhole` | lines of 6 of 7 kinds of units, of 8 of 4 kinds | the grammar is splitting at spaces and at the first colon |

Deadlock is not checked: a session may end, and a bounded client comes to rest.

The bounds are enough in this sense: two JOINs under different names and a third command meet in every
order with one sync; a failure hits every prefix of the pipeline; two failures of the HTTP connection
let a request be queued over one reconnect and pending over the next, and three requests can be
answered, sent and queued at once. In `send` the socket holds a request and the first unit of the next,
so that writes are cut but whatever fills the socket has the end of a request in it, the answer to which
wakes the task (`SettledInTheEnd`). With a socket smaller than a request, as with a long message,
requests can hang: the server reads what was sent and waits for the rest, which nothing wakes the task
to write. The property says so in its premise, and no run is about such sockets. `names` needs no steps
beyond the first sync, because names are only made when a room is new, and starts from all combinations
instead. A read buffer of three units has lines below, at and above its limit (`BufferSize` is 2048 in
the code, and nothing depends on the number); two lines show what is left in the buffer after one; a
socket of three units cuts a line of two. Two responses show what is left over by the first, a third
what is left over by an empty one. `NICK`, `USER` and `PASS` need three commands for all orders, and a
fourth that follows. With six descriptors three clients can use them up by sockets, by logins or by
both, and two cannot; a third client waits while one hangs and one holds the descriptors. Timelines of
two events, of five, leave room for a cut before, between and behind events that are shown. A line of
eight units has three parameters with spaces to spare, or a source, a command, a parameter and a last
argument.

## Fairness

`Bridge!Fairness`: the homeserver syncs in the end and a response that is in is handled to its end (a
poll does not stop half way); the homeserver carries out requests and its answers arrive (external); a
task that has an answer is polled (`TaskExecutorQueue`). No fairness is assumed of `SyncError`,
`IrcClosed`, `HttpFail`, the IRC client or other users. A session may end instead, which the
properties allow.

`MatrixSend!SendSpec` (as `HttpClient!FairSpec`): the executor polls a woken task and a poll goes on; a
dial ends (refusals are bounded by `MaxFailures`, so that one succeeds in the end); the server reads and
answers. Nothing is assumed of connections closing or of late requests.

`IrcTransport!Fairness`, `Login!LoginFairness`: the executor polls a woken task and a poll goes on; in
`transport` a client that lives reads what it is sent and sends the rest of its lines, in `login` the
client owes nothing (it may stop in the middle of a line and never read) and the homeserver answers
the login and the first sync. `MatrixSync!FairSpec`: a woken task is polled and the homeserver
answers; lost connections are bounded by `MaxFailures`. `Server!Spec`: the reactor polls the listener
and a task that dials; the homeserver takes connections and answers a connection that holds. Nothing
is assumed of clients or of sessions: each may hang in its stage for ever.

## Findings

1. `update_from_sync` refreshes the members only when an event has the type `m.room_member`
   (`matrix/models.rs:67`, `:82`), which no event has. A user who joins a known room gets no nick;
   what he says is dropped with the warning "Sender not in room" (`bridge/mod.rs:227`).
   `ChannelMirrorsRoom` shows the other side: repaired alone, the spelling would let the member list
   run ahead of the IRC channel, which is filled only once.
2. A full socket is taken for a dead connection (`http.rs:267`): all pending requests are cancelled
   although the comment (`http.rs:37`) has that happen when the connection dies.

Behaviour the properties make visible without a document that contradicts it: the first of two JOINs
under different aliases may stay without an answer (`JoinSuperseded`); a refused JOIN ends the session;
a request longer than the socket's buffer can wait for ever (`http.rs:266`, the premise of
`SettledInTheEnd`); a message whose transaction id was drawn before is swallowed (`AcknowledgedIsSaid`);
a body that ends with the connection is lost, and taken for the next head (`http.rs:415`, the premise of
`BodiesOfKnownLength`); an error of the listener ends the process, and each login takes up to two
descriptors for good (`FullOnlyByLogins`).

## Proofs

The theorems hold for all values of the constants. What is assumed of them:

| module | assumption | why the code justifies it |
|---|---|---|
| `Bridge` | `UsersAssumption`, `UserOrderAssumption`: finitely many users, totally ordered | user ids are strings in a `BTreeMap` |
| | `HomeserverAssumption`: the homeserver's rooms and events are those of the constants | nothing else can come |
| | `EventsAssumption`: no event has the type `m.room_member`; a body is text | the Matrix specification, where the type is `m.room.member`; its prefix `m.` is reserved |
| | `BoundsAssumption`: bounds are numbers | |
| `MatrixSync`, `Server` | `SyncAssumption`, `ServerAssumption`: bounds are numbers, clients finitely many | |
| `HttpClient` | `BoundsAssumption`: bounds are numbers, a request has at least one unit | a request has a request line |
| `IrcTransport` | `SizesAssumption`: a read buffer, a line and the socket's buffer have at least one unit | 2048 bytes; `\r\n`; any socket |
| | `ScriptsAssumption`: a client sends lines, each with its newline, and perhaps a rest | what a client can send is bytes |
| `HttpParser` | `ScriptsAssumption`: a body with a length or without is one piece; the size of a chunk is not 0; nothing follows a response that is broken or has no length | a size of 0 is the last chunk (`http.rs:434`); behind such a response nothing can be told apart |
| `Login` | `LoginAssumption`: the first sync writes at least one line | the welcome (`bridge/mod.rs:272`) |
| `IrcGrammar` | `AlphabetsAssumption`: what is typed is made of the units of the rules and of "bad" | "bad" stands for all that the rules take nowhere |

Nothing is assumed of names, aliases, state events or the order of rooms, of the order or the kinds of a
client's lines, of the pieces bytes arrive in, or of transaction ids.

`SequenceLemmas` stands in for induction, which the provers cannot instantiate: a set of numbers that
has an element has a least one (`LeastNumber`, from the well-foundedness of the numbers), so that a
set with 0 and the successor of each of its elements has them all (`FromZeroOn`). From that follows
what `FlattenSeq`, a recursive function, does to sequences that grow (`FlattenSeqAppend`), are joined
(`FlattenSeqConcat`) or mapped (`FlatMap...`). The last part is about sequences that are cut:
`Behind(s, n)` is what remains of s after n elements. The models use `FlattenSeq` where the code filters
(`Filtered` for `Vec::retain`) and name the last of a kind by CHOOSE (`LeftWhole`), because
`SelectSeq` cannot be reasoned about in this way.

### BridgeProofs

- `UniqueNameIsFree`: numbered variants of a name differ (`NumberedIsInjective`), so that among one
  more than there are taken names one is free (`FreeNumberExists`, by counting), and the least free
  one exists.
- `Invariance`: `Spec => []IInv`, where `IInv` is `TypeOK`, `NoPanic`, `Tables` and `Rooming`. The
  checked invariants are not inductive. `ServerModelClosed` adds that the tables are finite (the
  search needs it), that members of channels are users and channels of users exist (without it a new
  channel could appear in an old user's list); `MembersAreUsers` that room members are users of the
  model; `Rooming` that nothing is left of a response when it is done. The one step that changes
  tables is `NewRoomKeepsTables`: newcomers get new and different nicks (`NickChoicesAreNew`, which
  is where the order of users is needed), and inverse tables stay inverse under fresh pairs
  (`InsertKeepsInverse`, `ExtensionKeepsInverse`). `StepKeepsTables`, `StepKeepsRooming`,
  `StepKeepsType` have a step per action.
- From it: `TypeCorrect`, `NeverPanics`, `TablesStayInverse`, `ModelsAgree`, `MembershipIsMutual`,
  `RoomsAreTracked`, `KnownRoomsReachIrc`, and the refinements `NicksImplementRegistry`,
  `ChannelsImplementRegistry`.
- `ChannelsMirrorRooms`, `ChannelsAreJoinedFirst`, `SpeechIsHeard`: what the client sees, each from an
  invariant that rests on those before it. `MirrorInv` adds to the mirror that operator flags are
  flags. `LinesInv` says of the lines written so far that a JOIN of their channel stands before each,
  and that channels of the model were joined; each handler appends lines that keep it. `HeardInv`
  says, for a room that has a channel, that what was heard there is what the delivered part of the
  room's log says, without the own messages and what no timeline held, and what the timeline that is
  being handled will add; a new room's timeline is handled whole.

### MatrixSyncProofs, ServerProofs

- `TokenStaysUpToDate` and `LoopImplementsDelivery`, from an invariant that adds what the checked ones
  lack: a good answer that waits continues exactly at the token, although more may have happened since
  it was given (`AnswerContinues`), and what was handed over is all that happened before the token
  (`DeliveredToToken`).
- `DescriptorsAreAccountedFor`, from the invariant that the process holds the sockets of those it
  serves and no others, that connections belong to dialers, and that a process which failed so was
  out of descriptors; then by counting.

### HttpClientProofs

About `HttpClient` and `MatrixSend`.

- `ClientImplementsService`, that is the property `IsRequestService` of the run `send`, for any number
  of requests, failures and units. That an answer goes to the request it is the answer to rests on
  nothing but order, over four queues: the requests pending in the handler, its write buffer, the
  socket, and what the server has read but not answered. The invariant (`Pipeline`) says that on an
  open connection the pending requests are, from the oldest on, answered, read by the server, or lie
  as units in socket and buffer, in order with none missing (`Flow`; the first may be cut in the
  middle). What lies in the socket for the client are the answers to its oldest requests, with a
  notice perhaps (`AnswersInOrder`), also when it is closed: then the requests behind them are failed
  and not answered by what follows. One lemma per step that touches the queues keeps the invariant,
  and `StepImplementsService` maps each step to one of `RequestService`.
- `RequestsAreServedOnce`: `OnceInv` says that requests are in the order of their numbers from the queue
  through buffer and socket to the server, and that what was carried out, or may be late, was sent
  before all that is on its way (`Order`): connections come one after the other, and each is a queue.
  `TaskIsWoken` covers requests, answers, the end of the connection and the dial, and not a rest of the
  write buffer (`http.rs:266`): `AwakeInv` says, for each place a poll can be in, which of these reasons
  to be woken the task has registered by then.
- `SentMessagesAreSaid`, `SentMessagesKeepOrder`: `AnswersInv` (only what was carried out is answered,
  and by its own answer) and `RoomInv` (the room has what was carried out, or an earlier message with
  its id; what follows an answered message in the room is later, or is late and never answered), on
  top of `Pipeline` and `OnceInv`.

### LoginProofs

The stream of `IrcTransport` is the same whoever reads it. Its input and its output have invariants of
their own, kept by `InputStep` and `OutputStep`; each step of the least reader (`NextSteps`) and of the
session (`LoginSteps`) is one of each, so that what is shown of the stream holds under both.

- `OutputArrivesIntact`: `OutputInv` adds to `OutputIntact` the types and that the socket holds no more
  than it can. `PollWriteMoves` is the heart: what `poll_write` takes out of its buffer behind
  `position` is what it puts into the socket.
- `LinesAreTakenInOrder`, `LoginTakesLinesInOrder`: `InputInv` says that the lines taken are the first
  ones and that buffer, socket and what is to be sent, joined, are what follows them (`CutInv`), and
  that what is to be sent begins in the middle of one of the texts (`UnsentInv`). A client that dies
  takes what is in the socket along, which is why something may be `lost` in between. The first
  newline in the buffer then ends the next line (`BufferHolds`).
- `LimitIsOfLines`: from `InputInv` and from what a stream that failed has in its buffer (`FailureInv`).
- `TransportSleepsWhenIdle`: `SleepInv` says, for each place of the poll, what the task has asked for by
  then if nothing is to wake it.
- `NothingIsTakenBeforeSync`: `PhaseInv` says where a poll can be in each phase of the login.
- `LoginAsksWithPassword`: `RegistrationInv` says that what the login has collected is what the lines
  handled so far gave; one line is taken but not handled between `ReadLine` and `Register`.
- `RefusalIsTold`: nothing is written before the session runs but the refusal (`RefusalInv`), and an
  empty socket with room for one line takes it at once. That there is room, `LineSize <= SendBuffer`, is
  assumed in the theorem: with less the property is false, as the connection is dropped without a flush.

### HttpParserProofs

`ParserReturnsInOrder` (the refinement of `OrderedDelivery`), `ParserReturnsOwnBodies` (of responses that
say their length or come in chunks; of a body that ends with the connection nothing is claimed),
`ParserHoldsNothingBack` and `ParserErrorsAreJustified`, for any scripts, any number and size of chunks
and any pieces. None of the four is inductive. The invariant, `InvAt(n)` after n responses, says where in
the script the parser is: buffer, what has arrived and what is to be sent, joined (`Way`), are exactly the
rest of the script from the place that `curr_state`, `partial_response` and n stand for (`Place`): a head,
a body, a body that ends with the connection, the i-th chunk or the end of the chunks. So what a guard
reads at the start of the buffer is the piece that comes next there, whole or cut (`PieceOnTheWay`): heads
and sizes are seen for what they are (`HeadIsSeen`, `ChunkIsSeen`), a piece is consumed to its last byte
(`Consumed`), and an error can only be junk that was sent. While a piece is cut, the rest of it is not
sent, which makes the next response not whole (`StillMissing`, `NotWholeYet`): nothing is held back. There
is one lemma per step, `ParseHeadKeeps` to `ServerEndsKeeps`; the responses that were sent whole are the
first ones of the script (`SentWholeIs`, by the least number), so that both sides of the refinement are
counts.

### IrcGrammarProofs

`TextsReachTheBridge`, that is `TextsArriveWhole` for texts of any length. The rule `params` is a
recursion along the line; that it has a solution is shown from the end of the line to its front
(`ParamsExist`), and `ParamsRecur` then lets it be unfolded. Where a repetition ends is the one place
that looks like its end (`StarEnds`). A command as a client writes it is a line of words, each with a
space behind it, a colon and the text (`IsSent`); from the last word to the first, the parameters are
the words that are left (`SentParams`), behind them the text is the trailing parameter, whatever it
holds (`SentTrailing`), and `from_irc_line` picks the right ones (`SaysToTarget`, `SaysRealName`,
`SaysText`).

`GrammarIsSplitting`, that is `ParsesAsSplit` for lines of any length, with any number of spaces and
colons anywhere. The words of a line are given by where they begin and end (`Cut`; every line has a cut,
by induction over the line, `CutExists`), and they are the ones `Words` finds, as both count the same
beginnings (`InOrderIs`, `WordsAre`). A `Frame` is a line that is cut up to its end or its first colon
word. In one each rule takes exactly a word: a repetition that starts in a word ends with it
(`StarInWord`), one that starts behind it ends at the next (`StarToNextWord`), so the parameters are the
words behind the command (`ParamsAreWords`), the trailing one is the rest, if there is one
(`TrailingIsLast`), and a word that is no command leaves the rules stuck inside it (`CommandOfWord`,
`NothingInWord`). What is left is a case each for lines that are blank (`BlankAlike`), that begin with a
command (`UnsourcedAlike`) and with a source (`SourcedAlike`). A line with a character outside the
alphabet of the grammar is refused, because no rule goes past one (`KnownTo`, `UnknownRefused`).

### Only model-checked

All liveness (fairness and ENABLED are beyond the prover): `JoinsAreAnswered`, `SettledInTheEnd`,
`LinesGetThrough`, `LinesSurviveLogin`, `SessionEndsWithClient`, `KeepsUp`, `EveryoneIsAccepted`,
`LastWordsAreSettled`. Every invariant and every action property of a
passing run is stated by a theorem.

## Not modelled

Pure conversions of text: media URLs, JSON and URL encoding, the wording of numerics; the one line of
the grammar that is about characters is kept as a unit (above U+1FFFF, and the control characters it
leaves out, nothing is taken). The widths of integers, the limit of 32 headers and trailers behind the
last chunk in the HTTP parser. The panic of a room whose `state` has an event without a state key
(`matrix/models.rs:35`, `:72`): the homeserver's state events always have one, and `NoPanic` is about the
assertions of `ServerModel`.
In `Bridge` the executor's wake-ups (a task that can go on is taken to be polled; `Login` has them for
the first sync). TLS, certificates, logging and the command line. PART, QUIT, NICK and TOPIC are
ignored by the code once a session runs, as are invites and leaves in a sync.

## Plan

Done: names, session, HTTP client, sends, transport, grammar, login, sync loop, HTTP parser, server,
and the proofs above. What is left: `Login` composed with the answers of the IRC commands, so that
`Bridge`'s lines go through the transport.
