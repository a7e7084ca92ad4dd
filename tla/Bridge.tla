------------------------------- MODULE Bridge -------------------------------
(***************************************************************************)
(* One session of matrix-ircd after login: the Bridge future of            *)
(* src/src/bridge/mod.rs with the objects it owns, the IRC server model    *)
(* (src/src/irc), the Matrix client (src/src/matrix), and the homeserver   *)
(* and the network as the code meets them.                                 *)
(*                                                                         *)
(* The two tasks poll_irc and poll_matrix, and one task per pending JOIN,  *)
(* run on one thread and never interrupt each other.  A sync response is   *)
(* handled room by room: from SyncResponse to SyncDone the session does    *)
(* nothing but HandleRoomSync, and nothing else moves, because what others *)
(* do meanwhile cannot be seen by the code before SyncDone.                *)
(***************************************************************************)
EXTENDS MatrixRoom, SequencesExt

CONSTANTS Rooms,
          UserOrder, RoomOrder, \* BTreeMap order: sets of pairs <<smaller, larger>>
          Me, OwnNick,          \* the user id and the nick of the session
          UserIdText,           \* user ids as texts
          Hash,                 \* the chunk "#"
          Directory,            \* which room an alias leads to, on the homeserver
          InitialLogs,          \* the rooms' event logs when the session starts
          InitiallyJoined,      \* the rooms the account is in at that time
          Incoming,             \* <<room, event>> others may add, each once
          ClientChannels,       \* what the IRC client writes for a channel
          TimelineLimit,        \* events of a room the homeserver puts in a timeline
          MaxCommands,          \* IRC commands considered in a session
          MaxFailures           \* deaths of the HTTP connection considered

ASSUME UsersAssumption == IsFiniteSet(Users) /\ Me \in Users
ASSUME UserOrderAssumption ==
  /\ \A u, v \in Users : u # v => (<<u, v>> \in UserOrder <=> <<v, u>> \notin UserOrder)
  /\ \A u, v, w \in Users :
       <<u, v>> \in UserOrder /\ <<v, w>> \in UserOrder => <<u, w>> \in UserOrder

VARIABLES
  session,            \* "running", or how it ended: "closed", "failed", "panic"
  is_first_sync,
  in_sync,            \* handle_sync_response is at work
  sync_rooms,         \* the rooms of the response still to handle, with timelines
  rooms,              \* MatrixClient::rooms
  room_id_to_channel, channel_to_room_id, matrix_uid_to_nick, nick_matrix_uid,
  joining_map,        \* room joined on the homeserver, not yet seen in a sync
  channels, users,    \* ServerModel: what the IRC server says exists
  irc_out,            \* the lines written to the IRC client, oldest first
  requests,           \* HTTP requests in flight, in pipeline order
  replies,            \* answered join requests the bridge has not looked at
  log, synced, joined,\* homeserver: events per room, delivered prefix, membership
  left_out,           \* the events of that prefix that no timeline held
  commands, failures  \* counters of the bounds

mappings == <<room_id_to_channel, channel_to_room_id, matrix_uid_to_nick, nick_matrix_uid>>
server_model == <<channels, users>>
homeserver == <<log, synced, joined, left_out>>
vars == <<session, is_first_sync, in_sync, sync_rooms, rooms, mappings, joining_map,
          server_model, irc_out, requests, replies, homeserver, commands, failures>>

(* What the homeserver adds to a room for this bridge. *)
OwnMessage(msgtype) ==
  [etype |-> "m.room.message", state_key |-> NoValue, sender |-> Me, own |-> TRUE,
   content |-> [body |-> <<"mine">>, msgtype |-> msgtype]]

OwnMembership ==
  [etype |-> "m.room.member", state_key |-> Me, sender |-> Me, own |-> FALSE,
   content |-> [membership |-> "join"]]

InitialEvents == UNION {Range(rooms_log[r]) : rooms_log \in InitialLogs, r \in Rooms}
Events == InitialEvents \cup {post[2] : post \in Incoming}
            \cup {OwnMessage("m.text"), OwnMessage("m.emote"), OwnMembership}

ASSUME HomeserverAssumption ==
  /\ InitialLogs \subseteq [Rooms -> Seq(InitialEvents)]
  /\ InitiallyJoined \subseteq Rooms
  /\ \A post \in Incoming : post[1] \in Rooms
  /\ Range(Directory) \subseteq Rooms

(* "m.room_member", which update_from_sync looks for, is the type of no    *)
(* Matrix event, and the prefix is reserved.  A body is a text of lines.   *)
ASSUME EventsAssumption ==
  \A event \in Events :
    /\ event.etype # "m.room_member"
    /\ \A key \in {"body", "url"} \cap DOMAIN event.content :
         event.content[key] # NoValue => event.content[key] \in Seq(Range(event.content[key]))
ASSUME BoundsAssumption == TimelineLimit \in Nat /\ MaxCommands \in Nat /\ MaxFailures \in Nat

Running == session = "running"
Idle == Running /\ ~in_sync

-----------------------------------------------------------------------------
(* Mutant: key and value change places. *)
InsertSwapped(map, key, value) ==
  [k \in DOMAIN map \cup {value} |-> IF k = value THEN key ELSE map[k]]

(* BTreeMap::insert and BTreeMap::remove. *)
Insert(map, key, value) ==
  [k \in DOMAIN map \cup {key} |-> IF k = key THEN value ELSE map[k]]

Without(map, key) == [k \in DOMAIN map \ {key} |-> map[k]]

(* Lines to the IRC client.  A JOIN stands for the JOIN, topic, NAMES and  *)
(* mode lines of attempt_to_write_join_response.                           *)
JoinLines(channel, members) == <<[cmd |-> "JOIN", channel |-> channel, names |-> members]>>
ForwardLine(old, new) == [cmd |-> "FORWARD", channel |-> new, old |-> old]
WelcomeLines == <<[cmd |-> "WELCOME"], [cmd |-> "PING"]>>

(* send_message, send_action: a line for every line of the body. *)
SayLines(cmd, channel, nick, body) ==
  [i \in DOMAIN body |-> [cmd |-> cmd, channel |-> channel, nick |-> nick, text |-> body[i]]]

(* What handle_room_sync writes for one timeline event. *)
EventLines(event, channel, uid_to_nick) ==
  LET body == Get(event.content, "body")
      msgtype == Get(event.content, "msgtype")
      url == Get(event.content, "url")
      nick == uid_to_nick[event.sender]
  IN  IF \/ event.etype # "m.room.message"
         \/ event.sender \notin DOMAIN uid_to_nick
         \/ body = NoValue \/ msgtype = NoValue
         \/ msgtype = "m.image" /\ url = NoValue
      THEN <<>>
      ELSE CASE msgtype = "m.emote" -> SayLines("ACTION", channel, nick, body)
             [] msgtype = "m.image" -> SayLines("PRIVMSG", channel, nick, url)
             [] OTHER               -> SayLines("PRIVMSG", channel, nick, body)

TimelineLines(timeline, channel, uid_to_nick) ==
  FlattenSeq([i \in DOMAIN timeline |-> EventLines(timeline[i], channel, uid_to_nick)])

(* Mutants: the names are not compared; a join is only ever confirmed. *)
RedirectLinesAlways(room, channel) ==
  IF room \in DOMAIN joining_map THEN <<ForwardLine(joining_map[room], channel)>> ELSE <<>>
RedirectLinesNever(room, channel) == <<>>

(* The redirect of a client that joined the room under another name. *)
RedirectLines(room, channel) ==
  IF room \in DOMAIN joining_map /\ joining_map[room] # channel
  THEN <<ForwardLine(joining_map[room], channel)>>
  ELSE <<>>

(* Mutant: get in place of remove. *)
UnjoinedKept(room) == joining_map

(* joining_map.remove(room_id) *)
Unjoined(room) == Without(joining_map, room)

(* The name a room's channel gets unless it is taken: canonical alias,     *)
(* else room name, else room id.                                           *)
ChannelName(room, state) ==
  LET alias == ContentKey(state, "m.room.canonical_alias", "", "alias")
      name == ContentKey(state, "m.room.name", "", "name")
  IN  IF alias # NoValue THEN alias
      ELSE IF name # NoValue /\ Stripped(name) # NoName THEN Prefixed(Hash, Stripped(name))
      ELSE Name(<<Hash, room>>)

(* The nick a user gets unless it is taken. *)
NickName(user, display_name) ==
  IF TooShort(Stripped(display_name)) THEN Stripped(UserIdText[user])
                                      ELSE Stripped(display_name)

Earlier(u, new) == {v \in new : <<v, u>> \in UserOrder}

(* The names the users of new may end up with when taken are taken.        *)
NickCandidates(new, members, taken) ==
  {NickName(u, members[u].display_name) : u \in new} \cup
  {Numbered(NickName(u, members[u].display_name), idx) :
     u \in new, idx \in 1 .. Cardinality(taken) + Cardinality(new)}

(* Mutant: all newcomers are checked against the nicks there were before.  *)
NickChoicesAtOnce(new, members, taken) ==
  {[u \in new |-> UniqueName(NickName(u, members[u].display_name), taken)]}

(* The nicks create_or_get_nick_from_matrix gives the users of new, one    *)
(* after the other in order, when the nicks in taken exist already.        *)
NickChoices(new, members, taken) ==
  {nicks \in [new -> NickCandidates(new, members, taken)] :
     \A u \in new :
       nicks[u] = UniqueName(NickName(u, members[u].display_name),
                             taken \cup {nicks[v] : v \in Earlier(u, new)})}

-----------------------------------------------------------------------------
(* Mutant: create leaves the own nick out of the IRC server's users. *)
InitialUsersNone == <<>>

(* The users of the IRC server when Bridge::create has registered its own. *)
InitialUsers == [n \in {OwnNick} |-> [user |-> Me, channels |-> {}]]

(* After Bridge::create: logged in, own nick registered, tasks spawned. *)
Init ==
  /\ session = "running" /\ is_first_sync = TRUE
  /\ in_sync = FALSE /\ sync_rooms = <<>>
  /\ rooms = <<>> /\ joining_map = <<>>
  /\ room_id_to_channel = <<>> /\ channel_to_room_id = <<>>
  /\ matrix_uid_to_nick = [u \in {Me} |-> OwnNick]
  /\ nick_matrix_uid = [n \in {OwnNick} |-> Me]
  /\ channels = <<>>
  /\ users = InitialUsers
  /\ irc_out = <<>> /\ requests = <<>> /\ replies = <<>>
  /\ log \in InitialLogs
  /\ synced = [r \in Rooms |-> 0] /\ left_out = [r \in Rooms |-> {}]
  /\ joined = InitiallyJoined
  /\ commands = 0 /\ failures = 0

-----------------------------------------------------------------------------
(* The Matrix side.                                                        *)

(* The end of what a timeline of TimelineLimit events leaves out. *)
Cut(r) == IF Len(log[r]) > synced[r] + TimelineLimit THEN Len(log[r]) - TimelineLimit
                                                     ELSE synced[r]

(* Vec::retain, Iterator::filter.  As SelectSeq, which is no operator to   *)
(* the provers.                                                            *)
Filtered(s, Test(_)) == FlattenSeq([i \in DOMAIN s |-> IF Test(s[i]) THEN <<s[i]>> ELSE <<>>])

(* Mutant: events with an own transaction id are not dropped. *)
ResponseWithEchoes(r) ==
  [state    |-> Filtered(SubSeq(log[r], synced[r] + 1, Cut(r)), IsState),
   timeline |-> SubSeq(log[r], Cut(r) + 1, Len(log[r]))]

(* What the homeserver sends of a room: the newest TimelineLimit events as *)
(* timeline, the state events before them as state.  Events this bridge    *)
(* sent carry its transaction id and are dropped on arrival.               *)
Response(r) ==
  [state    |-> Filtered(SubSeq(log[r], synced[r] + 1, Cut(r)), IsState),
   timeline |-> Filtered(SubSeq(log[r], Cut(r) + 1, Len(log[r])), LAMBDA event : ~event.own)]

(* A sync response arrives: MatrixClient::poll_sync updates the rooms, then*)
(* handle_sync_response greets the client if it is the first.              *)
SyncResponse ==
  LET fresh == {r \in joined : synced[r] < Len(log[r])} IN
  /\ Idle
  /\ is_first_sync \/ fresh # {}
  /\ \E responses \in {[r \in fresh |-> Response(r)]} :
       /\ rooms' = [r \in DOMAIN rooms \cup fresh |->
                      IF r \notin fresh THEN rooms[r]
                      ELSE IF r \in DOMAIN rooms THEN update_from_sync(rooms[r], responses[r])
                      ELSE from_sync(responses[r])]
       /\ sync_rooms' = [r \in fresh |-> responses[r].timeline]
  /\ synced' = [r \in Rooms |-> IF r \in fresh THEN Len(log[r]) ELSE synced[r]]
  /\ left_out' = [r \in Rooms |-> IF r \in fresh THEN left_out[r] \cup (synced[r] + 1 .. Cut(r))
                                                ELSE left_out[r]]
  /\ in_sync' = TRUE
  /\ irc_out' = IF is_first_sync THEN irc_out \o WelcomeLines ELSE irc_out
  /\ UNCHANGED <<session, is_first_sync, mappings, joining_map, server_model, requests,
                 replies, log, joined, commands, failures>>

(* The rooms of a response come in BTreeMap order. *)
NextInResponse(r) ==
  /\ Running /\ in_sync
  /\ r \in DOMAIN sync_rooms
  /\ \A other \in DOMAIN sync_rooms : other # r => <<r, other>> \in RoomOrder

(* handle_room_sync for a room that has its channel. *)
HandleKnownRoom(r) ==
  /\ NextInResponse(r)
  /\ r \in DOMAIN room_id_to_channel
  /\ LET channel == room_id_to_channel[r] IN
       irc_out' = irc_out \o RedirectLines(r, channel)
                          \o TimelineLines(sync_rooms[r], channel, matrix_uid_to_nick)
  /\ joining_map' = Unjoined(r)
  /\ sync_rooms' = Without(sync_rooms, r)
  /\ UNCHANGED <<session, is_first_sync, in_sync, rooms, mappings, server_model, requests,
                 replies, homeserver, commands, failures>>

(* handle_room_sync for a room that has none: create_or_get_channel_name   *)
(* names the room and its members and adds the channel to the IRC server,  *)
(* which panics when the channel exists or a member is no user of it.      *)
HandleNewRoom(r) ==
  LET members == rooms[r].members
      new == DOMAIN members \ DOMAIN matrix_uid_to_nick
      channel == UniqueName(ChannelName(r, rooms[r].state), DOMAIN channels)
  IN
  /\ NextInResponse(r)
  /\ r \notin DOMAIN room_id_to_channel
  /\ room_id_to_channel' = Insert(room_id_to_channel, r, channel)
  /\ channel_to_room_id' = Insert(channel_to_room_id, channel, r)
  /\ \E nicks \in NickChoices(new, members, DOMAIN users) :
       LET uid_to_nick == [u \in DOMAIN matrix_uid_to_nick \cup new |->
                             IF u \in new THEN nicks[u] ELSE matrix_uid_to_nick[u]]
           created == {nicks[u] : u \in new}
           names == {uid_to_nick[u] : u \in DOMAIN members}
           entries == [n \in names |->
                         \E u \in DOMAIN members : uid_to_nick[u] = n /\ members[u].moderator]
       IN
       /\ matrix_uid_to_nick' = uid_to_nick
       /\ nick_matrix_uid' = [n \in DOMAIN nick_matrix_uid \cup created |->
                                IF n \in created THEN CHOOSE u \in new : nicks[u] = n
                                                 ELSE nick_matrix_uid[n]]
       /\ users' = [n \in DOMAIN users \cup created |->
                      [user     |-> IF n \in created THEN CHOOSE u \in new : nicks[u] = n
                                                     ELSE users[n].user,
                       channels |-> (IF n \in created THEN {} ELSE users[n].channels)
                                    \cup (IF n \in names THEN {channel} ELSE {})]]
       /\ channels' = Insert(channels, channel, entries)
       /\ session' = IF channel \in DOMAIN channels \/ ~(names \subseteq DOMAIN users')
                     THEN "panic" ELSE session
       /\ irc_out' = irc_out \o JoinLines(channel, entries)
                             \o RedirectLines(r, channel)
                             \o TimelineLines(sync_rooms[r], channel, uid_to_nick)
  /\ joining_map' = Unjoined(r)
  /\ sync_rooms' = Without(sync_rooms, r)
  /\ UNCHANGED <<is_first_sync, in_sync, rooms, requests, replies, homeserver,
                 commands, failures>>

(* Mutant: it returns before all rooms are handled. *)
SyncDoneEarly ==
  /\ Running /\ in_sync
  /\ in_sync' = FALSE /\ is_first_sync' = FALSE
  /\ UNCHANGED <<session, sync_rooms, rooms, mappings, joining_map, server_model, irc_out,
                 requests, replies, homeserver, commands, failures>>

(* handle_sync_response returns. *)
SyncDone ==
  /\ Running /\ in_sync /\ DOMAIN sync_rooms = {}
  /\ in_sync' = FALSE
  /\ is_first_sync' = FALSE
  /\ UNCHANGED <<session, sync_rooms, rooms, mappings, joining_map, server_model, irc_out,
                 requests, replies, homeserver, commands, failures>>

(* A sync answered with another code than 200, or with bad JSON, ends the  *)
(* session; one whose connection dies is repeated with the same token.     *)
SyncError ==
  /\ Idle
  /\ session' = "failed"
  /\ UNCHANGED <<is_first_sync, in_sync, sync_rooms, rooms, mappings, joining_map,
                 server_model, irc_out, requests, replies, homeserver, commands, failures>>

-----------------------------------------------------------------------------
(* The IRC side: poll_irc, which does nothing before the first sync.       *)

Command == /\ Idle /\ ~is_first_sync
           /\ commands < MaxCommands
           /\ commands' = commands + 1

(* PRIVMSG, with the text of an emote or not. *)
IrcPrivMsg(channel, msgtype) ==
  /\ Command
  /\ requests' =
       IF channel \in DOMAIN channel_to_room_id
       THEN Append(requests, [kind |-> "send", room |-> channel_to_room_id[channel],
                              msgtype |-> msgtype, handled |-> FALSE])
       ELSE requests
  /\ UNCHANGED <<session, is_first_sync, in_sync, sync_rooms, rooms, mappings, joining_map,
                 server_model, irc_out, replies, homeserver, failures>>

(* JOIN: answered by the IRC server if it has the channel, else passed on  *)
(* to the homeserver.                                                      *)
IrcJoin(channel) ==
  /\ Command
  /\ \/ /\ channel \in DOMAIN channels
        /\ irc_out' = irc_out \o JoinLines(channel, channels[channel])
        /\ session' = IF DOMAIN channels[channel] \subseteq DOMAIN users
                      THEN session ELSE "panic"
        /\ UNCHANGED requests
     \/ /\ channel \notin DOMAIN channels
        /\ requests' = Append(requests, [kind |-> "join", channel |-> channel,
                                         handled |-> FALSE])
        /\ UNCHANGED <<session, irc_out>>
  /\ UNCHANGED <<is_first_sync, in_sync, sync_rooms, rooms, mappings, joining_map,
                 server_model, replies, homeserver, failures>>

(* WHO of a channel: a line per member, or nothing if there is no channel. *)
IrcWho(channel) ==
  /\ Command
  /\ channel \in DOMAIN channels
  /\ irc_out' = Append(irc_out, [cmd |-> "WHO", channel |-> channel,
                   names |-> [n \in DOMAIN channels[channel] \cap DOMAIN users |-> users[n].user]])
  /\ session' = IF DOMAIN channels[channel] \subseteq DOMAIN users THEN session ELSE "panic"
  /\ UNCHANGED <<is_first_sync, in_sync, sync_rooms, rooms, mappings, joining_map,
                 server_model, requests, replies, homeserver, failures>>

(* PING, MODE #channel and AWAY: one line back, no other effect. *)
IrcReply(cmd) ==
  /\ Command
  /\ irc_out' = Append(irc_out, [cmd |-> cmd])
  /\ UNCHANGED <<session, is_first_sync, in_sync, sync_rooms, rooms, mappings, joining_map,
                 server_model, requests, replies, homeserver, failures>>

(* The client closes its connection, or it breaks, or sends what the line  *)
(* reader refuses.                                                         *)
IrcClosed ==
  /\ Idle /\ ~is_first_sync
  /\ session' \in {"closed", "failed"}
  /\ UNCHANGED <<is_first_sync, in_sync, sync_rooms, rooms, mappings, joining_map,
                 server_model, irc_out, requests, replies, homeserver, commands, failures>>

(* The task of a JOIN sees the homeserver's answer.  A refusal is an error *)
(* of the task and ends the session.                                       *)
JoinReply(i) ==
  LET channel == replies[i].channel
      room == replies[i].room
  IN
  /\ Idle
  /\ replies' = RemoveAt(replies, i)
  /\ \/ /\ room = NoValue
        /\ session' = "failed"
        /\ UNCHANGED <<irc_out, joining_map>>
     \/ /\ room # NoValue
        /\ room \in DOMAIN room_id_to_channel
        /\ irc_out' = IF room_id_to_channel[room] = channel THEN irc_out
                      ELSE Append(irc_out, ForwardLine(channel, room_id_to_channel[room]))
        /\ UNCHANGED <<session, joining_map>>
     \/ /\ room # NoValue
        /\ room \notin DOMAIN room_id_to_channel
        /\ joining_map' = Insert(joining_map, room, channel)
        /\ UNCHANGED <<session, irc_out>>
  /\ UNCHANGED <<is_first_sync, in_sync, sync_rooms, rooms, mappings, server_model, requests,
                 homeserver, commands, failures>>

-----------------------------------------------------------------------------
(* The homeserver and the HTTP connection that carries join and send.      *)

(* The homeserver carries out the first request it has not yet.            *)
ServerHandle ==
  /\ Idle
  /\ \E i \in DOMAIN requests :
       /\ ~requests[i].handled
       /\ \A j \in 1 .. i - 1 : requests[j].handled
       /\ LET request == requests[i] IN
          \/ /\ request.kind = "send"
             /\ log' = [log EXCEPT ![request.room] = Append(@, OwnMessage(request.msgtype))]
             /\ UNCHANGED joined
          \/ /\ request.kind = "join"
             /\ request.channel \in DOMAIN Directory
             /\ LET room == Directory[request.channel] IN
                /\ joined' = joined \cup {room}
                /\ log' = IF room \in joined THEN log
                          ELSE [log EXCEPT ![room] = Append(@, OwnMembership)]
          \/ /\ request.kind = "join"
             /\ request.channel \notin DOMAIN Directory
             /\ UNCHANGED <<log, joined>>
       /\ requests' = [requests EXCEPT ![i].handled = TRUE]
  /\ UNCHANGED <<session, is_first_sync, in_sync, sync_rooms, rooms, mappings, joining_map,
                 server_model, irc_out, replies, synced, left_out, commands, failures>>

(* Responses come back in the order of the requests; nobody waits for that *)
(* of a send.                                                              *)
Deliver ==
  /\ Idle
  /\ requests # <<>> /\ Head(requests).handled
  /\ requests' = Tail(requests)
  /\ replies' = IF Head(requests).kind = "send" THEN replies
                ELSE LET channel == Head(requests).channel IN
                     Append(replies, [channel |-> channel,
                                      room |-> Get(Directory, channel)])
  /\ UNCHANGED <<session, is_first_sync, in_sync, sync_rooms, rooms, mappings, joining_map,
                 server_model, irc_out, homeserver, commands, failures>>

(* The HTTP connection dies.  The n requests written to it fail, handled   *)
(* or not; those still queued go out on the next connection.  A message    *)
(* that failed is lost, a join that failed ends the session.               *)
HttpFail(n) ==
  /\ Idle
  /\ failures < MaxFailures
  /\ \A i \in n + 1 .. Len(requests) : ~requests[i].handled
  /\ requests' = SubSeq(requests, n + 1, Len(requests))
  /\ session' = IF \E i \in 1 .. n : requests[i].kind = "join" THEN "failed" ELSE session
  /\ failures' = failures + 1
  /\ UNCHANGED <<is_first_sync, in_sync, sync_rooms, rooms, mappings, joining_map,
                 server_model, irc_out, replies, homeserver, commands>>

(* Somebody else, or another device of this user, does something in a room.*)
ServerEvent ==
  /\ Idle
  /\ \E post \in Incoming :
       /\ post[2] \notin Range(log[post[1]])
       /\ log' = [log EXCEPT ![post[1]] = Append(@, post[2])]
  /\ UNCHANGED <<session, is_first_sync, in_sync, sync_rooms, rooms, mappings, joining_map,
                 server_model, irc_out, requests, replies, synced, joined, left_out, commands,
                 failures>>

-----------------------------------------------------------------------------
PollMatrix == \/ SyncResponse
              \/ \E r \in Rooms : HandleKnownRoom(r)
              \/ \E r \in Rooms : HandleNewRoom(r)
              \/ SyncDone
              \/ SyncError

PollIrc == \/ \E c \in ClientChannels, t \in {"m.text", "m.emote"} : IrcPrivMsg(c, t)
           \/ \E c \in ClientChannels : IrcJoin(c)
           \/ \E c \in ClientChannels : IrcWho(c)
           \/ \E cmd \in {"PONG", "MODE", "AWAY"} : IrcReply(cmd)
           \/ IrcClosed

Network == \/ ServerHandle
           \/ Deliver
           \/ \E n \in 1 .. Len(requests) : HttpFail(n)
           \/ ServerEvent

Next == \/ PollMatrix
        \/ PollIrc
        \/ \E i \in DOMAIN replies : JoinReply(i)
        \/ Network

Spec == Init /\ [][Next]_vars

(* A sync returns while there is news, and the response that is in is      *)
(* handled to its end; the homeserver carries requests out and answers; the*)
(* tasks of JOINs whose answer is in are polled.                           *)
Fairness ==
  /\ WF_vars(SyncResponse \/ (\E r \in Rooms : HandleKnownRoom(r) \/ HandleNewRoom(r)) \/ SyncDone)
  /\ WF_vars(ServerHandle \/ Deliver)
  /\ WF_vars(\E i \in DOMAIN replies : JoinReply(i))

FairSpec == Spec /\ Fairness

-----------------------------------------------------------------------------
(* Properties.                                                             *)

SendRequest == [kind : {"send"}, room : Rooms, msgtype : {"m.text", "m.emote"},
                handled : BOOLEAN]
JoinRequest == [kind : {"join"}, channel : ClientChannels, handled : BOOLEAN]
JoinAnswer == [channel : ClientChannels, room : Rooms \cup {NoValue}]

(* The state has its type: ids are users and rooms, requests and answers   *)
(* are what the client and the homeserver can cause.  Names may be any text.*)
TypeOK ==
  /\ session \in {"running", "closed", "failed", "panic"}
  /\ is_first_sync \in BOOLEAN /\ in_sync \in BOOLEAN
  /\ DOMAIN sync_rooms \subseteq Rooms /\ DOMAIN rooms \subseteq Rooms
  /\ DOMAIN room_id_to_channel \subseteq Rooms /\ Range(channel_to_room_id) \subseteq Rooms
  /\ DOMAIN matrix_uid_to_nick \subseteq Users /\ Range(nick_matrix_uid) \subseteq Users
  /\ DOMAIN joining_map \subseteq Rooms /\ Range(joining_map) \subseteq ClientChannels
  /\ requests \in Seq(SendRequest \cup JoinRequest)
  /\ replies \in Seq(JoinAnswer)
  /\ log \in [Rooms -> Seq(Events)]
  /\ synced \in [Rooms -> Nat] /\ joined \subseteq Rooms /\ left_out \in [Rooms -> SUBSET Nat]
  /\ commands \in 0 .. MaxCommands /\ failures \in 0 .. MaxFailures

(* The IRC server's two fatal assertions never fire: add_channel is never  *)
(* called for a channel that exists (irc/models.rs:78), and every nick in a*)
(* channel is a user (irc/models.rs:124).                                  *)
NoPanic == session # "panic"

InverseOf(f, g) ==
  /\ DOMAIN g = Range(f) /\ DOMAIN f = Range(g)
  /\ \A x \in DOMAIN f : g[f[x]] = x

(* The two maps of each pair in MappingStore stay inverse to each other, so*)
(* that a message goes to the room its channel was made for and a sender is*)
(* shown under one nick.                                                   *)
TablesInverse == /\ InverseOf(room_id_to_channel, channel_to_room_id)
                 /\ InverseOf(matrix_uid_to_nick, nick_matrix_uid)

(* MappingStore and ServerModel, two objects updated in turn, know the same*)
(* channels and the same users.  The uniqueness of names is checked against*)
(* the one and relied on by the other.                                     *)
TablesAgreeWithServer ==
  /\ DOMAIN channel_to_room_id = DOMAIN channels
  /\ DOMAIN nick_matrix_uid = DOMAIN users
  /\ \A n \in DOMAIN users : users[n].user = nick_matrix_uid[n]

(* A channel lists a nick exactly when the user with that nick lists the   *)
(* channel: create_user never overwrites a user who is in a channel.       *)
MembershipBothWays ==
  \A c \in DOMAIN channels, n \in DOMAIN users :
    n \in DOMAIN channels[c] <=> c \in users[n].channels

(* A room waits in joining_map only while it has no channel: whichever of  *)
(* join answer and sync response comes first, the entry is not forgotten.  *)
JoiningHasNoChannel == DOMAIN joining_map \cap DOMAIN room_id_to_channel = {}

(* Every room the Matrix client has got from a sync is on IRC once the     *)
(* response is handled, and while it is handled the Matrix client has every*)
(* room that is left (the warning at bridge/mod.rs:211 is never logged).   *)
KnownRoomsAreOnIrc ==
  /\ DOMAIN sync_rooms \subseteq DOMAIN rooms
  /\ DOMAIN rooms = DOMAIN room_id_to_channel \cup DOMAIN sync_rooms

(* The names and operators an IRC channel has are the members and the      *)
(* moderators the Matrix client has for the room, under their nicks: the   *)
(* channel is filled once, and the member list never runs ahead of it.     *)
ChannelMirrorsRoom ==
  \A r \in DOMAIN room_id_to_channel :
    LET entries == channels[room_id_to_channel[r]]
        members == rooms[r].members
    IN  /\ DOMAIN members \subseteq DOMAIN matrix_uid_to_nick
        /\ DOMAIN entries = {matrix_uid_to_nick[u] : u \in DOMAIN members}
        /\ \A u \in DOMAIN members : entries[matrix_uid_to_nick[u]] = members[u].moderator

(* A client is told to have joined a channel before it reads a message in  *)
(* it or is forwarded to it, and a forward leads to another name.          *)
JoinedBeforeUse ==
  \A i \in DOMAIN irc_out :
    /\ irc_out[i].cmd \in {"PRIVMSG", "ACTION", "FORWARD", "WHO"} =>
         \E j \in 1 .. i - 1 : irc_out[j].cmd = "JOIN" /\ irc_out[j].channel = irc_out[i].channel
    /\ irc_out[i].cmd = "FORWARD" => irc_out[i].old # irc_out[i].channel

(* What the nicks said in a channel, as the IRC client read it.            *)
Heard(channel, nicks) ==
  Filtered(irc_out, LAMBDA line : /\ line.cmd \in {"PRIVMSG", "ACTION"}
                                  /\ line.channel = channel /\ line.nick \in nicks)

(* What the timelines held of the first n events of room r and the bridge  *)
(* has to show in its channel: all but what this bridge sent.              *)
Said(r, n, senders) ==
  FlattenSeq([i \in 1 .. n |->
                IF i \in left_out[r] \/ log[r][i].own \/ log[r][i].sender \notin senders
                THEN <<>>
                ELSE EventLines(log[r][i], room_id_to_channel[r], matrix_uid_to_nick)])

Settled(r) == r \in DOMAIN room_id_to_channel /\ r \notin DOMAIN sync_rooms

(* A client reads what the members of a room say, every line exactly once, *)
(* in the room's order, in the room's channel, and no echo of its own      *)
(* messages, however syncs, sends and joins interleave.  Lines are missing *)
(* only where the homeserver cut a timeline.                               *)
HeardExactly ==
  \A r \in Rooms : Settled(r) =>
    LET members == DOMAIN rooms[r].members
        nicks == {matrix_uid_to_nick[u] : u \in members}
    IN  Heard(room_id_to_channel[r], nicks) = Said(r, synced[r], members)

(* handle_room_sync logs "Sender not in room" (bridge/mod.rs:227) of the   *)
(* senders it drops.  None of them is a member according to the state the  *)
(* bridge itself has of the room.                                          *)
DroppedSenderIsNotInRoom ==
  \A r \in DOMAIN sync_rooms : r \in DOMAIN room_id_to_channel =>
    \A i \in DOMAIN sync_rooms[r] :
      sync_rooms[r][i].etype = "m.room.message" /\ sync_rooms[r][i].sender \notin DOMAIN matrix_uid_to_nick =>
        sync_rooms[r][i].sender \notin JoinedMembers(rooms[r].state)

(* The two name tables keep the promise of NameRegistry.                   *)
NickRegistry == INSTANCE NameRegistry
                  WITH Initial <- [u \in {Me} |-> OwnNick], name <- matrix_uid_to_nick
ChannelRegistry == INSTANCE NameRegistry
                     WITH Initial <- <<>>, name <- room_id_to_channel
NicksAreRegistered == NickRegistry!Spec
ChannelsAreRegistered == ChannelRegistry!Spec

Ended == session # "running"

JoinPending(c) ==
  \/ \E i \in DOMAIN requests : requests[i].kind = "join" /\ requests[i].channel = c
  \/ \E i \in DOMAIN replies : replies[i].channel = c
  \/ c \in Range(joining_map)

JoinAnswered(c) ==
  \E i \in DOMAIN irc_out : \/ irc_out[i].cmd = "JOIN" /\ irc_out[i].channel = c
                            \/ irc_out[i].cmd = "FORWARD" /\ irc_out[i].old = c

(* Another JOIN for the same room has taken the place in joining_map.      *)
JoinSuperseded(c) ==
  \E r \in DOMAIN joining_map : r = Get(Directory, c) /\ joining_map[r] # c

(* A JOIN is answered in the end, by the JOIN of its channel or by a       *)
(* forward, unless a JOIN of the same room under another alias supersedes  *)
(* it or the session ends.                                                 *)
JoinsAreAnswered ==
  \A c \in ClientChannels :
    JoinPending(c) ~> (JoinAnswered(c) \/ JoinSuperseded(c) \/ Ended)
=============================================================================
