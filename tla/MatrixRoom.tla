----------------------------- MODULE MatrixRoom -----------------------------
(***************************************************************************)
(* The Matrix client's view of one room, src/src/matrix/models.rs: the     *)
(* current state event per (type, state key), and the member list that is  *)
(* computed from it.                                                       *)
(*                                                                         *)
(* An event is a record                                                    *)
(*   [etype, state_key, sender, content, own]                              *)
(* whose state_key is NoValue for an event that is not a state event, whose*)
(* content maps the JSON keys that are present to their values, and whose  *)
(* own says that unsigned.transaction_id starts with "mircd-".             *)
(* The state section of a sync holds only state events, as Matrix has it;  *)
(* on another event there the code panics (models.rs:35, :72), which is    *)
(* not modelled.                                                           *)
(***************************************************************************)
EXTENDS Names

CONSTANTS Users,          \* the Matrix user ids there are
          NoValue         \* an Option that is None

(* content.get(key): the value, or None when the key is absent *)
Get(content, key) == IF key \in DOMAIN content THEN content[key] ELSE NoValue

IsState(event) == event.state_key # NoValue

StateKey(event) == <<event.etype, event.state_key>>

(* Inserting the state events of a sequence one after the other into the   *)
(* state map: the last event of a key wins, events that are not state      *)
(* events are passed over.                                                 *)
Applied(state, events) ==
  LET indexes(k) == {i \in DOMAIN events :
                       IsState(events[i]) /\ StateKey(events[i]) = k}
      keys == {StateKey(events[i]) : i \in {j \in DOMAIN events : IsState(events[j])}}
  IN  [k \in DOMAIN state \cup keys |->
         IF k \in keys
         THEN events[CHOOSE i \in indexes(k) : \A j \in indexes(k) : j <= i]
         ELSE state[k]]

(* get_state, get_state_content_key *)
Content(state, etype, state_key) ==
  IF <<etype, state_key>> \in DOMAIN state
  THEN state[<<etype, state_key>>].content
  ELSE <<>>

ContentKey(state, etype, state_key, key) ==
  Get(Content(state, etype, state_key), key)

(* The users whose power level is at least 50. *)
Moderators(state) ==
  LET users == ContentKey(state, "m.room.power_levels", "", "users")
  IN  IF users = NoValue THEN {} ELSE {u \in DOMAIN users : users[u] >= 50}

(* The users whose m.room.member event in the state says "join". *)
JoinedMembers(state) ==
  {u \in Users : ContentKey(state, "m.room.member", u, "membership") = "join"}

(* displayname, "" when there is none *)
DisplayName(state, user) ==
  LET name == ContentKey(state, "m.room.member", user, "displayname")
  IN  IF name = NoValue THEN NoName ELSE name

(* recalculate_members: joined members are inserted or refreshed; a member *)
(* that has left since is not taken out.                                   *)
recalculate_members(state, members) ==
  [u \in DOMAIN members \cup JoinedMembers(state) |->
     IF u \in JoinedMembers(state)
     THEN [display_name |-> DisplayName(state, u),
           moderator    |-> u \in Moderators(state)]
     ELSE members[u]]

(* from_sync: a room seen for the first time.  resp.state are the state    *)
(* events up to the start of the timeline, resp.timeline all events after. *)
from_sync(resp) ==
  LET state == Applied(<<>>, resp.state \o resp.timeline)
  IN  [state |-> state, members |-> recalculate_members(state, <<>>)]

(* Mutant: the members are refreshed, but not those of the IRC channel. *)
ContainsMemberEventSpelled(resp) ==
  \E i \in DOMAIN resp.timeline : resp.timeline[i].etype = "m.room.member"

(* The test of update_from_sync.  It compares with "m.room_member", which  *)
(* is not the type of any Matrix event ("m.room.member" is).               *)
ContainsMemberEvent(resp) ==
  \/ \E i \in DOMAIN resp.state : resp.state[i].etype = "m.room_member"
  \/ \E i \in DOMAIN resp.timeline : /\ IsState(resp.timeline[i])
                                     /\ resp.timeline[i].etype = "m.room_member"

(* update_from_sync: a room the client already has. *)
update_from_sync(room, resp) ==
  LET state == Applied(room.state, resp.state \o resp.timeline)
  IN  [state   |-> state,
       members |-> IF ContainsMemberEvent(resp)
                   THEN recalculate_members(state, room.members)
                   ELSE room.members]
=============================================================================
