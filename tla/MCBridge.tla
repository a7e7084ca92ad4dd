------------------------------ MODULE MCBridge ------------------------------
(* Instances of Bridge for TLC.  Users, rooms and chunks of text are model *)
(* values; the .cfg files pick one of the scenarios defined here.          *)
EXTENDS Bridge

CONSTANTS me, bob, eve, r1, r2, r3,       \* users and rooms
          hash, at, blank,                \* chunks: "#", "@", " "
          ann, x, a, b, c,                \* chunks: a long name, a short one, aliases
          meText, bobText, eveText        \* chunks: user ids without "@"

MCStripped == {hash, at, blank}
MCShort == {x}
MCUserIdText == [u \in {me, bob, eve} |->
                   Name(<<at, CASE u = me -> meText [] u = bob -> bobText [] u = eve -> eveText>>)]
MCUserOrder == {<<bob, eve>>, <<bob, me>>, <<eve, me>>}
MCRoomOrder == {<<r1, r2>>, <<r1, r3>>, <<r2, r3>>}

Event(etype, state_key, sender, content) ==
  [etype |-> etype, state_key |-> state_key, sender |-> sender, content |-> content,
   own |-> FALSE]
Joins(u, name) ==
  Event("m.room.member", u, u, [membership |-> "join", displayname |-> name])
JoinsUnnamed(u) == Event("m.room.member", u, u, [membership |-> "join"])
Leaves(u) == Event("m.room.member", u, u, [membership |-> "leave"])
Alias(alias) == Event("m.room.canonical_alias", "", bob, [alias |-> alias])
Named(name) == Event("m.room.name", "", bob, [name |-> name])
Power(u) == Event("m.room.power_levels", "", bob, [users |-> [v \in {u} |-> 50]])
Says(u, lines) == Event("m.room.message", NoValue, u, [body |-> lines, msgtype |-> "m.text"])
Emotes(u, lines) == Event("m.room.message", NoValue, u, [body |-> lines, msgtype |-> "m.emote"])
Shows(u, lines, url) ==
  Event("m.room.message", NoValue, u, [body |-> lines, msgtype |-> "m.image", url |-> url])
ShowsNothing(u) ==
  Event("m.room.message", NoValue, u, [body |-> <<"pic">>, msgtype |-> "m.image"])

A == Name(<<hash, a>>)
B == Name(<<hash, b>>)
C == Name(<<hash, c>>)
AnnNick == Name(<<ann>>)
One(name) == Numbered(name, 1)    \* somebody's own "[1]"

-----------------------------------------------------------------------------
(* Joins: the account is in r1, which has alias A; r2 has the canonical    *)
(* alias B and the alias C.                                  *)
JoinLogs == {[r \in {r1, r2} |->
                IF r = r1 THEN <<Alias(A), Joins(me, Name(<<ann>>)), Says(bob, <<"early">>)>>
                          ELSE <<Alias(B), Joins(bob, Name(<<ann>>))>>]}
JoinJoined == {r1}
JoinDirectory == [n \in {B, C} |-> r2]
JoinIncoming == {<<r2, Says(bob, <<"hi", "there">>)>>}
JoinChannels == {B, C}

(* Talk: two rooms, a newcomer, other devices, every kind of message; C is *)
(* no room.                                                                *)
TalkLogs == {[r \in {r1, r2} |->
                IF r = r1 THEN <<Alias(A), Joins(me, Name(<<x>>)), Joins(bob, Name(<<ann>>)), Power(bob)>>
                          ELSE <<Joins(me, Name(<<x>>)), Says(eve, <<"first">>), ShowsNothing(me)>>]}
TalkJoined == {r1, r2}
TalkDirectory == [n \in {A} |-> r1]
TalkIncoming == {<<r1, Says(bob, <<"one", "two">>)>>, <<r1, Joins(eve, Name(<<ann>>))>>,
                 <<r1, Says(eve, <<"hello">>)>>, <<r2, Emotes(me, <<"waves">>)>>,
                 <<r2, Shows(bob, <<"pic">>, <<"url">>)>>}
TalkChannels == {A, Name(<<hash, r2>>), C}

(* Names: three rooms and two strangers with names that may collide with   *)
(* each other, with own names and with numbered names.                     *)
RoomNames == {<<Alias(A)>>, <<Named(Name(<<a>>))>>, <<Named(Name(<<at, a, blank>>))>>,
              <<Alias(One(A))>>, <<Named(Name(<<blank>>))>>, <<>>}
UserNames(u) == {Joins(u, Name(<<ann>>)), Joins(u, One(AnnNick)), Joins(u, Name(<<ann, blank>>)),
                 Joins(u, Name(<<at, x>>)), JoinsUnnamed(u), Leaves(u)}
NameLogs ==
  {[r \in {r1, r2, r3} |->
      CASE r = r1 -> n1 \o <<JoinsUnnamed(me), eve1>>
        [] r = r2 -> n2 \o <<JoinsUnnamed(me), bob2, eve2, Power(bob)>>
        [] r = r3 -> n3 \o <<JoinsUnnamed(me), bob2>>] :
     n1 \in RoomNames, n2 \in RoomNames, n3 \in RoomNames,
     eve1 \in UserNames(eve), bob2 \in UserNames(bob),
     eve2 \in {Joins(eve, Name(<<ann>>)), Leaves(eve)}}
NameJoined == {r1, r2, r3}
NoDirectory == <<>>
NoIncoming == {}
=============================================================================
