---------------------------- MODULE BridgeProofs ----------------------------
(***************************************************************************)
(* Theorems about Bridge for any number of users, rooms, events and        *)
(* commands: the name tables and the IRC server's model stay consistent,   *)
(* its assertions never fire, no room that is being joined is forgotten,   *)
(* and the tables implement NameRegistry.                                  *)
(*                                                                         *)
(* And what the IRC client of a session sees: that an IRC channel mirrors  *)
(* its room, that a channel is joined before anything is read in it, and   *)
(* that the client reads what the members of a room say, once and in order.*)
(* Each of these invariants rests on those before it and on IInv.  A       *)
(* timeline becomes lines by FlattenSeq, which SequenceLemmas reasons about*)
(* as FlatMap.                                                             *)
(***************************************************************************)
EXTENDS Bridge, SequenceLemmas, FiniteSetTheorems

-----------------------------------------------------------------------------
(* Unique names.                                                           *)

(* Two numbers never give the same name: "x[i]" determines i. *)
LEMMA NumberedIsInjective ==
  ASSUME NEW name, NEW i, NEW j, Numbered(name, i) = Numbered(name, j)
  PROVE  i = j
<1>1. Numbered(name, i).numbers = Numbered(name, j).numbers
  OBVIOUS
<1>2. <<i, name.numbers>> = <<j, name.numbers>>
  BY <1>1 DEF Numbered
<1> QED
  BY <1>2

(* Among one more numbered variants of a name than there are taken names,  *)
(* one is free: the search always has a place to stop.                     *)
LEMMA FreeNumberExists ==
  ASSUME NEW name, NEW taken, IsFiniteSet(taken)
  PROVE  FreeNumbers(name, taken) # {}
<1> DEFINE n == Cardinality(taken)
           f == [i \in 1 .. n + 1 |-> Numbered(name, i)]
<1>1. n \in Nat
  BY FS_CardinalityType
<1>2. SUFFICES ASSUME FreeNumbers(name, taken) = {}
               PROVE  FALSE
  OBVIOUS
<1>3. f \in [1 .. n + 1 -> taken]
  BY <1>2 DEF FreeNumbers
<1>4. IsFiniteSet(1 .. n + 1) /\ Cardinality(1 .. n + 1) = n + 1
  BY <1>1, FS_Interval
<1>5. PICK i, j \in 1 .. n + 1 : i # j /\ f[i] = f[j]
  <2> HIDE DEF f
  <2>1. Cardinality(taken) < Cardinality(1 .. n + 1)
    BY <1>1, <1>4
  <2> QED
    BY <1>3, <1>4, <2>1, FS_PigeonHole
<1>6. Numbered(name, i) = Numbered(name, j)
  BY <1>5
<1> QED
  BY <1>5, <1>6, NumberedIsInjective

(* UniqueName returns a name nobody has, whichever names are taken: the    *)
(* answer of the loops at bridge/mod.rs:380 and :452.                      *)
THEOREM UniqueNameIsFree ==
  ASSUME NEW name, NEW taken, IsFiniteSet(taken)
  PROVE  UniqueName(name, taken) \notin taken
<1>1. CASE name \notin taken
  BY <1>1 DEF UniqueName
<1>2. CASE name \in taken
  <2> DEFINE free == FreeNumbers(name, taken)
             least(idx) == \A other \in free : idx <= other
  <2>1. free \in SUBSET Nat
    BY FS_CardinalityType DEF FreeNumbers
  <2>2. \E idx \in free : least(idx)
    BY <2>1, FreeNumberExists, LeastNumber
  <2>3. (CHOOSE idx \in free : least(idx)) \in free
    BY <2>2
  <2>4. UniqueName(name, taken) = Numbered(name, CHOOSE idx \in free : least(idx))
    BY <1>2 DEF UniqueName
  <2> QED
    BY <2>3, <2>4 DEF FreeNumbers
<1> QED
  BY <1>1, <1>2

-----------------------------------------------------------------------------
(* The inductive invariant.                                                *)

(* What the name search needs (finitely many names are taken) and what     *)
(* makes creating a user or a channel harmless to those that exist.        *)
ServerModelClosed ==
  /\ IsFiniteSet(DOMAIN users) /\ IsFiniteSet(DOMAIN channels)
  /\ \A c \in DOMAIN channels : DOMAIN channels[c] \subseteq DOMAIN users
  /\ \A n \in DOMAIN users : users[n].channels \subseteq DOMAIN channels

Tables == /\ TablesInverse
          /\ TablesAgreeWithServer
          /\ MembershipBothWays
          /\ ServerModelClosed

MembersAreUsers == \A r \in DOMAIN rooms : DOMAIN rooms[r].members \subseteq Users

Rooming == /\ JoiningHasNoChannel
           /\ KnownRoomsAreOnIrc
           /\ MembersAreUsers
           /\ ~in_sync => DOMAIN sync_rooms = {}

IInv == TypeOK /\ NoPanic /\ Tables /\ Rooming

-----------------------------------------------------------------------------
(* Lemmas on the operators.                                                *)

(* The image of a finite set under a function is finite. *)
LEMMA ImageIsFinite ==
  ASSUME NEW S, IsFiniteSet(S), NEW f
  PROVE  IsFiniteSet({f[x] : x \in S})
<1> DEFINE T == {f[x] : x \in S}
           g == [x \in S |-> f[x]]
<1>1. g \in Surjection(S, T)
  BY DEF Surjection
<1> QED
  BY <1>1, FS_Surjection

(* The nicks a room's newcomers get are new to the IRC server and differ   *)
(* from each other, because each is searched for after the ones before it. *)
LEMMA NickChoicesAreNew ==
  ASSUME NEW new, new \subseteq Users, NEW members, NEW taken, IsFiniteSet(taken),
         NEW nicks, nicks \in NickChoices(new, members, taken)
  PROVE  /\ \A u \in new : nicks[u] \notin taken
         /\ \A u \in new : \A v \in new : u # v => nicks[u] # nicks[v]
<1> DEFINE wanted(u) == NickName(u, members[u].display_name)
           before(u) == taken \cup {nicks[v] : v \in Earlier(u, new)}
<1>1. \A u \in new : nicks[u] = UniqueName(wanted(u), before(u))
  BY DEF NickChoices
<1>2. \A u \in new : IsFiniteSet(before(u))
  <2> TAKE u \in new
  <2>1. IsFiniteSet(Earlier(u, new))
    <3>1. Earlier(u, new) \in SUBSET Users
      BY DEF Earlier
    <3> QED
      BY <3>1, UsersAssumption, FS_Subset
  <2>2. IsFiniteSet({nicks[v] : v \in Earlier(u, new)})
    BY <2>1, ImageIsFinite
  <2> QED
    BY <2>2, FS_Union
<1>3. \A u \in new : nicks[u] \notin before(u)
  <2> HIDE DEF before, wanted
  <2> QED
    BY <1>1, <1>2, UniqueNameIsFree
<1>4. ASSUME NEW u \in new, NEW v \in new, nicks[u] = nicks[v], u # v
      PROVE  FALSE
  <2>1. v \in Earlier(u, new) \/ u \in Earlier(v, new)
    BY <1>4, UserOrderAssumption DEF Earlier
  <2>2. CASE v \in Earlier(u, new)
    BY <1>3, <1>4, <2>2
  <2>3. CASE u \in Earlier(v, new)
    BY <1>3, <1>4, <2>3
  <2> QED
    BY <2>1, <2>2, <2>3
<1> QED
  BY <1>3, <1>4

(* A room's members are users, after its first sync and after later ones.  *)
LEMMA FromSyncMembers ==
  ASSUME NEW resp
  PROVE  DOMAIN from_sync(resp).members \subseteq Users
BY DEF from_sync, recalculate_members, JoinedMembers

(* Members of a room stay users.                                           *)
LEMMA UpdateFromSyncMembers ==
  ASSUME NEW room, NEW resp, DOMAIN room.members \subseteq Users
  PROVE  DOMAIN update_from_sync(room, resp).members \subseteq Users
BY DEF update_from_sync, recalculate_members, JoinedMembers

(* Two inverse tables stay inverse when a fresh pair is inserted in both.  *)
LEMMA InsertKeepsInverse ==
  ASSUME NEW f, NEW g, InverseOf(f, g), NEW x, NEW y, x \notin DOMAIN f, y \notin DOMAIN g
  PROVE  InverseOf(Insert(f, x, y), Insert(g, y, x))
<1> DEFINE ff == Insert(f, x, y)
           gg == Insert(g, y, x)
<1>1. /\ DOMAIN ff = DOMAIN f \cup {x} /\ ff[x] = y
      /\ \A k \in DOMAIN f : ff[k] = f[k]
  BY DEF Insert
<1>2. /\ DOMAIN gg = DOMAIN g \cup {y} /\ gg[y] = x
      /\ \A k \in DOMAIN g : gg[k] = g[k]
  BY DEF Insert
<1>3. \A k \in DOMAIN f : f[k] \in DOMAIN g /\ g[f[k]] = k
  BY DEF InverseOf, Range
<1> HIDE DEF ff, gg
<1>4. DOMAIN gg = Range(ff)
  <2>1. \A n \in DOMAIN g : \E k \in DOMAIN f : f[k] = n
    BY DEF InverseOf, Range
  <2>2. ASSUME NEW n \in DOMAIN gg PROVE n \in Range(ff)
    BY <1>1, <1>2, <2>1 DEF Range
  <2>3. ASSUME NEW k \in DOMAIN ff PROVE ff[k] \in DOMAIN gg
    BY <1>1, <1>2, <1>3
  <2> QED
    BY <2>2, <2>3 DEF Range
<1>5. DOMAIN ff = Range(gg)
  <2>1. \A k \in DOMAIN f : \E n \in DOMAIN g : g[n] = k
    BY DEF InverseOf, Range
  <2>2. \A n \in DOMAIN g : g[n] \in DOMAIN f
    BY DEF InverseOf, Range
  <2>3. ASSUME NEW k \in DOMAIN ff PROVE k \in Range(gg)
    BY <1>1, <1>2, <2>1 DEF Range
  <2>4. ASSUME NEW n \in DOMAIN gg PROVE gg[n] \in DOMAIN ff
    BY <1>1, <1>2, <2>2
  <2> QED
    BY <2>3, <2>4 DEF Range
<1>6. \A k \in DOMAIN ff : gg[ff[k]] = k
  BY <1>1, <1>2, <1>3
<1>7. InverseOf(ff, gg)
  BY <1>4, <1>5, <1>6 DEF InverseOf
<1> QED
  BY <1>7 DEF ff, gg

(* The same for a set of new keys that get pairwise different new values.  *)
LEMMA ExtensionKeepsInverse ==
  ASSUME NEW f, NEW g, InverseOf(f, g), NEW new, new \cap DOMAIN f = {},
         NEW h, \A u \in new : h[u] \notin DOMAIN g,
         \A u, v \in new : h[u] = h[v] => u = v,
         NEW ff, ff = [u \in DOMAIN f \cup new |-> IF u \in new THEN h[u] ELSE f[u]],
         NEW gg, gg = [n \in DOMAIN g \cup {h[u] : u \in new} |->
                         IF n \in {h[u] : u \in new} THEN CHOOSE u \in new : h[u] = n
                                                     ELSE g[n]]
  PROVE  InverseOf(ff, gg)
<1> DEFINE created == {h[u] : u \in new}
<1>1. /\ DOMAIN ff = DOMAIN f \cup new
      /\ \A u \in new : ff[u] = h[u]
      /\ \A u \in DOMAIN f : ff[u] = f[u]
  OBVIOUS
<1>2. /\ DOMAIN gg = DOMAIN g \cup created
      /\ \A n \in DOMAIN g : gg[n] = g[n]
  OBVIOUS
<1>3. \A u \in new : gg[h[u]] = u
  <2> TAKE u \in new
  <2>1. h[u] \in created
    OBVIOUS
  <2>2. gg[h[u]] = CHOOSE v \in new : h[v] = h[u]
    BY <2>1
  <2>3. (CHOOSE v \in new : h[v] = h[u]) = u
    OBVIOUS
  <2> QED
    BY <2>2, <2>3
<1>4. \A k \in DOMAIN f : f[k] \in DOMAIN g /\ g[f[k]] = k
  BY DEF InverseOf, Range
<1>5. \A n \in DOMAIN g : \E k \in DOMAIN f : f[k] = n
  BY DEF InverseOf, Range
<1>6. \A k \in DOMAIN f : \E n \in DOMAIN g : g[n] = k
  BY DEF InverseOf, Range
<1>7. \A n \in DOMAIN g : g[n] \in DOMAIN f
  BY DEF InverseOf, Range
<1>8. DOMAIN gg = Range(ff)
  <2>1. ASSUME NEW n \in DOMAIN gg PROVE n \in Range(ff)
    BY <1>1, <1>2, <1>5 DEF Range
  <2>2. ASSUME NEW n \in Range(ff) PROVE n \in DOMAIN gg
    BY <1>1, <1>2, <1>4 DEF Range
  <2> QED
    BY <2>1, <2>2
<1>9. DOMAIN ff = Range(gg)
  <2>1. ASSUME NEW u \in DOMAIN ff PROVE u \in Range(gg)
    BY <1>1, <1>2, <1>3, <1>6 DEF Range
  <2>2. ASSUME NEW n \in DOMAIN gg PROVE gg[n] \in DOMAIN ff
    BY <1>1, <1>2, <1>3, <1>7
  <2> QED
    BY <2>1, <2>2 DEF Range
<1>10. \A u \in DOMAIN ff : gg[ff[u]] = u
  BY <1>1, <1>2, <1>3, <1>4
<1> QED
  BY <1>8, <1>9, <1>10 DEF InverseOf

-----------------------------------------------------------------------------
(* A room gets its channel: the one step that changes the tables.          *)
LEMMA NewRoomKeepsTables ==
  ASSUME IInv, NEW r \in Rooms, HandleNewRoom(r)
  PROVE  Tables' /\ NoPanic'
<1> DEFINE members == rooms[r].members
           new == DOMAIN members \ DOMAIN matrix_uid_to_nick
           channel == UniqueName(ChannelName(r, rooms[r].state), DOMAIN channels)
<1>1. new \subseteq Users
  BY DEF IInv, Rooming, KnownRoomsAreOnIrc, MembersAreUsers, HandleNewRoom, NextInResponse
<1>2. channel \notin DOMAIN channels
  <2> HIDE DEF channel
  <2>1. IsFiniteSet(DOMAIN channels)
    BY DEF IInv, Tables, ServerModelClosed
  <2> QED
    BY <2>1, UniqueNameIsFree DEF channel
<1>3. /\ r \notin DOMAIN room_id_to_channel
      /\ room_id_to_channel' = Insert(room_id_to_channel, r, channel)
      /\ channel_to_room_id' = Insert(channel_to_room_id, channel, r)
  BY DEF HandleNewRoom
<1>4. PICK nicks \in NickChoices(new, members, DOMAIN users) :
       LET uid_to_nick == [u \in DOMAIN matrix_uid_to_nick \cup new |->
                             IF u \in new THEN nicks[u] ELSE matrix_uid_to_nick[u]]
           created == {nicks[u] : u \in new}
           names == {uid_to_nick[u] : u \in DOMAIN members}
           entries == [n \in names |->
                         \E u \in DOMAIN members : uid_to_nick[u] = n /\ members[u].moderator]
       IN
       /\ matrix_uid_to_nick' = uid_to_nick
       /\ nick_matrix_uid' = [n \in DOMAIN nick_matrix_uid \cup created |->
                                IF n \in created THEN CHOOSE u \in new : nicks[u] = n
                                                 ELSE nick_matrix_uid[n]]
       /\ users' = [n \in DOMAIN users \cup created |->
                      [user     |-> IF n \in created THEN CHOOSE u \in new : nicks[u] = n
                                                     ELSE users[n].user,
                       channels |-> (IF n \in created THEN {} ELSE users[n].channels)
                                    \cup (IF n \in names THEN {channel} ELSE {})]]
       /\ channels' = Insert(channels, channel, entries)
       /\ session' = IF channel \in DOMAIN channels \/ ~(names \subseteq DOMAIN users')
                     THEN "panic" ELSE session
  BY DEF HandleNewRoom
<1> DEFINE uid_to_nick == [u \in DOMAIN matrix_uid_to_nick \cup new |->
                             IF u \in new THEN nicks[u] ELSE matrix_uid_to_nick[u]]
           created == {nicks[u] : u \in new}
           names == {uid_to_nick[u] : u \in DOMAIN members}
           entries == [n \in names |->
                         \E u \in DOMAIN members : uid_to_nick[u] = n /\ members[u].moderator]
<1> HIDE DEF channel, members, new
<1>5. /\ \A u \in new : nicks[u] \notin DOMAIN users
      /\ \A u, v \in new : nicks[u] = nicks[v] => u = v
  <2>1. IsFiniteSet(DOMAIN users)
    BY DEF IInv, Tables, ServerModelClosed
  <2>2. nicks \in NickChoices(new, members, DOMAIN users)
    BY <1>4
  <2> DEFINE taken == DOMAIN users
  <2> HIDE DEF taken
  <2>3. IsFiniteSet(taken) /\ nicks \in NickChoices(new, members, taken)
    BY <2>1, <2>2 DEF taken
  <2>4. \A u \in new : nicks[u] \notin taken
    BY <1>1, <2>3, NickChoicesAreNew, Zenon
  <2>5. \A u \in new : \A v \in new : u # v => nicks[u] # nicks[v]
    BY <1>1, <2>3, NickChoicesAreNew, Zenon
  <2> QED
    BY <2>4, <2>5 DEF taken
<1>6. /\ matrix_uid_to_nick' = uid_to_nick
      /\ nick_matrix_uid' = [n \in DOMAIN nick_matrix_uid \cup created |->
                               IF n \in created THEN CHOOSE u \in new : nicks[u] = n
                                                ELSE nick_matrix_uid[n]]
  BY <1>4
<1>7. /\ users' = [n \in DOMAIN users \cup created |->
                      [user     |-> IF n \in created THEN CHOOSE u \in new : nicks[u] = n
                                                     ELSE users[n].user,
                       channels |-> (IF n \in created THEN {} ELSE users[n].channels)
                                    \cup (IF n \in names THEN {channel} ELSE {})]]
      /\ channels' = Insert(channels, channel, entries)
      /\ session' = IF channel \in DOMAIN channels \/ ~(names \subseteq DOMAIN users')
                    THEN "panic" ELSE session
  BY <1>4
<1>8. names \subseteq DOMAIN users'
  <2>1. \A u \in DOMAIN matrix_uid_to_nick : matrix_uid_to_nick[u] \in DOMAIN users
    BY DEF IInv, Tables, TablesInverse, TablesAgreeWithServer, InverseOf, Range
  <2>2. DOMAIN users' = DOMAIN users \cup created
    BY <1>7
  <2> QED
    BY <2>1, <2>2 DEF new
<1>9. TablesInverse'
  <2>1. InverseOf(room_id_to_channel', channel_to_room_id')
    BY <1>2, <1>3, InsertKeepsInverse
       DEF IInv, Tables, TablesInverse, TablesAgreeWithServer
  <2>2. InverseOf(matrix_uid_to_nick', nick_matrix_uid')
    <3>1. new \cap DOMAIN matrix_uid_to_nick = {}
      BY DEF new
    <3>2. DOMAIN nick_matrix_uid = DOMAIN users
      BY DEF IInv, Tables, TablesAgreeWithServer
    <3>3. InverseOf(matrix_uid_to_nick, nick_matrix_uid)
      BY DEF IInv, Tables, TablesInverse
    <3>4. /\ \A u \in new : nicks[u] \notin DOMAIN nick_matrix_uid
          /\ \A u, v \in new : nicks[u] = nicks[v] => u = v
      BY <1>5, <3>2
    <3> QED
      BY <1>6, <3>1, <3>3, <3>4, ExtensionKeepsInverse, SMTT(60)
  <2> QED
    BY <2>1, <2>2 DEF TablesInverse
<1>10. /\ DOMAIN users' = DOMAIN users \cup created
       /\ DOMAIN channels' = DOMAIN channels \cup {channel}
       /\ \A n \in DOMAIN users : n \notin created
  BY <1>5, <1>7 DEF Insert
<1>11. TablesAgreeWithServer'
  <2>1. /\ DOMAIN channel_to_room_id' = DOMAIN channels'
        /\ DOMAIN nick_matrix_uid' = DOMAIN users'
    BY <1>3, <1>6, <1>10 DEF Insert, IInv, Tables, TablesAgreeWithServer
  <2>2. ASSUME NEW n \in DOMAIN users' PROVE users'[n].user = nick_matrix_uid'[n]
    BY <1>6, <1>7, <1>10 DEF IInv, Tables, TablesAgreeWithServer
  <2> QED
    BY <2>1, <2>2 DEF TablesAgreeWithServer
<1>12. /\ \A k \in DOMAIN channels : channels'[k] = channels[k]
       /\ DOMAIN channels'[channel] = names
  BY <1>2, <1>7 DEF Insert
<1>13. MembershipBothWays'
  <2>1. ASSUME NEW k \in DOMAIN channels', NEW n \in DOMAIN users'
        PROVE  n \in DOMAIN channels'[k] <=> k \in users'[n].channels
    <3>1. users'[n].channels = (IF n \in created THEN {} ELSE users[n].channels)
                                 \cup (IF n \in names THEN {channel} ELSE {})
      BY <1>7, <1>10
    <3>2. CASE k = channel
      BY <1>2, <1>10, <1>12, <3>1, <3>2 DEF IInv, Tables, ServerModelClosed
    <3>3. CASE k # channel
      BY <1>10, <1>12, <3>1, <3>3 DEF IInv, Tables, ServerModelClosed, MembershipBothWays
    <3> QED
      BY <3>2, <3>3
  <2> QED
    BY <2>1 DEF MembershipBothWays
<1>14. ServerModelClosed'
  <2>1. IsFiniteSet(DOMAIN users')
    <3>1. IsFiniteSet(new)
      BY <1>1, UsersAssumption, FS_Subset
    <3>2. IsFiniteSet(created)
      BY <3>1, ImageIsFinite
    <3>3. IsFiniteSet(DOMAIN users)
      BY DEF IInv, Tables, ServerModelClosed
    <3>4. DOMAIN users' = DOMAIN users \cup created
      BY <1>10
    <3> HIDE DEF created
    <3>5. IsFiniteSet(DOMAIN users \cup created)
      BY <3>2, <3>3, FS_Union
    <3> QED
      BY <3>4, <3>5
  <2>2. IsFiniteSet(DOMAIN channels')
    BY <1>10, FS_AddElement DEF IInv, Tables, ServerModelClosed
  <2>3. ASSUME NEW k \in DOMAIN channels' PROVE DOMAIN channels'[k] \subseteq DOMAIN users'
    BY <1>8, <1>10, <1>12 DEF IInv, Tables, ServerModelClosed
  <2>4. ASSUME NEW n \in DOMAIN users' PROVE users'[n].channels \subseteq DOMAIN channels'
    BY <1>7, <1>10 DEF IInv, Tables, ServerModelClosed
  <2> QED
    BY <2>1, <2>2, <2>3, <2>4 DEF ServerModelClosed
<1>15. NoPanic'
  BY <1>2, <1>7, <1>8 DEF IInv, NoPanic
<1> QED
  BY <1>9, <1>11, <1>13, <1>14, <1>15 DEF Tables

(* Every other step leaves the tables alone, and those that look a channel *)
(* up find all its members.                                                *)
LEMMA StepKeepsTables ==
  ASSUME IInv, [Next]_vars
  PROVE  Tables' /\ NoPanic'
<1> DEFINE SameTables == UNCHANGED <<mappings, server_model>>
<1>1. ASSUME SameTables PROVE Tables'
  <2>1. UNCHANGED <<room_id_to_channel, channel_to_room_id, matrix_uid_to_nick,
                    nick_matrix_uid, channels, users>>
    BY <1>1 DEF mappings, server_model
  <2>2. TablesInverse'
    BY <2>1 DEF IInv, Tables, TablesInverse
  <2>3. TablesAgreeWithServer' /\ MembershipBothWays' /\ ServerModelClosed'
    BY <2>1 DEF IInv, Tables, TablesAgreeWithServer, MembershipBothWays, ServerModelClosed
  <2> QED
    BY <2>2, <2>3 DEF Tables
<1>2. CASE UNCHANGED vars
  BY <1>1, <1>2 DEF IInv, NoPanic, vars
<1>3. ASSUME NEW r \in Rooms, HandleNewRoom(r) PROVE Tables' /\ NoPanic'
  BY <1>3, NewRoomKeepsTables
<1>4. ASSUME NEW r \in Rooms, HandleKnownRoom(r) PROVE Tables' /\ NoPanic'
  BY <1>1, <1>4 DEF HandleKnownRoom, IInv, NoPanic
<1>5. CASE SyncResponse \/ SyncDone \/ SyncError
  BY <1>1, <1>5 DEF SyncResponse, SyncDone, SyncError, IInv, NoPanic
<1>6. ASSUME NEW c \in ClientChannels, NEW t \in {"m.text", "m.emote"}, IrcPrivMsg(c, t)
      PROVE  Tables' /\ NoPanic'
  BY <1>1, <1>6 DEF IrcPrivMsg, IInv, NoPanic
<1>7. ASSUME NEW c \in ClientChannels, IrcJoin(c) \/ IrcWho(c) PROVE Tables' /\ NoPanic'
  <2>1. c \in DOMAIN channels => DOMAIN channels[c] \subseteq DOMAIN users
    BY DEF IInv, Tables, ServerModelClosed
  <2> QED
    BY <1>1, <1>7, <2>1 DEF IrcJoin, IrcWho, IInv, NoPanic
<1>8. CASE IrcClosed \/ (\E cmd \in {"PONG", "MODE", "AWAY"} : IrcReply(cmd))
  BY <1>1, <1>8 DEF IrcClosed, IrcReply, IInv, NoPanic
<1>9. ASSUME NEW i \in DOMAIN replies, JoinReply(i) PROVE Tables' /\ NoPanic'
  BY <1>1, <1>9 DEF JoinReply, IInv, NoPanic
<1>10. CASE ServerHandle \/ Deliver \/ ServerEvent
  BY <1>1, <1>10 DEF ServerHandle, Deliver, ServerEvent, IInv, NoPanic
<1>11. ASSUME NEW n \in 1 .. Len(requests), HttpFail(n) PROVE Tables' /\ NoPanic'
  BY <1>1, <1>11 DEF HttpFail, IInv, NoPanic
<1> QED
  BY <1>2, <1>3, <1>4, <1>5, <1>6, <1>7, <1>8, <1>9, <1>10, <1>11
     DEF Next, PollMatrix, PollIrc, Network

-----------------------------------------------------------------------------
(* Rooms and the joining map.                                              *)
LEMMA StepKeepsRooming ==
  ASSUME IInv, [Next]_vars
  PROVE  Rooming'
<1> USE DEF Rooming, JoiningHasNoChannel, KnownRoomsAreOnIrc, MembersAreUsers
<1>0. Rooming
  BY DEF IInv
<1> DEFINE Same == UNCHANGED <<rooms, joining_map, sync_rooms, room_id_to_channel, in_sync>>
<1>1. ASSUME Same PROVE Rooming'
  BY <1>0, <1>1
<1>2. CASE UNCHANGED vars
  BY <1>1, <1>2 DEF vars, mappings
<1>3. CASE SyncResponse
  <2> DEFINE fresh == {r \in joined : synced[r] < Len(log[r])}
  <2>1. /\ DOMAIN rooms' = DOMAIN rooms \cup fresh
        /\ DOMAIN sync_rooms' = fresh
        /\ UNCHANGED <<joining_map, room_id_to_channel>>
        /\ in_sync' = TRUE
    BY <1>3 DEF SyncResponse, mappings
  <2>2. DOMAIN sync_rooms = {}
    BY <1>0, <1>3 DEF SyncResponse, Idle
  <2>3. ASSUME NEW r \in DOMAIN rooms' PROVE DOMAIN rooms'[r].members \subseteq Users
    <3>1. CASE r \notin fresh
      <4>1. rooms'[r] = rooms[r]
        BY <1>3, <2>1, <3>1 DEF SyncResponse
      <4> QED
        BY <1>0, <2>1, <3>1, <4>1
    <3>2. CASE r \in fresh /\ r \in DOMAIN rooms
      <4>1. rooms'[r] = update_from_sync(rooms[r], Response(r))
        BY <1>3, <2>1, <3>2 DEF SyncResponse
      <4>2. DOMAIN rooms[r].members \subseteq Users
        BY <1>0, <3>2
      <4> QED
        BY <4>1, <4>2, UpdateFromSyncMembers
    <3>3. CASE r \in fresh /\ r \notin DOMAIN rooms
      <4>1. rooms'[r] = from_sync(Response(r))
        BY <1>3, <2>1, <3>3 DEF SyncResponse
      <4> QED
        BY <4>1, FromSyncMembers
    <3> QED
      BY <3>1, <3>2, <3>3
  <2> QED
    BY <1>0, <2>1, <2>2, <2>3
<1>4. ASSUME NEW r \in Rooms, HandleKnownRoom(r) PROVE Rooming'
  <2>1. /\ DOMAIN joining_map' = DOMAIN joining_map \ {r}
        /\ DOMAIN sync_rooms' = DOMAIN sync_rooms \ {r}
        /\ UNCHANGED <<rooms, room_id_to_channel, in_sync>>
        /\ r \in DOMAIN room_id_to_channel /\ in_sync
    BY <1>4 DEF HandleKnownRoom, Unjoined, Without, mappings, NextInResponse
  <2> QED
    BY <1>0, <2>1
<1>5. ASSUME NEW r \in Rooms, HandleNewRoom(r) PROVE Rooming'
  <2>1. /\ DOMAIN joining_map' = DOMAIN joining_map \ {r}
        /\ DOMAIN sync_rooms' = DOMAIN sync_rooms \ {r}
        /\ DOMAIN room_id_to_channel' = DOMAIN room_id_to_channel \cup {r}
        /\ UNCHANGED <<rooms, in_sync>>
        /\ r \in DOMAIN sync_rooms /\ in_sync
    BY <1>5 DEF HandleNewRoom, Unjoined, Without, Insert, NextInResponse
  <2> QED
    BY <1>0, <2>1
<1>6. CASE SyncDone
  BY <1>0, <1>6 DEF SyncDone, mappings
<1>7. ASSUME NEW i \in DOMAIN replies, JoinReply(i) PROVE Rooming'
  <2> DEFINE room == replies[i].room
  <2>1. /\ UNCHANGED <<rooms, sync_rooms, room_id_to_channel, in_sync>>
        /\ \/ joining_map' = joining_map
           \/ /\ joining_map' = Insert(joining_map, room, replies[i].channel)
              /\ room \notin DOMAIN room_id_to_channel
    BY <1>7 DEF JoinReply, mappings
  <2>2. DOMAIN joining_map' \cap DOMAIN room_id_to_channel = {}
    BY <1>0, <2>1 DEF Insert
  <2> QED
    BY <1>0, <2>1, <2>2
<1>8. ASSUME NEW c \in ClientChannels,
             (\E t \in {"m.text", "m.emote"} : IrcPrivMsg(c, t)) \/ IrcJoin(c) \/ IrcWho(c)
      PROVE  Rooming'
  BY <1>1, <1>8 DEF IrcPrivMsg, IrcJoin, IrcWho, mappings
<1>9. CASE SyncError \/ IrcClosed \/ (\E cmd \in {"PONG", "MODE", "AWAY"} : IrcReply(cmd))
  BY <1>1, <1>9 DEF SyncError, IrcClosed, IrcReply, mappings
<1>10. CASE ServerHandle \/ Deliver \/ ServerEvent
  BY <1>1, <1>10 DEF ServerHandle, Deliver, ServerEvent, mappings
<1>11. ASSUME NEW n \in 1 .. Len(requests), HttpFail(n) PROVE Rooming'
  BY <1>1, <1>11 DEF HttpFail, mappings
<1> QED
  BY <1>2, <1>3, <1>4, <1>5, <1>6, <1>7, <1>8, <1>9, <1>10, <1>11
     DEF Next, PollMatrix, PollIrc, Network

-----------------------------------------------------------------------------
(* Types.                                                                  *)

(* What removing an element leaves of a sequence. *)
LEMMA RemoveAtType ==
  ASSUME NEW S, NEW s \in Seq(S), NEW i \in 1 .. Len(s)
  PROVE  RemoveAt(s, i) \in Seq(S)
<1>1. SubSeq(s, 1, i - 1) \in Seq(S) /\ SubSeq(s, i + 1, Len(s)) \in Seq(S)
  OBVIOUS
<1> QED
  BY <1>1, ConcatProperties DEF RemoveAt

(* The counter of commands stays within its bound. *)
LEMMA CommandsStayBounded ==
  ASSUME TypeOK, Command
  PROVE  commands' \in 0 .. MaxCommands
<1>1. commands \in 0 .. MaxCommands /\ MaxCommands \in Nat
  BY BoundsAssumption DEF TypeOK
<1>2. commands < MaxCommands /\ commands' = commands + 1
  BY DEF Command
<1> QED
  BY <1>1, <1>2

LEMMA StepKeepsType ==
  ASSUME IInv, [Next]_vars
  PROVE  TypeOK'
<1>0. TypeOK
  BY DEF IInv
<1> DEFINE Request == SendRequest \cup JoinRequest
           SameTables == UNCHANGED <<rooms, mappings>>
           SameRequests == UNCHANGED <<requests, replies>>
           SameServer == UNCHANGED <<log, synced, joined, left_out>>
<1>1. CASE UNCHANGED vars
  BY <1>0, <1>1 DEF TypeOK, vars, mappings, homeserver
<1>2. CASE SyncResponse
  <2> DEFINE fresh == {r \in joined : synced[r] < Len(log[r])}
  <2>1. fresh \subseteq Rooms
    BY <1>0 DEF TypeOK
  <2>2. DOMAIN rooms' \subseteq Rooms /\ DOMAIN sync_rooms' \subseteq Rooms
    BY <1>0, <1>2, <2>1 DEF TypeOK, SyncResponse
  <2>3. synced' \in [Rooms -> Nat]
    <3>1. \A r \in Rooms : Len(log[r]) \in Nat
      BY <1>0 DEF TypeOK
    <3> QED
      BY <1>0, <1>2, <3>1 DEF TypeOK, SyncResponse
  <2>5. left_out' \in [Rooms -> SUBSET Nat]
    <3>1. ASSUME NEW r \in Rooms PROVE synced[r] + 1 .. Cut(r) \subseteq Nat
      <4>1. Len(log[r]) \in Nat /\ synced[r] \in Nat
        BY <1>0 DEF TypeOK
      <4> QED
        BY <4>1, BoundsAssumption DEF Cut
    <3>2. ASSUME NEW r \in Rooms PROVE left_out[r] \in SUBSET Nat
      BY <1>0 DEF TypeOK
    <3>3. left_out' = [r \in Rooms |-> IF r \in fresh
                                      THEN left_out[r] \cup (synced[r] + 1 .. Cut(r))
                                      ELSE left_out[r]]
      BY <1>2 DEF SyncResponse
    <3>4. ASSUME NEW r \in Rooms PROVE left_out'[r] \in SUBSET Nat
      BY <3>1, <3>2, <3>3
    <3> QED
      BY <3>3, <3>4
  <2>4. /\ in_sync' = TRUE
        /\ UNCHANGED <<session, is_first_sync, room_id_to_channel, channel_to_room_id,
                       matrix_uid_to_nick, nick_matrix_uid, joining_map, requests, replies, log,
                       joined, commands, failures>>
    BY <1>2 DEF SyncResponse, mappings
  <2> QED
    BY <1>0, <2>2, <2>3, <2>4, <2>5 DEF TypeOK
<1>3. ASSUME NEW r \in Rooms, HandleKnownRoom(r) PROVE TypeOK'
  <2>1. /\ joining_map' = Without(joining_map, r) /\ sync_rooms' = Without(sync_rooms, r)
        /\ UNCHANGED <<session, is_first_sync, in_sync, rooms, room_id_to_channel,
                       channel_to_room_id, matrix_uid_to_nick, nick_matrix_uid, requests, replies,
                       log, synced, joined, left_out, commands, failures>>
    BY <1>3 DEF HandleKnownRoom, Unjoined, mappings, homeserver
  <2> QED
    BY <1>0, <2>1 DEF TypeOK, Without, Range
<1>4. ASSUME NEW r \in Rooms, HandleNewRoom(r) PROVE TypeOK'
  <2> DEFINE members == rooms[r].members
             new == DOMAIN members \ DOMAIN matrix_uid_to_nick
  <2>1. new \subseteq Users
    BY <1>4 DEF IInv, Rooming, KnownRoomsAreOnIrc, MembersAreUsers, HandleNewRoom, NextInResponse
  <2> DEFINE channel == UniqueName(ChannelName(r, rooms[r].state), DOMAIN channels)
  <2>2. /\ room_id_to_channel' = Insert(room_id_to_channel, r, channel)
        /\ channel_to_room_id' = Insert(channel_to_room_id, channel, r)
        /\ session' \in {session, "panic"}
    BY <1>4 DEF HandleNewRoom
  <2>7. PICK nicks \in NickChoices(new, members, DOMAIN users) :
          /\ matrix_uid_to_nick' = [u \in DOMAIN matrix_uid_to_nick \cup new |->
                                      IF u \in new THEN nicks[u] ELSE matrix_uid_to_nick[u]]
          /\ nick_matrix_uid' = [n \in DOMAIN nick_matrix_uid \cup {nicks[u] : u \in new} |->
                                   IF n \in {nicks[u] : u \in new}
                                   THEN CHOOSE u \in new : nicks[u] = n
                                   ELSE nick_matrix_uid[n]]
    BY <1>4 DEF HandleNewRoom
  <2>8. DOMAIN matrix_uid_to_nick' = DOMAIN matrix_uid_to_nick \cup new
    BY <2>7
  <2>3. /\ joining_map' = Without(joining_map, r) /\ sync_rooms' = Without(sync_rooms, r)
        /\ UNCHANGED <<is_first_sync, in_sync, rooms, requests, replies, log, synced, joined,
                       left_out, commands, failures>>
    BY <1>4 DEF HandleNewRoom, Unjoined, homeserver
  <2>4. Range(nick_matrix_uid') \subseteq Users
    <3> HIDE DEF new, members
    <3>1. ASSUME NEW n \in {nicks[u] : u \in new}
          PROVE  (CHOOSE u \in new : nicks[u] = n) \in new
      OBVIOUS
    <3>2. ASSUME NEW n \in DOMAIN nick_matrix_uid' PROVE nick_matrix_uid'[n] \in Users
      <4>1. CASE n \in {nicks[u] : u \in new}
        BY <2>1, <2>7, <3>1, <4>1
      <4>2. CASE n \notin {nicks[u] : u \in new}
        <5>1. n \in DOMAIN nick_matrix_uid /\ nick_matrix_uid'[n] = nick_matrix_uid[n]
          BY <2>7, <4>2
        <5> QED
          BY <1>0, <5>1 DEF TypeOK, Range
      <4> QED
        BY <4>1, <4>2
    <3> QED
      BY <3>2 DEF Range
  <2>5. /\ DOMAIN room_id_to_channel' \subseteq Rooms /\ Range(channel_to_room_id') \subseteq Rooms
        /\ DOMAIN matrix_uid_to_nick' \subseteq Users
    BY <1>0, <2>1, <2>2, <2>8 DEF TypeOK, Insert, Range
  <2>6. /\ DOMAIN joining_map' \subseteq Rooms /\ Range(joining_map') \subseteq ClientChannels
        /\ DOMAIN sync_rooms' \subseteq Rooms
    BY <1>0, <2>3 DEF TypeOK, Without, Range
  <2> QED
    BY <1>0, <2>2, <2>3, <2>4, <2>5, <2>6 DEF TypeOK
<1>5. CASE SyncDone \/ SyncError \/ IrcClosed
  BY <1>0, <1>5 DEF SyncDone, SyncError, IrcClosed, TypeOK, mappings, homeserver
<1>6. ASSUME NEW c \in ClientChannels, NEW t \in {"m.text", "m.emote"}, IrcPrivMsg(c, t)
      PROVE  TypeOK'
  <2>1. requests' \in Seq(Request)
    <3>1. CASE c \in DOMAIN channel_to_room_id
      <4> DEFINE req == [kind |-> "send", room |-> channel_to_room_id[c], msgtype |-> t,
                         handled |-> FALSE]
      <4>1. req \in SendRequest
        BY <1>0, <1>6, <3>1 DEF TypeOK, Range, SendRequest
      <4>2. requests' = Append(requests, req)
        BY <1>6, <3>1 DEF IrcPrivMsg
      <4>3. requests \in Seq(Request) /\ req \in Request
        BY <1>0, <4>1 DEF TypeOK
      <4> HIDE DEF req, Request
      <4> QED
        BY <4>2, <4>3
    <3>2. CASE c \notin DOMAIN channel_to_room_id
      BY <1>0, <1>6, <3>2 DEF TypeOK, IrcPrivMsg
    <3> QED
      BY <3>1, <3>2
  <2>2. commands' \in 0 .. MaxCommands
    <3>1. Command
      BY <1>6 DEF IrcPrivMsg
    <3> QED
      BY <1>0, <3>1, CommandsStayBounded
  <2> QED
    BY <1>0, <1>6, <2>1, <2>2 DEF TypeOK, IrcPrivMsg, mappings, homeserver
<1>7. ASSUME NEW c \in ClientChannels, IrcJoin(c) PROVE TypeOK'
  <2>1. requests' \in Seq(Request)
    <3> DEFINE req == [kind |-> "join", channel |-> c, handled |-> FALSE]
    <3>1. req \in JoinRequest
      BY <1>7 DEF JoinRequest
    <3>2. requests' = requests \/ requests' = Append(requests, req)
      BY <1>7 DEF IrcJoin
    <3>3. requests \in Seq(Request) /\ req \in Request
      BY <1>0, <3>1 DEF TypeOK
    <3> HIDE DEF req, Request
    <3> QED
      BY <3>2, <3>3
  <2>2. commands' \in 0 .. MaxCommands
    <3>1. Command
      BY <1>7 DEF IrcJoin
    <3> QED
      BY <1>0, <3>1, CommandsStayBounded
  <2>3. session' \in {session, "panic"}
    BY <1>7 DEF IrcJoin
  <2> QED
    BY <1>0, <1>7, <2>1, <2>2, <2>3 DEF TypeOK, IrcJoin, mappings, homeserver
<1>8. ASSUME (\E c \in ClientChannels : IrcWho(c))
             \/ (\E cmd \in {"PONG", "MODE", "AWAY"} : IrcReply(cmd))
      PROVE  TypeOK'
  <2>1. commands' \in 0 .. MaxCommands
    <3>1. Command
      BY <1>8 DEF IrcWho, IrcReply
    <3> QED
      BY <1>0, <3>1, CommandsStayBounded
  <2>2. session' \in {session, "panic"}
    BY <1>8 DEF IrcWho, IrcReply
  <2> QED
    BY <1>0, <1>8, <2>1, <2>2 DEF TypeOK, IrcWho, IrcReply, mappings, homeserver
<1>9. ASSUME NEW i \in DOMAIN replies, JoinReply(i) PROVE TypeOK'
  <2>1. replies' \in Seq(JoinAnswer)
    BY <1>0, <1>9, RemoveAtType DEF TypeOK, JoinReply
  <2>2. replies[i] \in JoinAnswer
    BY <1>0, <1>9 DEF TypeOK
  <2>3. DOMAIN joining_map' \subseteq Rooms /\ Range(joining_map') \subseteq ClientChannels
    <3>1. \/ joining_map' = joining_map
          \/ /\ joining_map' = Insert(joining_map, replies[i].room, replies[i].channel)
             /\ replies[i].room # NoValue
      BY <1>9 DEF JoinReply
    <3>2. replies[i].room # NoValue => replies[i].room \in Rooms
      BY <2>2 DEF JoinAnswer
    <3>3. replies[i].channel \in ClientChannels
      BY <2>2 DEF JoinAnswer
    <3>4. CASE joining_map' = joining_map
      BY <1>0, <3>4 DEF TypeOK
    <3>5. ASSUME joining_map' = Insert(joining_map, replies[i].room, replies[i].channel),
                 replies[i].room \in Rooms
          PROVE  DOMAIN joining_map' \subseteq Rooms /\ Range(joining_map') \subseteq ClientChannels
      BY <1>0, <3>3, <3>5 DEF TypeOK, Insert, Range
    <3> QED
      BY <3>1, <3>2, <3>4, <3>5
  <2>4. session' \in {session, "failed"}
    BY <1>9 DEF JoinReply
  <2> QED
    BY <1>0, <1>9, <2>1, <2>3, <2>4 DEF TypeOK, JoinReply, mappings, homeserver
<1>10. CASE ServerHandle
  <2>1. PICK i \in DOMAIN requests :
          /\ requests' = [requests EXCEPT ![i].handled = TRUE]
          /\ \/ /\ requests[i].kind = "send" /\ joined' = joined
                /\ log' = [log EXCEPT ![requests[i].room] =
                                         Append(@, OwnMessage(requests[i].msgtype))]
             \/ /\ requests[i].kind = "join" /\ requests[i].channel \in DOMAIN Directory
                /\ joined' = joined \cup {Directory[requests[i].channel]}
                /\ \/ log' = log
                   \/ log' = [log EXCEPT ![Directory[requests[i].channel]] =
                                            Append(@, OwnMembership)]
             \/ log' = log /\ joined' = joined
    BY <1>10 DEF ServerHandle
  <2>2. requests[i] \in Request
    BY <1>0 DEF TypeOK
  <2>3. requests' \in Seq(Request)
    <3>1. [requests[i] EXCEPT !.handled = TRUE] \in Request
      BY <2>2 DEF SendRequest, JoinRequest
    <3> HIDE DEF Request
    <3>2. requests \in Seq(Request)
      BY <1>0 DEF TypeOK, Request
    <3> QED
      BY <2>1, <3>1, <3>2
  <2>4. joined' \subseteq Rooms
    BY <1>0, <2>1, HomeserverAssumption DEF TypeOK, Range
  <2>5. log' \in [Rooms -> Seq(Events)]
    <3>1. log \in [Rooms -> Seq(Events)]
      BY <1>0 DEF TypeOK
    <3>2. OwnMembership \in Events
      BY DEF Events
    <3>3. CASE log' = log
      BY <3>1, <3>3
    <3>4. ASSUME requests[i].kind = "send",
                 log' = [log EXCEPT ![requests[i].room] =
                                      Append(@, OwnMessage(requests[i].msgtype))]
          PROVE  log' \in [Rooms -> Seq(Events)]
      <4>1. requests[i].room \in Rooms /\ OwnMessage(requests[i].msgtype) \in Events
        BY <2>2, <3>4 DEF SendRequest, JoinRequest, Events
      <4> QED
        BY <3>1, <3>4, <4>1
    <3>5. ASSUME requests[i].channel \in DOMAIN Directory,
                 log' = [log EXCEPT ![Directory[requests[i].channel]] = Append(@, OwnMembership)]
          PROVE  log' \in [Rooms -> Seq(Events)]
      <4>1. Directory[requests[i].channel] \in Rooms
        BY <3>5, HomeserverAssumption DEF Range
      <4> QED
        BY <3>1, <3>2, <3>5, <4>1
    <3> QED
      BY <2>1, <3>3, <3>4, <3>5
  <2> QED
    BY <1>0, <1>10, <2>3, <2>4, <2>5 DEF TypeOK, ServerHandle, mappings
<1>11. CASE Deliver
  <2>1. Head(requests) \in Request /\ Tail(requests) \in Seq(Request)
    <3> HIDE DEF Request
    <3>1. requests \in Seq(Request)
      BY <1>0 DEF TypeOK, Request
    <3> QED
      BY <1>11, <3>1, HeadTailProperties DEF Deliver
  <2>2. replies' \in Seq(JoinAnswer)
    <3> DEFINE answer == [channel |-> Head(requests).channel,
                          room |-> Get(Directory, Head(requests).channel)]
    <3>1. CASE Head(requests).kind = "send"
      BY <1>0, <1>11, <3>1 DEF TypeOK, Deliver
    <3>2. CASE Head(requests).kind # "send"
      <4>1. Head(requests).channel \in ClientChannels
        BY <2>1, <3>2 DEF SendRequest, JoinRequest
      <4>2. answer \in JoinAnswer
        BY <4>1, HomeserverAssumption DEF JoinAnswer, Get, Range
      <4>3. replies' = Append(replies, answer)
        BY <1>11, <3>2 DEF Deliver
      <4>4. replies \in Seq(JoinAnswer)
        BY <1>0 DEF TypeOK
      <4> HIDE DEF answer
      <4> QED
        BY <4>2, <4>3, <4>4
    <3> QED
      BY <3>1, <3>2
  <2> QED
    BY <1>0, <1>11, <2>1, <2>2 DEF TypeOK, Deliver, mappings, homeserver
<1>12. ASSUME NEW n \in 1 .. Len(requests), HttpFail(n) PROVE TypeOK'
  <2>1. requests' \in Seq(Request)
    <3> HIDE DEF Request
    <3>1. requests \in Seq(Request)
      BY <1>0 DEF TypeOK, Request
    <3>2. requests' = SubSeq(requests, n + 1, Len(requests))
      BY <1>12 DEF HttpFail
    <3> QED
      BY <3>1, <3>2
  <2>2. failures' \in 0 .. MaxFailures /\ session' \in {session, "failed"}
    BY <1>0, <1>12, BoundsAssumption DEF TypeOK, HttpFail
  <2> QED
    BY <1>0, <1>12, <2>1, <2>2 DEF TypeOK, HttpFail, mappings, homeserver
<1>13. CASE ServerEvent
  <2>1. PICK post \in Incoming : log' = [log EXCEPT ![post[1]] = Append(@, post[2])]
    BY <1>13 DEF ServerEvent
  <2>2. post[1] \in Rooms /\ post[2] \in Events
    BY HomeserverAssumption DEF Events
  <2>3. log' \in [Rooms -> Seq(Events)]
    BY <1>0, <2>1, <2>2 DEF TypeOK
  <2> QED
    BY <1>0, <1>13, <2>3 DEF TypeOK, ServerEvent, mappings
<1> QED
  BY <1>1, <1>2, <1>3, <1>4, <1>5, <1>6, <1>7, <1>8, <1>9, <1>10, <1>11, <1>12, <1>13
     DEF Next, PollMatrix, PollIrc, Network

-----------------------------------------------------------------------------
(* The invariant holds, and what follows from it.                          *)

(* A session starts in the invariant: only its own nick is registered. *)
LEMMA InitIInv == Init => IInv
<1> SUFFICES ASSUME Init PROVE IInv
  OBVIOUS
<1> USE DEF Init, InitialUsers
<1>1. DOMAIN <<>> = {} /\ Range(<<>>) = {}
  BY DEF Range
<1>2. TypeOK
  <2>1. Range(nick_matrix_uid) \subseteq Users /\ DOMAIN matrix_uid_to_nick \subseteq Users
    BY UsersAssumption DEF Range
  <2>2. log \in [Rooms -> Seq(Events)]
    <3>1. InitialEvents \subseteq Events
      BY DEF Events
    <3>2. log \in [Rooms -> Seq(InitialEvents)]
      BY HomeserverAssumption
    <3>3. \A r \in Rooms : log[r] \in Seq(Events)
      <4> TAKE r \in Rooms
      <4>1. log[r] \in Seq(InitialEvents)
        BY <3>2
      <4> HIDE DEF Init, InitialUsers
      <4> QED
        BY <3>1, <4>1
    <3> QED
      BY <3>2, <3>3
  <2>3. joined \subseteq Rooms /\ synced \in [Rooms -> Nat] /\ left_out \in [Rooms -> SUBSET Nat]
    BY HomeserverAssumption
  <2>4. requests \in Seq(SendRequest \cup JoinRequest) /\ replies \in Seq(JoinAnswer)
    OBVIOUS
  <2>5. commands \in 0 .. MaxCommands /\ failures \in 0 .. MaxFailures
    BY BoundsAssumption
  <2> QED
    BY <1>1, <2>1, <2>2, <2>3, <2>4, <2>5 DEF TypeOK
<1>3. TablesInverse
  <2>1. InverseOf(room_id_to_channel, channel_to_room_id)
    BY <1>1 DEF InverseOf
  <2>2. InverseOf(matrix_uid_to_nick, nick_matrix_uid)
    BY DEF InverseOf, Range
  <2> QED
    BY <2>1, <2>2 DEF TablesInverse
<1>4. TablesAgreeWithServer /\ MembershipBothWays
  BY <1>1 DEF TablesAgreeWithServer, MembershipBothWays
<1>5. ServerModelClosed
  BY <1>1, FS_EmptySet, FS_Singleton DEF ServerModelClosed
<1>6. Rooming
  BY <1>1 DEF Rooming, JoiningHasNoChannel, KnownRoomsAreOnIrc, MembersAreUsers
<1> QED
  BY <1>2, <1>3, <1>4, <1>5, <1>6 DEF IInv, Tables, NoPanic

(* Every reachable state satisfies the inductive invariant. *)
THEOREM Invariance == Spec => []IInv
<1>1. IInv /\ [Next]_vars => IInv'
  BY StepKeepsTables, StepKeepsRooming, StepKeepsType DEF IInv
<1> QED
  BY InitIInv, <1>1, PTL DEF Spec

(* The session's state keeps its types: what the homeserver, the client and*)
(* the tables hold are rooms, users, requests and answers.                 *)
THEOREM TypeCorrect == Spec => []TypeOK
<1>1. IInv => TypeOK
  BY DEF IInv
<1> QED
  BY Invariance, <1>1, PTL

(* The assertions of ServerModel (irc/models.rs:78, :124) never fire. *)
THEOREM NeverPanics == Spec => []NoPanic
<1>1. IInv => NoPanic
  BY DEF IInv
<1> QED
  BY Invariance, <1>1, PTL

(* The two name tables of MappingStore are pairs of inverse maps. *)
THEOREM TablesStayInverse == Spec => []TablesInverse
<1>1. IInv => TablesInverse
  BY DEF IInv, Tables
<1> QED
  BY Invariance, <1>1, PTL

(* MappingStore and ServerModel know the same channels and nicks. *)
THEOREM ModelsAgree == Spec => []TablesAgreeWithServer
<1>1. IInv => TablesAgreeWithServer
  BY DEF IInv, Tables
<1> QED
  BY Invariance, <1>1, PTL

(* A channel's list of nicks mirrors the nicks' lists of channels. *)
THEOREM MembershipIsMutual == Spec => []MembershipBothWays
<1>1. IInv => MembershipBothWays
  BY DEF IInv, Tables
<1> QED
  BY Invariance, <1>1, PTL

(* No room waits in joining_map that has a channel. *)
THEOREM RoomsAreTracked == Spec => []JoiningHasNoChannel
<1>1. IInv => JoiningHasNoChannel
  BY DEF IInv, Rooming
<1> QED
  BY Invariance, <1>1, PTL

(* Every room the Matrix client knows is on IRC once its response is       *)
(* handled.                                                                *)
THEOREM KnownRoomsReachIrc == Spec => []KnownRoomsAreOnIrc
<1>1. IInv => KnownRoomsAreOnIrc
  BY DEF IInv, Rooming
<1> QED
  BY Invariance, <1>1, PTL

-----------------------------------------------------------------------------
(* The tables implement NameRegistry.                                      *)

(* A map that has an inverse gives no name twice. *)
LEMMA InverseIsInjective ==
  ASSUME NEW f, NEW g, InverseOf(f, g)
  PROVE  \A a, b \in DOMAIN f : f[a] = f[b] => a = b
BY DEF InverseOf

(* The nicks: nobody is renamed, nobody shares a nick, from the login to   *)
(* the end of the session.                                                 *)
THEOREM NicksImplementRegistry == Spec => NicksAreRegistered
<1>1. Init => NickRegistry!Init
  BY SMTT(60) DEF Init, NickRegistry!Init, NickRegistry!Injective
<1>2. ASSUME IInv, IInv', [Next]_vars PROVE [NickRegistry!Bind]_matrix_uid_to_nick
  <2>1. NickRegistry!Injective(matrix_uid_to_nick')
    BY <1>2, InverseIsInjective DEF IInv, Tables, TablesInverse, NickRegistry!Injective
  <2>2. ASSUME NEW r \in Rooms, HandleNewRoom(r) PROVE NickRegistry!Bind
    <3> DEFINE new == DOMAIN rooms[r].members \ DOMAIN matrix_uid_to_nick
    <3>1. PICK nicks \in NickChoices(new, rooms[r].members, DOMAIN users) :
                 matrix_uid_to_nick' = [u \in DOMAIN matrix_uid_to_nick \cup new |->
                                          IF u \in new THEN nicks[u] ELSE matrix_uid_to_nick[u]]
      BY <2>2, ZenonT(60) DEF HandleNewRoom
    <3> QED
      BY <2>1, <3>1 DEF NickRegistry!Bind
  <2>3. CASE UNCHANGED matrix_uid_to_nick
    BY <2>3
  <2> QED
    BY <1>2, <2>2, <2>3
       DEF Next, vars, mappings, PollMatrix, PollIrc, Network, SyncResponse, HandleKnownRoom,
           SyncDone, SyncError, IrcPrivMsg, IrcJoin, IrcWho, IrcReply, IrcClosed, JoinReply,
           ServerHandle, Deliver, HttpFail, ServerEvent
<1> QED
  BY Invariance, <1>1, <1>2, PTL DEF Spec, NicksAreRegistered, NickRegistry!Spec

(* The channels: a room keeps its channel, no two rooms share one. *)
THEOREM ChannelsImplementRegistry == Spec => ChannelsAreRegistered
<1>1. Init => ChannelRegistry!Init
  BY DEF Init, ChannelRegistry!Init, ChannelRegistry!Injective
<1>2. ASSUME IInv, IInv', [Next]_vars PROVE [ChannelRegistry!Bind]_room_id_to_channel
  <2>1. ChannelRegistry!Injective(room_id_to_channel')
    BY <1>2, InverseIsInjective DEF IInv, Tables, TablesInverse, ChannelRegistry!Injective
  <2>2. ASSUME NEW r \in Rooms, HandleNewRoom(r) PROVE ChannelRegistry!Bind
    <3>1. /\ r \notin DOMAIN room_id_to_channel
          /\ room_id_to_channel' =
               Insert(room_id_to_channel, r,
                      UniqueName(ChannelName(r, rooms[r].state), DOMAIN channels))
      BY <2>2 DEF HandleNewRoom
    <3> QED
      BY <2>1, <3>1 DEF ChannelRegistry!Bind, Insert
  <2>3. CASE UNCHANGED room_id_to_channel
    BY <2>3
  <2> QED
    BY <1>2, <2>2, <2>3
       DEF Next, vars, mappings, PollMatrix, PollIrc, Network, SyncResponse, HandleKnownRoom,
           SyncDone, SyncError, IrcPrivMsg, IrcJoin, IrcWho, IrcReply, IrcClosed, JoinReply,
           ServerHandle, Deliver, HttpFail, ServerEvent
<1> QED
  BY Invariance, <1>1, <1>2, PTL DEF Spec, ChannelsAreRegistered, ChannelRegistry!Spec

-----------------------------------------------------------------------------
(* The members of a room and of its channel.                               *)

(* What is said of a new room's channel, without the choice of the nicks.  *)
LEMMA NewRoomFacts ==
  ASSUME IInv, NEW r \in Rooms, HandleNewRoom(r)
  PROVE  LET members == rooms[r].members
             names == {matrix_uid_to_nick'[u] : u \in DOMAIN members}
             entries == [n \in names |-> \E u \in DOMAIN members :
                                           matrix_uid_to_nick'[u] = n /\ members[u].moderator]
         IN  /\ DOMAIN matrix_uid_to_nick' = DOMAIN matrix_uid_to_nick \cup DOMAIN members
             /\ \A u \in DOMAIN matrix_uid_to_nick : matrix_uid_to_nick'[u] = matrix_uid_to_nick[u]
             /\ \E channel :
                  /\ channel \notin DOMAIN channels
                  /\ room_id_to_channel' = Insert(room_id_to_channel, r, channel)
                  /\ channels' = Insert(channels, channel, entries)
                  /\ irc_out' = irc_out \o JoinLines(channel, entries)
                                        \o RedirectLines(r, channel)
                                        \o TimelineLines(sync_rooms[r], channel, matrix_uid_to_nick')
<1> DEFINE members == rooms[r].members
           new == DOMAIN members \ DOMAIN matrix_uid_to_nick
           channel == UniqueName(ChannelName(r, rooms[r].state), DOMAIN channels)
           names == {matrix_uid_to_nick'[u] : u \in DOMAIN members}
           entries == [n \in names |-> \E u \in DOMAIN members :
                                         matrix_uid_to_nick'[u] = n /\ members[u].moderator]
<1>1. channel \notin DOMAIN channels
  <2> HIDE DEF channel
  <2>1. IsFiniteSet(DOMAIN channels)
    BY DEF IInv, Tables, ServerModelClosed
  <2> QED
    BY <2>1, UniqueNameIsFree DEF channel
<1>2. PICK nicks :
         /\ matrix_uid_to_nick' = [u \in DOMAIN matrix_uid_to_nick \cup new |->
                                     IF u \in new THEN nicks[u] ELSE matrix_uid_to_nick[u]]
         /\ channels' = Insert(channels, channel, entries)
         /\ irc_out' = irc_out \o JoinLines(channel, entries)
                               \o RedirectLines(r, channel)
                               \o TimelineLines(sync_rooms[r], channel, matrix_uid_to_nick')
  <2>1. PICK nicks \in NickChoices(new, members, DOMAIN users) :
           LET uid_to_nick == [u \in DOMAIN matrix_uid_to_nick \cup new |->
                                 IF u \in new THEN nicks[u] ELSE matrix_uid_to_nick[u]]
               given == {uid_to_nick[u] : u \in DOMAIN members}
               filled == [n \in given |->
                            \E u \in DOMAIN members : uid_to_nick[u] = n /\ members[u].moderator]
           IN  /\ matrix_uid_to_nick' = uid_to_nick
               /\ channels' = Insert(channels, channel, filled)
               /\ irc_out' = irc_out \o JoinLines(channel, filled)
                                     \o RedirectLines(r, channel)
                                     \o TimelineLines(sync_rooms[r], channel, uid_to_nick)
    BY DEF HandleNewRoom
  <2> HIDE DEF channel, members, new
  <2> QED
    BY <2>1
<1>3. /\ DOMAIN matrix_uid_to_nick' = DOMAIN matrix_uid_to_nick \cup DOMAIN members
      /\ \A u \in DOMAIN matrix_uid_to_nick : matrix_uid_to_nick'[u] = matrix_uid_to_nick[u]
  BY <1>2
<1>4. room_id_to_channel' = Insert(room_id_to_channel, r, channel)
  BY DEF HandleNewRoom
<1> HIDE DEF channel, entries, members
<1>5. \E ch : /\ ch \notin DOMAIN channels
              /\ room_id_to_channel' = Insert(room_id_to_channel, r, ch)
              /\ channels' = Insert(channels, ch, entries)
              /\ irc_out' = irc_out \o JoinLines(ch, entries)
                                    \o RedirectLines(r, ch)
                                    \o TimelineLines(sync_rooms[r], ch, matrix_uid_to_nick')
  BY <1>1, <1>2, <1>4
<1> QED
  BY <1>3, <1>5 DEF entries, members

(* FlattenSeq of a function on 1 .. n whose values are sequences. *)
LEMMA Pieces ==
  ASSUME NEW S, NEW n \in Nat, NEW f, f \in [1 .. n -> Seq(S)]
  PROVE  /\ f \in Seq(Seq(S)) /\ FlattenSeq(f) \in Seq(S)
         /\ Range(FlattenSeq(f)) = UNION {Range(f[i]) : i \in 1 .. n}
<1>1. f \in Seq(Seq(S)) /\ Len(f) = n
  OBVIOUS
<1> QED
  BY <1>1, FlattenSeqType, FlattenSeqRange

(* What the homeserver sends of a room is of the events there are. *)
LEMMA ResponseIsOfEvents ==
  ASSUME IInv, NEW r \in Rooms
  PROVE  Response(r).state \in Seq(Events) /\ Response(r).timeline \in Seq(Events)
<1> DEFINE before == SubSeq(log[r], synced[r] + 1, Cut(r))
           after == SubSeq(log[r], Cut(r) + 1, Len(log[r]))
<1>1. log[r] \in Seq(Events) /\ synced[r] \in Nat /\ TimelineLimit \in Nat
  BY BoundsAssumption DEF IInv, TypeOK
<1>2. /\ Cut(r) \in Nat /\ Len(log[r]) \in Nat
      /\ Cut(r) <= Len(log[r]) \/ Cut(r) = synced[r]
  BY <1>1 DEF Cut
<1>3. before \in Seq(Events) /\ after \in Seq(Events)
  <2>1. \A i \in 1 .. Len(log[r]) : log[r][i] \in Events
    BY <1>1
  <2>2. /\ \A i \in synced[r] + 1 .. Cut(r) : i \in 1 .. Len(log[r])
        /\ \A i \in Cut(r) + 1 .. Len(log[r]) : i \in 1 .. Len(log[r])
    BY <1>1, <1>2
  <2>3. synced[r] + 1 \in Int /\ Cut(r) + 1 \in Int /\ Cut(r) \in Int /\ Len(log[r]) \in Int
    BY <1>1, <1>2
  <2> QED
    BY <2>1, <2>2, <2>3, SubSeqProperties
<1> HIDE DEF before, after
<1> DEFINE f == [i \in DOMAIN before |-> IF IsState(before[i]) THEN <<before[i]>> ELSE <<>>]
           g == [i \in DOMAIN after |-> IF ~after[i].own THEN <<after[i]>> ELSE <<>>]
<1>4. /\ DOMAIN before = 1 .. Len(before) /\ DOMAIN after = 1 .. Len(after)
      /\ Len(before) \in Nat /\ Len(after) \in Nat
  BY <1>3
<1>5. f \in [1 .. Len(before) -> Seq(Events)] /\ g \in [1 .. Len(after) -> Seq(Events)]
  BY <1>3, <1>4
<1> HIDE DEF f, g
<1>6. FlattenSeq(f) \in Seq(Events) /\ FlattenSeq(g) \in Seq(Events)
  BY <1>4, <1>5, Pieces, Zenon
<1> QED
  BY <1>6 DEF Response, Filtered, before, after, f, g

(* A later sync leaves the member list of a room as it is.                 *)
LEMMA MembersStay ==
  ASSUME IInv, SyncResponse, NEW r \in DOMAIN rooms
  PROVE  r \in DOMAIN rooms' /\ rooms'[r].members = rooms[r].members
<1>1. r \in Rooms
  BY DEF IInv, TypeOK
<1>2. ~ContainsMemberEvent(Response(r))
  <2>1. Response(r).state \in Seq(Events) /\ Response(r).timeline \in Seq(Events)
    BY <1>1, ResponseIsOfEvents
  <2> QED
    BY <2>1, EventsAssumption DEF ContainsMemberEvent
<1>3. update_from_sync(rooms[r], Response(r)).members = rooms[r].members
  BY <1>2 DEF update_from_sync
<1> DEFINE fresh == {q \in joined : synced[q] < Len(log[q])}
<1>4. rooms' = [q \in DOMAIN rooms \cup fresh |->
                  IF q \notin fresh THEN rooms[q]
                  ELSE IF q \in DOMAIN rooms THEN update_from_sync(rooms[q], Response(q))
                  ELSE from_sync(Response(q))]
  BY DEF SyncResponse
<1> HIDE DEF fresh
<1>5. r \in DOMAIN rooms' /\ rooms'[r] \in {rooms[r], update_from_sync(rooms[r], Response(r))}
  BY <1>4
<1> QED
  BY <1>3, <1>5

(* The moderator flag of a member is a flag, and channels mirror rooms.    *)
FlagsAreFlags ==
  \A r \in DOMAIN rooms : \A u \in DOMAIN rooms[r].members : rooms[r].members[u].moderator \in BOOLEAN

MirrorInv == FlagsAreFlags /\ ChannelMirrorsRoom

(* A room's channel is a channel of the IRC server, and no other room's.   *)
LEMMA ChannelsExist ==
  ASSUME IInv
  PROVE  /\ \A r \in DOMAIN room_id_to_channel : room_id_to_channel[r] \in DOMAIN channels
         /\ \A r, q \in DOMAIN room_id_to_channel :
              room_id_to_channel[r] = room_id_to_channel[q] => r = q
<1>1. InverseOf(room_id_to_channel, channel_to_room_id) /\ DOMAIN channel_to_room_id = DOMAIN channels
  BY DEF IInv, Tables, TablesInverse, TablesAgreeWithServer
<1> QED
  BY <1>1 DEF InverseOf, Range

(* A sync response leaves all channels as they are.                        *)
LEMMA SyncKeepsMirror ==
  ASSUME IInv, MirrorInv, SyncResponse
  PROVE  MirrorInv'
<1> DEFINE fresh == {q \in joined : synced[q] < Len(log[q])}
<1>1. /\ rooms' = [q \in DOMAIN rooms \cup fresh |->
                     IF q \notin fresh THEN rooms[q]
                     ELSE IF q \in DOMAIN rooms THEN update_from_sync(rooms[q], Response(q))
                     ELSE from_sync(Response(q))]
      /\ UNCHANGED <<channels, room_id_to_channel, matrix_uid_to_nick>>
  BY DEF SyncResponse, mappings, server_model
<1>2. \A r \in DOMAIN rooms : r \in DOMAIN rooms' /\ rooms'[r].members = rooms[r].members
  BY MembersStay
<1>3. FlagsAreFlags'
  <2>1. ASSUME NEW r \in DOMAIN rooms', NEW u \in DOMAIN rooms'[r].members
        PROVE  rooms'[r].members[u].moderator \in BOOLEAN
    <3>1. CASE r \in DOMAIN rooms
      BY <1>2, <2>1, <3>1 DEF MirrorInv, FlagsAreFlags
    <3>2. CASE r \notin DOMAIN rooms
      <4>1. rooms'[r] = from_sync(Response(r))
        BY <1>1, <2>1, <3>2
      <4> DEFINE state == Applied(<<>>, Response(r).state \o Response(r).timeline)
      <4> HIDE DEF state
      <4>2. rooms'[r].members = recalculate_members(state, <<>>)
        BY <4>1 DEF from_sync, state
      <4>3. DOMAIN <<>> = {}
        OBVIOUS
      <4>4. \A v \in DOMAIN recalculate_members(state, <<>>) :
              recalculate_members(state, <<>>)[v].moderator \in BOOLEAN
        <5> DEFINE members == recalculate_members(state, <<>>)
        <5>1. \A v \in DOMAIN members : v \in JoinedMembers(state)
          BY <4>3 DEF recalculate_members
        <5>2. \A v \in DOMAIN members : members[v] = [display_name |-> DisplayName(state, v),
                                                     moderator    |-> v \in Moderators(state)]
          BY <5>1 DEF recalculate_members
        <5> HIDE DEF members
        <5>3. \A v \in DOMAIN members : members[v].moderator \in BOOLEAN
          <6> TAKE v \in DOMAIN members
          <6>1. members[v].moderator = (v \in Moderators(state))
            BY <5>2
          <6>2. members[v].moderator = TRUE \/ members[v].moderator = FALSE
            BY <6>1
          <6> QED
            BY <6>2
        <5> QED
          BY <5>3 DEF members
      <4> QED
        BY <2>1, <4>2, <4>4
    <3> QED
      BY <3>1, <3>2
  <2> QED
    BY <2>1 DEF FlagsAreFlags
<1>4. ChannelMirrorsRoom'
  <2>1. \A r \in DOMAIN room_id_to_channel : r \in DOMAIN rooms
    BY DEF IInv, Rooming, KnownRoomsAreOnIrc
  <2> QED
    BY <1>1, <1>2, <2>1 DEF MirrorInv, ChannelMirrorsRoom
<1> QED
  BY <1>3, <1>4 DEF MirrorInv

(* A new channel is filled with the members of its room, and no other      *)
(* channel is touched.                                                     *)
LEMMA NewRoomKeepsMirror ==
  ASSUME IInv, IInv', MirrorInv, NEW r \in Rooms, HandleNewRoom(r)
  PROVE  MirrorInv'
<1> DEFINE members == rooms[r].members
           nick == matrix_uid_to_nick'
           names == {nick[u] : u \in DOMAIN members}
           entries == [n \in names |-> \E u \in DOMAIN members : nick[u] = n /\ members[u].moderator]
<1>1. /\ DOMAIN nick = DOMAIN matrix_uid_to_nick \cup DOMAIN members
      /\ \A u \in DOMAIN matrix_uid_to_nick : nick[u] = matrix_uid_to_nick[u]
  BY NewRoomFacts
<1>2. PICK channel :
         /\ channel \notin DOMAIN channels
         /\ room_id_to_channel' = Insert(room_id_to_channel, r, channel)
         /\ channels' = Insert(channels, channel, entries)
  BY NewRoomFacts
<1>3. rooms' = rooms /\ r \notin DOMAIN room_id_to_channel /\ r \in DOMAIN rooms
  BY DEF HandleNewRoom, NextInResponse, IInv, Rooming, KnownRoomsAreOnIrc
<1>4. \A u, v \in DOMAIN nick : nick[u] = nick[v] => u = v
  BY InverseIsInjective DEF IInv, Tables, TablesInverse
<1>5. \A u \in DOMAIN members : members[u].moderator \in BOOLEAN
  BY <1>3 DEF MirrorInv, FlagsAreFlags
<1> HIDE DEF members, nick
<1>6. DOMAIN entries = names /\ \A u \in DOMAIN members : entries[nick[u]] = members[u].moderator
  BY <1>1, <1>4, <1>5
<1> HIDE DEF entries, names
<1>7. FlagsAreFlags'
  BY <1>3 DEF MirrorInv, FlagsAreFlags
<1>8. /\ DOMAIN room_id_to_channel' = DOMAIN room_id_to_channel \cup {r}
      /\ room_id_to_channel'[r] = channel
      /\ \A q \in DOMAIN room_id_to_channel : room_id_to_channel'[q] = room_id_to_channel[q]
      /\ channels'[channel] = entries
      /\ \A c \in DOMAIN channels : channels'[c] = channels[c]
  BY <1>2, <1>3 DEF Insert
<1>9. \A q \in DOMAIN room_id_to_channel : room_id_to_channel[q] \in DOMAIN channels
  BY ChannelsExist
<1>10. ASSUME NEW q \in DOMAIN room_id_to_channel'
       PROVE  LET held == channels'[room_id_to_channel'[q]]
                  listed == rooms'[q].members
              IN  /\ DOMAIN listed \subseteq DOMAIN nick
                  /\ DOMAIN held = {nick[u] : u \in DOMAIN listed}
                  /\ \A u \in DOMAIN listed : held[nick[u]] = listed[u].moderator
  <2>1. CASE q = r
    BY <1>1, <1>3, <1>6, <1>8, <2>1 DEF members, names
  <2>2. CASE q # r
    <3>1. q \in DOMAIN room_id_to_channel
      BY <1>8, <1>10, <2>2
    <3>2. channels'[room_id_to_channel'[q]] = channels[room_id_to_channel[q]]
      BY <1>8, <1>9, <3>1
    <3> QED
      BY <1>1, <1>3, <3>1, <3>2 DEF MirrorInv, ChannelMirrorsRoom
  <2> QED
    BY <2>1, <2>2
<1>11. ChannelMirrorsRoom'
  BY <1>10, SMTT(60) DEF ChannelMirrorsRoom, nick
<1> QED
  BY <1>7, <1>11 DEF MirrorInv

(* No other step touches members or channels.                              *)
LEMMA StepKeepsMirror ==
  ASSUME IInv, IInv', MirrorInv, [Next]_vars
  PROVE  MirrorInv'
<1>1. CASE UNCHANGED <<rooms, channels, room_id_to_channel, matrix_uid_to_nick>>
  BY <1>1 DEF MirrorInv, FlagsAreFlags, ChannelMirrorsRoom
<1> QED
  BY <1>1, SyncKeepsMirror, NewRoomKeepsMirror
     DEF Next, vars, mappings, server_model, PollMatrix, PollIrc, Network, HandleKnownRoom,
         SyncDone, SyncError, IrcPrivMsg, IrcJoin, IrcWho, IrcReply, IrcClosed, JoinReply,
         ServerHandle, Deliver, HttpFail, ServerEvent

(* An IRC channel has the members and operators of its room.               *)
THEOREM ChannelsMirrorRooms == Spec => []ChannelMirrorsRoom
<1>1. Init => MirrorInv
  <2>1. DOMAIN <<>> = {}
    OBVIOUS
  <2> QED
    BY <2>1 DEF Init, MirrorInv, FlagsAreFlags, ChannelMirrorsRoom
<1>2. IInv /\ IInv' /\ MirrorInv /\ [Next]_vars => MirrorInv'
  BY StepKeepsMirror
<1>3. MirrorInv => ChannelMirrorsRoom
  BY DEF MirrorInv
<1> QED
  BY Invariance, <1>1, <1>2, <1>3, PTL DEF Spec

-----------------------------------------------------------------------------
(* The lines the client reads.                                             *)

IsUse(line) == line.cmd \in {"PRIVMSG", "ACTION", "FORWARD", "WHO"}
IsJoin(line, channel) == line.cmd = "JOIN" /\ line.channel = channel
IsForth(line) == line.cmd = "FORWARD" => line.old # line.channel

(* Of the lines of out, those of a channel come after its JOIN and are of a*)
(* channel in known, and every channel in known has had its JOIN.          *)
LinesOk(out, known) ==
  /\ out \in Seq(Range(out))
  /\ \A i \in 1 .. Len(out) : IsUse(out[i]) =>
       /\ out[i].channel \in known
       /\ \E j \in 1 .. i - 1 : IsJoin(out[j], out[i].channel)
       /\ IsForth(out[i])
  /\ \A c \in known : \E j \in 1 .. Len(out) : IsJoin(out[j], c)

LinesInv == LinesOk(irc_out, DOMAIN channels)

(* More lines that are of known channels. *)
LEMMA LinesGrow ==
  ASSUME NEW out, NEW known, LinesOk(out, known), NEW T, NEW more \in Seq(T),
         \A i \in 1 .. Len(more) : IsUse(more[i]) => more[i].channel \in known /\ IsForth(more[i])
  PROVE  LinesOk(out \o more, known)
<1> DEFINE both == out \o more
<1>1. /\ both \in Seq(Range(out) \cup T) /\ Len(both) = Len(out) + Len(more)
      /\ Len(out) \in Nat /\ Len(more) \in Nat
      /\ \A i \in 1 .. Len(out) : both[i] = out[i]
      /\ \A i \in 1 .. Len(more) : both[Len(out) + i] = more[i]
      /\ \A i \in 1 .. Len(out) + Len(more) :
           i \in 1 .. Len(out) \/ \E k \in 1 .. Len(more) : i = Len(out) + k
  <2>1. out \in Seq(Range(out))
    BY DEF LinesOk
  <2>2. /\ both \in Seq(Range(out) \cup T) /\ Len(both) = Len(out) + Len(more)
        /\ Len(out) \in Nat /\ Len(more) \in Nat
    BY <2>1, ConcatElements
  <2>3. /\ \A i \in 1 .. Len(out) : both[i] = out[i]
        /\ \A i \in 1 .. Len(more) : both[Len(out) + i] = more[i]
    BY <2>1, ConcatElements
  <2>4. \A i \in 1 .. Len(out) + Len(more) :
          i \in 1 .. Len(out) \/ \E k \in 1 .. Len(more) : i = Len(out) + k
    BY <2>2, FirstOrSecond
  <2> QED
    BY <2>2, <2>3, <2>4
<1> HIDE DEF both
<1>2. both \in Seq(Range(both))
  BY <1>1, OverItsRange
<1>3. ASSUME NEW c \in known PROVE \E j \in 1 .. Len(out) : IsJoin(both[j], c)
  <2>1. PICK j \in 1 .. Len(out) : IsJoin(out[j], c)
    BY DEF LinesOk
  <2> QED
    BY <1>1, <2>1
<1>4. ASSUME NEW i \in 1 .. Len(both), IsUse(both[i])
      PROVE  /\ both[i].channel \in known
             /\ \E j \in 1 .. i - 1 : IsJoin(both[j], both[i].channel)
             /\ IsForth(both[i])
  <2>1. CASE i \in 1 .. Len(out)
    <3>1. both[i] = out[i]
      BY <1>1, <2>1
    <3>2. /\ out[i].channel \in known /\ IsForth(out[i])
          /\ \E j \in 1 .. i - 1 : IsJoin(out[j], out[i].channel)
      BY <1>4, <2>1, <3>1 DEF LinesOk
    <3>3. PICK j \in 1 .. i - 1 : IsJoin(out[j], out[i].channel)
      BY <3>2
    <3>4. j \in 1 .. Len(out) /\ both[j] = out[j]
      BY <1>1, <2>1
    <3> QED
      BY <3>1, <3>2, <3>3, <3>4
  <2>2. ASSUME NEW k \in 1 .. Len(more), i = Len(out) + k
        PROVE  /\ both[i].channel \in known
               /\ \E j \in 1 .. i - 1 : IsJoin(both[j], both[i].channel)
               /\ IsForth(both[i])
    <3>1. both[i] = more[k]
      BY <1>1, <2>2
    <3>2. more[k].channel \in known /\ IsForth(more[k])
      BY <1>4, <3>1
    <3>3. PICK j \in 1 .. Len(out) : IsJoin(both[j], more[k].channel)
      BY <1>3, <3>2
    <3>4. j \in 1 .. i - 1
      BY <1>1, <2>2
    <3> QED
      BY <3>1, <3>2, <3>3, <3>4
  <2> QED
    BY <1>1, <2>1, <2>2
<1>5. \A c \in known : \E j \in 1 .. Len(both) : IsJoin(both[j], c)
  <2>1. 1 .. Len(out) \subseteq 1 .. Len(both)
    BY <1>1
  <2> QED
    BY <1>3, <2>1
<1>6. LinesOk(both, known)
  BY <1>2, <1>4, <1>5 DEF LinesOk
<1> QED
  BY <1>6 DEF both

(* The JOIN of another channel. *)
LEMMA JoinAdded ==
  ASSUME NEW out, NEW known, LinesOk(out, known), NEW channel, NEW names
  PROVE  LinesOk(out \o JoinLines(channel, names), known \cup {channel})
<1> DEFINE line == [cmd |-> "JOIN", channel |-> channel, names |-> names]
           more == JoinLines(channel, names)
           both == out \o more
<1>1. more \in Seq({line}) /\ Len(more) = 1 /\ more[1] = line
  BY DEF JoinLines
<1>2. IsJoin(line, channel) /\ ~IsUse(line)
  BY DEF IsJoin, IsUse
<1> HIDE DEF more, line
<1>3. LinesOk(both, known)
  <2>1. more \in Seq({line}) /\ \A i \in 1 .. Len(more) : ~IsUse(more[i])
    BY <1>1, <1>2
  <2> QED
    BY <2>1, LinesGrow
<1>4. Len(both) = Len(out) + 1 /\ Len(out) \in Nat /\ both[Len(out) + 1] = line
  <2>1. out \in Seq(Range(out))
    BY DEF LinesOk
  <2>2. more \in Seq({line})
    BY <1>1
  <2>3. Len(both) = Len(out) + Len(more) /\ Len(out) \in Nat
    BY <2>1, <2>2, ConcatElements
  <2>4. \A i \in 1 .. Len(more) : both[Len(out) + i] = more[i]
    BY <2>1, <2>2, ConcatElements
  <2> QED
    BY <1>1, <2>3, <2>4
<1> HIDE DEF both
<1>5. Len(both) \in 1 .. Len(both) /\ IsJoin(both[Len(both)], channel)
  BY <1>2, <1>4
<1>6. LinesOk(both, known \cup {channel})
  BY <1>3, <1>5 DEF LinesOk
<1> QED
  BY <1>6 DEF both, more

-----------------------------------------------------------------------------
(* The lines of events.                                                    *)

IsSpeech(line) == line.cmd \in {"PRIVMSG", "ACTION"}

(* The lines an event can give. *)
SpeechOf(channel, nick) ==
  {[cmd |-> cmd, channel |-> channel, nick |-> nick, text |-> text] :
     cmd \in {"PRIVMSG", "ACTION"},
     text \in UNION {Range(event.content[key]) : event \in Events, key \in {"body", "url"}}}

(* The lines of an event are said in the channel by its sender, who has a  *)
(* nick if there are any.                                                  *)
LEMMA EventLinesType ==
  ASSUME NEW event \in Events, NEW channel, NEW uid
  PROVE  /\ EventLines(event, channel, uid) \in Seq(SpeechOf(channel, uid[event.sender]))
         /\ event.sender \notin DOMAIN uid => EventLines(event, channel, uid) = <<>>
<1> DEFINE body == Get(event.content, "body")
           msgtype == Get(event.content, "msgtype")
           url == Get(event.content, "url")
           nick == uid[event.sender]
           lines == EventLines(event, channel, uid)
           Texts == UNION {Range(e.content[key]) : e \in Events, key \in {"body", "url"}}
<1>1. ASSUME NEW key \in {"body", "url"}, Get(event.content, key) # NoValue
      PROVE  Get(event.content, key) \in Seq(Texts)
  <2>1. key \in DOMAIN event.content /\ Get(event.content, key) = event.content[key]
    BY <1>1 DEF Get
  <2>2. event.content[key] \in Seq(Range(event.content[key]))
    BY <1>1, <2>1, EventsAssumption
  <2>3. Range(event.content[key]) \subseteq Texts
    OBVIOUS
  <2> HIDE DEF Texts
  <2> QED
    BY <2>1, <2>2, <2>3
<1>2. ASSUME NEW cmd \in {"PRIVMSG", "ACTION"}, NEW text \in Seq(Texts)
      PROVE  SayLines(cmd, channel, nick, text) \in Seq(SpeechOf(channel, nick))
  <2>1. DOMAIN text = 1 .. Len(text) /\ Len(text) \in Nat /\ \A i \in 1 .. Len(text) : text[i] \in Texts
    <3> HIDE DEF Texts
    <3> QED
      OBVIOUS
  <2>2. \A i \in 1 .. Len(text) :
          [cmd |-> cmd, channel |-> channel, nick |-> nick, text |-> text[i]] \in SpeechOf(channel, nick)
    BY <2>1 DEF SpeechOf
  <2> HIDE DEF Texts, nick
  <2> QED
    BY <2>1, <2>2 DEF SayLines
<1> HIDE DEF Texts
<1>3. \/ lines = <<>>
      \/ /\ event.sender \in DOMAIN uid
         /\ \/ body # NoValue /\ lines \in {SayLines("ACTION", channel, nick, body),
                                            SayLines("PRIVMSG", channel, nick, body)}
            \/ url # NoValue /\ lines = SayLines("PRIVMSG", channel, nick, url)
  BY DEF EventLines
<1>4. <<>> \in Seq(SpeechOf(channel, nick))
  OBVIOUS
<1> QED
  BY <1>1, <1>2, <1>3, <1>4

(* As a function of the event.                                             *)
LinesOf(channel, uid) == [event \in Events |-> EventLines(event, channel, uid)]
Speech(channel, uid) == UNION {SpeechOf(channel, uid[event.sender]) : event \in Events}

(* That function gives sequences of lines.                                 *)
LEMMA LinesOfType ==
  ASSUME NEW channel, NEW uid
  PROVE  LinesOf(channel, uid) \in [Events -> Seq(Speech(channel, uid))]
<1>1. ASSUME NEW event \in Events PROVE EventLines(event, channel, uid) \in Seq(Speech(channel, uid))
  <2>1. EventLines(event, channel, uid) \in Seq(SpeechOf(channel, uid[event.sender]))
    BY EventLinesType
  <2>2. SpeechOf(channel, uid[event.sender]) \subseteq Speech(channel, uid)
    BY DEF Speech
  <2> QED
    BY <2>1, <2>2
<1> QED
  BY <1>1 DEF LinesOf

(* TimelineLines is the FlatMap of that function.                          *)
LEMMA TimelineIsFlatMap ==
  ASSUME NEW timeline \in Seq(Events), NEW channel, NEW uid
  PROVE  /\ TimelineLines(timeline, channel, uid) = FlatMap(LinesOf(channel, uid), timeline)
         /\ TimelineLines(timeline, channel, uid) \in Seq(Speech(channel, uid))
<1> DEFINE f == LinesOf(channel, uid)
<1>1. DOMAIN timeline = 1 .. Len(timeline) /\ \A i \in 1 .. Len(timeline) : timeline[i] \in Events
  OBVIOUS
<1>2. [i \in DOMAIN timeline |-> EventLines(timeline[i], channel, uid)]
        = [i \in DOMAIN timeline |-> f[timeline[i]]]
  BY <1>1 DEF LinesOf
<1>3. f \in [Events -> Seq(Speech(channel, uid))]
  BY LinesOfType
<1>4. TimelineLines(timeline, channel, uid) = FlatMap(f, timeline)
  BY <1>2 DEF TimelineLines, FlatMap
<1> HIDE DEF f
<1>5. FlatMap(f, timeline) \in Seq(Speech(channel, uid))
  BY <1>3, FlatMapType
<1> QED
  BY <1>4, <1>5 DEF f

(* What is said in a channel is of that channel. *)
LEMMA SpeechIsOfChannel ==
  ASSUME NEW channel, NEW uid, NEW line \in Speech(channel, uid)
  PROVE  IsSpeech(line) /\ line.channel = channel /\ IsForth(line)
<1>1. PICK event \in Events : line \in SpeechOf(channel, uid[event.sender])
  BY DEF Speech
<1> QED
  BY <1>1 DEF SpeechOf, IsSpeech, IsForth

(* The lines of a redirect and of a timeline are of known channels if the  *)
(* channel is known.                                                       *)
LEMMA RoomLinesGrow ==
  ASSUME NEW out, NEW known, LinesOk(out, known), NEW r, NEW channel \in known, NEW uid,
         NEW timeline \in Seq(Events)
  PROVE  LinesOk(out \o RedirectLines(r, channel) \o TimelineLines(timeline, channel, uid), known)
<1> DEFINE redirect == RedirectLines(r, channel)
           lines == TimelineLines(timeline, channel, uid)
           line == ForwardLine(joining_map[r], channel)
<1>1. \/ redirect = <<>>
      \/ redirect = <<line>> /\ joining_map[r] # channel
  BY DEF RedirectLines
<1>2. LinesOk(out \o redirect, known)
  <2>1. CASE redirect = <<>>
    <3>1. out \in Seq(Range(out))
      BY DEF LinesOk
    <3>2. out \o <<>> = out
      BY <3>1
    <3> QED
      BY <2>1, <3>2
  <2>2. CASE redirect = <<line>> /\ joining_map[r] # channel
    <3>1. line.channel \in known /\ IsForth(line)
      BY <2>2 DEF ForwardLine, IsForth
    <3> HIDE DEF line
    <3>2. <<line>> \in Seq({line}) /\ \A i \in 1 .. Len(<<line>>) : <<line>>[i] = line
      OBVIOUS
    <3> QED
      BY <2>2, <3>1, <3>2, LinesGrow
  <2> QED
    BY <1>1, <2>1, <2>2
<1>3. /\ lines \in Seq(Speech(channel, uid))
      /\ \A i \in 1 .. Len(lines) : lines[i] \in Speech(channel, uid)
  BY TimelineIsFlatMap, OverItsRange
<1> HIDE DEF redirect, lines
<1>4. \A i \in 1 .. Len(lines) : lines[i].channel = channel /\ IsForth(lines[i])
  BY <1>3, SpeechIsOfChannel
<1>5. LinesOk((out \o redirect) \o lines, known)
  BY <1>2, <1>3, <1>4, LinesGrow
<1> QED
  BY <1>5 DEF redirect, lines

(* One line more. *)
LEMMA OneMoreLine ==
  ASSUME NEW out, NEW known, LinesOk(out, known), NEW line,
         IsUse(line) => line.channel \in known /\ IsForth(line)
  PROVE  LinesOk(Append(out, line), known)
<1>1. <<line>> \in Seq({line}) /\ \A i \in 1 .. Len(<<line>>) : <<line>>[i] = line
  OBVIOUS
<1>2. LinesOk(out \o <<line>>, known)
  BY <1>1, LinesGrow
<1>3. out \in Seq(Range(out))
  BY DEF LinesOk
<1>4. out \o <<line>> = Append(out, line)
  BY <1>3
<1> QED
  BY <1>2, <1>4

(* The timelines that wait to be handled. *)
TimelinesOfEvents == \A r \in DOMAIN sync_rooms : sync_rooms[r] \in Seq(Events)

(* Timelines come from responses and are taken out whole.                  *)
LEMMA StepKeepsTimelines ==
  ASSUME IInv, TimelinesOfEvents, [Next]_vars
  PROVE  TimelinesOfEvents'
<1>1. CASE UNCHANGED sync_rooms
  BY <1>1 DEF TimelinesOfEvents
<1>2. CASE SyncResponse
  <2> DEFINE fresh == {r \in joined : synced[r] < Len(log[r])}
  <2>1. sync_rooms' = [r \in fresh |-> Response(r).timeline]
    BY <1>2 DEF SyncResponse
  <2>2. fresh \subseteq Rooms
    BY DEF IInv, TypeOK
  <2> HIDE DEF fresh
  <2> QED
    BY <2>1, <2>2, ResponseIsOfEvents DEF TimelinesOfEvents
<1>3. ASSUME NEW r \in Rooms, sync_rooms' = Without(sync_rooms, r) PROVE TimelinesOfEvents'
  BY <1>3 DEF TimelinesOfEvents, Without
<1> QED
  BY <1>1, <1>2, <1>3
     DEF Next, vars, PollMatrix, PollIrc, Network, HandleKnownRoom, HandleNewRoom,
         SyncDone, SyncError, IrcPrivMsg, IrcJoin, IrcWho, IrcReply, IrcClosed, JoinReply,
         ServerHandle, Deliver, HttpFail, ServerEvent

(* Every step that writes lines keeps their order. *)
LEMMA StepKeepsLines ==
  ASSUME IInv, TimelinesOfEvents, LinesInv, [Next]_vars
  PROVE  LinesInv'
<1>1. CASE UNCHANGED <<irc_out, channels>>
  BY <1>1 DEF LinesInv
<1>2. CASE SyncResponse
  <2> DEFINE Plain == {[cmd |-> "WELCOME"], [cmd |-> "PING"]}
  <2>1. WelcomeLines \in Seq(Plain) /\ \A line \in Plain : ~IsUse(line)
    BY DEF WelcomeLines, IsUse
  <2>2. \A i \in 1 .. Len(WelcomeLines) : WelcomeLines[i] \in Plain
    BY DEF WelcomeLines
  <2> HIDE DEF Plain
  <2>3. LinesOk(irc_out \o WelcomeLines, DOMAIN channels)
    BY <2>1, <2>2, LinesGrow DEF LinesInv
  <2>4. channels' = channels /\ irc_out' \in {irc_out, irc_out \o WelcomeLines}
    BY <1>2 DEF SyncResponse, server_model
  <2> QED
    BY <2>3, <2>4 DEF LinesInv
<1>3. ASSUME NEW r \in Rooms, HandleKnownRoom(r) PROVE LinesInv'
  <2> DEFINE channel == room_id_to_channel[r]
  <2>1. /\ channel \in DOMAIN channels /\ sync_rooms[r] \in Seq(Events)
        /\ channels' = channels
        /\ irc_out' = irc_out \o RedirectLines(r, channel)
                              \o TimelineLines(sync_rooms[r], channel, matrix_uid_to_nick)
    BY <1>3, ChannelsExist DEF HandleKnownRoom, NextInResponse, server_model, TimelinesOfEvents
  <2> HIDE DEF channel
  <2>2. LinesOk(irc_out', DOMAIN channels)
    BY <2>1, RoomLinesGrow DEF LinesInv
  <2> QED
    BY <2>1, <2>2 DEF LinesInv
<1>4. ASSUME NEW r \in Rooms, HandleNewRoom(r) PROVE LinesInv'
  <2>1. PICK channel, entries :
           /\ channels' = Insert(channels, channel, entries)
           /\ irc_out' = irc_out \o JoinLines(channel, entries)
                                 \o RedirectLines(r, channel)
                                 \o TimelineLines(sync_rooms[r], channel, matrix_uid_to_nick')
    BY <1>4, NewRoomFacts
  <2> DEFINE known == DOMAIN channels \cup {channel}
             out == irc_out \o JoinLines(channel, entries)
  <2>2. DOMAIN channels' = known
    BY <2>1 DEF Insert
  <2>3. LinesOk(out, known)
    BY JoinAdded DEF LinesInv
  <2>4. channel \in known /\ sync_rooms[r] \in Seq(Events)
    BY <1>4 DEF HandleNewRoom, NextInResponse, TimelinesOfEvents
  <2>5. irc_out' = out \o RedirectLines(r, channel)
                       \o TimelineLines(sync_rooms[r], channel, matrix_uid_to_nick')
    BY <2>1
  <2> HIDE DEF known, out
  <2>6. LinesOk(irc_out', known)
    BY <2>3, <2>4, <2>5, RoomLinesGrow
  <2> QED
    BY <2>2, <2>6 DEF LinesInv
<1>5. ASSUME NEW c \in ClientChannels, IrcJoin(c) PROVE LinesInv'
  <2>1. channels' = channels
    BY <1>5 DEF IrcJoin, server_model
  <2>2. CASE c \in DOMAIN channels /\ irc_out' = irc_out \o JoinLines(c, channels[c])
    <3>1. DOMAIN channels \cup {c} = DOMAIN channels
      BY <2>2
    <3>2. LinesOk(irc_out \o JoinLines(c, channels[c]), DOMAIN channels \cup {c})
      BY JoinAdded DEF LinesInv
    <3> QED
      BY <2>1, <2>2, <3>1, <3>2 DEF LinesInv
  <2>3. CASE irc_out' = irc_out
    BY <2>1, <2>3 DEF LinesInv
  <2> QED
    BY <1>5, <2>2, <2>3 DEF IrcJoin
<1>6. ASSUME NEW line, irc_out' = Append(irc_out, line), channels' = channels,
             IsUse(line) => line.channel \in DOMAIN channels /\ IsForth(line)
      PROVE  LinesInv'
  BY <1>6, OneMoreLine DEF LinesInv
<1>7. ASSUME NEW c \in ClientChannels, IrcWho(c) PROVE LinesInv'
  <2> DEFINE line == [cmd |-> "WHO", channel |-> c,
                      names |-> [n \in DOMAIN channels[c] \cap DOMAIN users |-> users[n].user]]
  <2>1. /\ irc_out' = Append(irc_out, line)
        /\ channels' = channels /\ c \in DOMAIN channels
    BY <1>7 DEF IrcWho, server_model
  <2>2. line.channel = c /\ IsForth(line)
    BY DEF IsForth
  <2> HIDE DEF line
  <2> QED
    BY <1>6, <2>1, <2>2
<1>8. ASSUME NEW cmd \in {"PONG", "MODE", "AWAY"}, IrcReply(cmd) PROVE LinesInv'
  <2> DEFINE line == [cmd |-> cmd]
  <2>1. irc_out' = Append(irc_out, line) /\ channels' = channels
    BY <1>8 DEF IrcReply, server_model
  <2>2. ~IsUse(line)
    BY DEF IsUse
  <2> HIDE DEF line
  <2> QED
    BY <1>6, <2>1, <2>2
<1>9. ASSUME NEW i \in DOMAIN replies, JoinReply(i) PROVE LinesInv'
  <2> DEFINE old == replies[i].channel
             channel == room_id_to_channel[replies[i].room]
             line == ForwardLine(old, channel)
  <2>1. /\ channels' = channels
        /\ \/ irc_out' = irc_out
           \/ /\ replies[i].room \in DOMAIN room_id_to_channel
              /\ channel # old
              /\ irc_out' = Append(irc_out, line)
    BY <1>9 DEF JoinReply, server_model
  <2>2. CASE irc_out' = irc_out
    BY <2>1, <2>2 DEF LinesInv
  <2>3. CASE replies[i].room \in DOMAIN room_id_to_channel /\ channel # old
             /\ irc_out' = Append(irc_out, line)
    <3>1. channel \in DOMAIN channels
      BY <2>3, ChannelsExist
    <3>2. line.channel = channel /\ IsForth(line)
      BY <2>3 DEF ForwardLine, IsForth
    <3> HIDE DEF line, channel
    <3> QED
      BY <1>6, <2>1, <2>3, <3>1, <3>2
  <2> QED
    BY <2>1, <2>2, <2>3
<1> QED
  BY <1>1, <1>2, <1>3, <1>4, <1>5, <1>7, <1>8, <1>9
     DEF Next, vars, server_model, PollMatrix, PollIrc, Network,
         SyncDone, SyncError, IrcPrivMsg, IrcClosed,
         ServerHandle, Deliver, HttpFail, ServerEvent

(* A client has joined a channel before it reads anything of it. *)
THEOREM ChannelsAreJoinedFirst == Spec => []JoinedBeforeUse
<1>1. Init => TimelinesOfEvents /\ LinesInv
  <2>1. /\ DOMAIN <<>> = {} /\ Len(<<>>) = 0 /\ <<>> \in Seq(Range(<<>>))
        /\ 1 .. 0 = {}
    OBVIOUS
  <2> QED
    BY <2>1 DEF Init, TimelinesOfEvents, LinesInv, LinesOk
<1>2. IInv /\ TimelinesOfEvents /\ LinesInv /\ [Next]_vars => TimelinesOfEvents' /\ LinesInv'
  BY StepKeepsTimelines, StepKeepsLines
<1>3. LinesInv => JoinedBeforeUse
  <2> SUFFICES ASSUME LinesInv PROVE JoinedBeforeUse
    OBVIOUS
  <2>1. DOMAIN irc_out = 1 .. Len(irc_out)
    BY DEF LinesInv, LinesOk
  <2> QED
    BY <2>1 DEF LinesInv, LinesOk, JoinedBeforeUse, IsUse, IsJoin, IsForth
<1> QED
  BY Invariance, <1>1, <1>2, <1>3, PTL DEF Spec

-----------------------------------------------------------------------------
(* What is heard of a sequence of lines.                                   *)

Reaches(line, channel, nicks) == IsSpeech(line) /\ line.channel = channel /\ line.nick \in nicks

HeardIn(lines, channel, nicks) == Filtered(lines, LAMBDA line : Reaches(line, channel, nicks))

Ear(S, channel, nicks) ==
  [line \in S |-> IF Reaches(line, channel, nicks) THEN <<line>> ELSE <<>>]

(* Heard is what is heard in irc_out.                                      *)
LEMMA HeardIsHeardIn ==
  ASSUME NEW channel, NEW nicks
  PROVE  Heard(channel, nicks) = HeardIn(irc_out, channel, nicks)
BY DEF Heard, HeardIn, Filtered, Reaches, IsSpeech

(* HeardIn is a FlatMap, and keeps lines that are there.                   *)
LEMMA HeardInIsFlatMap ==
  ASSUME NEW S, NEW lines \in Seq(S), NEW channel, NEW nicks
  PROVE  /\ Ear(S, channel, nicks) \in [S -> Seq(S)]
         /\ HeardIn(lines, channel, nicks) = FlatMap(Ear(S, channel, nicks), lines)
         /\ HeardIn(lines, channel, nicks) \in Seq(S)
<1> DEFINE f == Ear(S, channel, nicks)
<1>1. f \in [S -> Seq(S)]
  BY DEF Ear
<1>2. DOMAIN lines = 1 .. Len(lines) /\ \A i \in 1 .. Len(lines) : lines[i] \in S
  OBVIOUS
<1>3. [i \in DOMAIN lines |-> f[lines[i]]]
        = [i \in DOMAIN lines |-> IF Reaches(lines[i], channel, nicks) THEN <<lines[i]>> ELSE <<>>]
  BY <1>2 DEF Ear
<1>4. HeardIn(lines, channel, nicks) = FlatMap(f, lines)
  BY <1>3 DEF HeardIn, Filtered, FlatMap
<1> DEFINE T == S
<1>5. f \in [S -> Seq(T)]
  BY <1>1
<1> HIDE DEF f, T
<1>6. FlatMap(f, lines) \in Seq(T)
  BY <1>5, FlatMapType
<1> QED
  BY <1>1, <1>4, <1>6 DEF f, T

(* More lines. *)
LEMMA HeardGrows ==
  ASSUME NEW S, NEW T, NEW a \in Seq(S), NEW b \in Seq(T), NEW channel, NEW nicks
  PROVE  HeardIn(a \o b, channel, nicks) = HeardIn(a, channel, nicks) \o HeardIn(b, channel, nicks)
<1> DEFINE U == S \cup T
           V == S \cup T
           f == Ear(U, channel, nicks)
<1>1. a \in Seq(U) /\ b \in Seq(U)
  OBVIOUS
<1> HIDE DEF U
<1>2. a \o b \in Seq(U)
  BY <1>1, ConcatProperties, Zenon
<1>3. /\ HeardIn(a, channel, nicks) = FlatMap(f, a)
      /\ HeardIn(b, channel, nicks) = FlatMap(f, b)
  BY <1>1, HeardInIsFlatMap
<1>4. HeardIn(a \o b, channel, nicks) = FlatMap(f, a \o b)
  BY <1>2, HeardInIsFlatMap, ZenonT(60)
<1>5. f \in [U -> Seq(V)]
  BY <1>1, HeardInIsFlatMap DEF U
<1> HIDE DEF f, V
<1>6. FlatMap(f, a \o b) = FlatMap(f, a) \o FlatMap(f, b)
  BY <1>1, <1>5, FlatMapConcat
<1> QED
  BY <1>3, <1>4, <1>6

(* Lines of other channels, other nicks or no speech. *)
LEMMA HeardNothing ==
  ASSUME NEW T, NEW lines \in Seq(T), NEW channel, NEW nicks,
         \A i \in 1 .. Len(lines) : ~Reaches(lines[i], channel, nicks)
  PROVE  HeardIn(lines, channel, nicks) = <<>>
<1> DEFINE f == Ear(T, channel, nicks)
           U == T
<1>1. f \in [T -> Seq(U)] /\ HeardIn(lines, channel, nicks) = FlatMap(f, lines)
  BY HeardInIsFlatMap
<1>2. \A i \in 1 .. Len(lines) : f[lines[i]] = <<>>
  BY OverItsRange DEF Ear
<1> HIDE DEF f, U
<1>3. FlatMap(f, lines) = <<>>
  BY <1>1, <1>2, FlatMapNothing
<1> QED
  BY <1>1, <1>3

(* Before a channel is known nothing is heard in it. *)
LEMMA NothingHeardBefore ==
  ASSUME NEW out, NEW known, LinesOk(out, known), NEW channel, channel \notin known, NEW nicks
  PROVE  HeardIn(out, channel, nicks) = <<>>
<1>1. out \in Seq(Range(out))
  BY DEF LinesOk
<1>2. \A i \in 1 .. Len(out) : ~Reaches(out[i], channel, nicks)
  BY DEF LinesOk, Reaches, IsSpeech, IsUse
<1> QED
  BY <1>1, <1>2, HeardNothing

-----------------------------------------------------------------------------
(* What a timeline shows of some senders.                                  *)

LinesBy(senders, channel, uid) ==
  [event \in Events |-> IF event.sender \in senders THEN EventLines(event, channel, uid) ELSE <<>>]

Shown(timeline, senders, channel, uid) == FlatMap(LinesBy(senders, channel, uid), timeline)

(* All but own events. *)
NewsBy(senders, channel, uid) ==
  [event \in Events |-> IF event.own THEN <<>> ELSE LinesBy(senders, channel, uid)[event]]

(* Both functions give sequences of lines.                                 *)
LEMMA LinesByType ==
  ASSUME NEW senders, NEW channel, NEW uid
  PROVE  /\ LinesBy(senders, channel, uid) \in [Events -> Seq(Speech(channel, uid))]
         /\ NewsBy(senders, channel, uid) \in [Events -> Seq(Speech(channel, uid))]
<1>1. \A event \in Events : EventLines(event, channel, uid) \in Seq(Speech(channel, uid))
  BY LinesOfType DEF LinesOf
<1>2. <<>> \in Seq(Speech(channel, uid))
  OBVIOUS
<1>3. LinesBy(senders, channel, uid) \in [Events -> Seq(Speech(channel, uid))]
  BY <1>1, <1>2 DEF LinesBy
<1> QED
  BY <1>2, <1>3 DEF NewsBy

(* The nicks of the senders hear in the channel what the senders said, and *)
(* nobody else's lines.                                                    *)
LEMMA TimelineIsHeard ==
  ASSUME NEW timeline \in Seq(Events), NEW channel, NEW uid, NEW senders,
         senders \subseteq DOMAIN uid, \A u, v \in DOMAIN uid : uid[u] = uid[v] => u = v
  PROVE  HeardIn(TimelineLines(timeline, channel, uid), channel, {uid[u] : u \in senders})
           = Shown(timeline, senders, channel, uid)
<1> DEFINE nicks == {uid[u] : u \in senders}
           S == Speech(channel, uid)
           ear == Ear(S, channel, nicks)
           g == LinesOf(channel, uid)
           h == LinesBy(senders, channel, uid)
           lines == TimelineLines(timeline, channel, uid)
<1>1. g \in [Events -> Seq(S)] /\ h \in [Events -> Seq(S)]
  BY LinesOfType, LinesByType
<1>2. lines = FlatMap(g, timeline) /\ lines \in Seq(S)
  BY TimelineIsFlatMap
<1> HIDE DEF lines
<1>3. ear \in [S -> Seq(S)] /\ HeardIn(lines, channel, nicks) = FlatMap(ear, lines)
  <2> HIDE DEF S, nicks
  <2> QED
    BY <1>2, HeardInIsFlatMap
<1>4. ASSUME NEW event \in Events PROVE h[event] = FlatMap(ear, g[event])
  <2> DEFINE said == EventLines(event, channel, uid)
             nick == uid[event.sender]
  <2>1. g[event] = said /\ h[event] = IF event.sender \in senders THEN said ELSE <<>>
    BY DEF LinesOf, LinesBy
  <2>2. said \in Seq(S)
    BY <1>1, <2>1
  <2>3. said \in Seq(SpeechOf(channel, nick)) /\ (event.sender \notin DOMAIN uid => said = <<>>)
    BY EventLinesType
  <2> HIDE DEF said
  <2>4. \A i \in 1 .. Len(said) : said[i] \in S /\ said[i] \in SpeechOf(channel, nick)
    BY <2>2, <2>3, OverItsRange
  <2>5. \A i \in 1 .. Len(said) : IsSpeech(said[i]) /\ said[i].channel = channel /\ said[i].nick = nick
    BY <2>4 DEF SpeechOf, IsSpeech
  <2> HIDE DEF S, nick
  <2>6. \A i \in 1 .. Len(said) : ear[said[i]] = IF nick \in nicks THEN <<said[i]>> ELSE <<>>
    BY <2>4, <2>5 DEF Ear, Reaches
  <2> DEFINE T == S
  <2>7. ear \in [S -> Seq(T)]
    BY <1>3
  <2> HIDE DEF ear, T, g, h
  <2>8. CASE event.sender \in senders
    <3>1. nick \in nicks
      BY <2>8 DEF nick
    <3>2. FlatMap(ear, said) = said
      BY <2>2, <2>6, <2>7, <3>1, FlatMapItself
    <3> QED
      BY <2>1, <2>8, <3>2
  <2>9. CASE event.sender \notin senders /\ event.sender \in DOMAIN uid
    <3>1. nick \notin nicks
      BY <2>9 DEF nick
    <3>2. FlatMap(ear, said) = <<>>
      BY <2>2, <2>6, <2>7, <3>1, FlatMapNothing
    <3> QED
      BY <2>1, <2>9, <3>2
  <2>10. CASE event.sender \notin senders /\ event.sender \notin DOMAIN uid
    BY <2>1, <2>3, <2>10, FlatMapEmpty
  <2> QED
    BY <2>8, <2>9, <2>10
<1> DEFINE T == S
<1>5. ear \in [S -> Seq(T)] /\ h \in [Events -> Seq(T)]
  BY <1>1, <1>3
<1> HIDE DEF S, T, ear, g, h
<1>6. FlatMap(ear, FlatMap(g, timeline)) = FlatMap(h, timeline)
  <2>1. MapsTo(g, Events, S) /\ MapsTo(ear, S, T) /\ MapsTo(h, Events, T)
    BY <1>1, <1>5 DEF MapsTo
  <2>2. \A event \in Events : h[event] = FlatMap(ear, g[event])
    BY <1>4
  <2> QED
    BY <2>1, <2>2, FlatMapTwice
<1> QED
  BY <1>2, <1>3, <1>6 DEF Shown, lines, h

-----------------------------------------------------------------------------
(* What the events of a room's log give.                                   *)

(* Said, of any log, channel and nicks. *)
SaidOf(events, n, out, senders, channel, uid) ==
  FlattenSeq([i \in 1 .. n |->
                IF i \in out \/ events[i].own \/ events[i].sender \notin senders
                THEN <<>>
                ELSE EventLines(events[i], channel, uid)])

(* Said is SaidOf the log of a room, in its channel.                       *)
LEMMA SaidIsSaidOf ==
  ASSUME NEW r, NEW n, NEW senders
  PROVE  Said(r, n, senders)
           = SaidOf(log[r], n, left_out[r], senders, room_id_to_channel[r], matrix_uid_to_nick)
BY DEF Said, SaidOf

(* A log of which n events have been delivered, without those in out, and  *)
(* the next up to cut are left out: gone are left out in all, rest is the  *)
(* rest.                                                                   *)
CutAt(events, n, cut, out, gone, rest) ==
  /\ events \in Seq(Events) /\ n \in Nat /\ cut \in Nat
  /\ n <= cut /\ cut <= Len(events) /\ out \subseteq 1 .. n
  /\ gone = out \cup (n + 1 .. cut) /\ rest = SubSeq(events, cut + 1, Len(events))

(* When a log has been delivered to its end, and the events up to cut were *)
(* left out, the events after cut that are not own have been said too.     *)
LEMMA SaidOfGrows ==
  ASSUME NEW events, NEW n, NEW cut, NEW out, NEW gone, NEW rest,
         CutAt(events, n, cut, out, gone, rest), NEW senders, NEW channel, NEW uid
  PROVE  SaidOf(events, Len(events), gone, senders, channel, uid)
           = SaidOf(events, n, out, senders, channel, uid)
               \o FlatMap(NewsBy(senders, channel, uid), rest)
<1> DEFINE S == Speech(channel, uid)
           news == NewsBy(senders, channel, uid)
           first == [i \in 1 .. n |-> IF i \in out \/ events[i].own \/ events[i].sender \notin senders
                                      THEN <<>> ELSE EventLines(events[i], channel, uid)]
           gap == [i \in 1 .. cut - n |-> <<>>]
           last == [i \in DOMAIN rest |-> news[rest[i]]]
           all == [i \in 1 .. Len(events) |->
                     IF \/ i \in out \cup (n + 1 .. cut)
                        \/ events[i].own \/ events[i].sender \notin senders
                     THEN <<>> ELSE EventLines(events[i], channel, uid)]
<1> USE DEF CutAt
<1>1. /\ Len(events) \in Nat /\ cut - n \in Nat /\ Len(events) - cut \in Nat
      /\ \A i \in 1 .. Len(events) : events[i] \in Events
  OBVIOUS
<1>2. /\ \A i \in 1 .. Len(events) : EventLines(events[i], channel, uid) \in Seq(S)
      /\ <<>> \in Seq(S)
  BY <1>1, LinesOfType DEF LinesOf
<1>3. /\ Len(rest) = Len(events) - cut /\ DOMAIN rest = 1 .. Len(events) - cut
      /\ \A i \in 1 .. Len(events) - cut : rest[i] = events[cut + i] /\ rest[i] \in Events
  <2>1. Len(rest) = Len(events) - cut /\ DOMAIN rest = 1 .. Len(events) - cut
    BY <1>1
  <2>2. ASSUME NEW i \in 1 .. Len(events) - cut
        PROVE  rest[i] = events[cut + i] /\ events[cut + i] \in Events
    BY <1>1
  <2> QED
    BY <2>1, <2>2
<1> HIDE DEF S
<1>4. first \in Seq(Seq(S)) /\ Len(first) = n
  <2>1. \A i \in 1 .. n : i \in 1 .. Len(events)
    BY <1>1
  <2> QED
    BY <1>2, <2>1
<1>5. gap \in Seq(Seq(S)) /\ Len(gap) = cut - n
  BY <1>1, <1>2
<1>6. all \in Seq(Seq(S)) /\ Len(all) = Len(events)
  BY <1>1, <1>2
<1>7. /\ \A i \in 1 .. Len(events) - cut : last[i] = all[cut + i]
      /\ last \in Seq(Seq(S)) /\ Len(last) = Len(events) - cut
  <2>1. ASSUME NEW i \in 1 .. Len(events) - cut
        PROVE  last[i] = all[cut + i] /\ last[i] \in Seq(S)
    <3>1. /\ cut + i \in 1 .. Len(events) /\ cut + i \notin out \cup (n + 1 .. cut)
          /\ i \in DOMAIN rest
      BY <1>1, <1>3
    <3>2. all[cut + i] = IF events[cut + i].own \/ events[cut + i].sender \notin senders
                         THEN <<>> ELSE EventLines(events[cut + i], channel, uid)
      BY <3>1
    <3>3. last[i] = news[events[cut + i]] /\ events[cut + i] \in Events
      BY <1>1, <1>3, <3>1
    <3>4. news[events[cut + i]]
            = IF events[cut + i].own THEN <<>>
              ELSE IF events[cut + i].sender \in senders THEN EventLines(events[cut + i], channel, uid)
              ELSE <<>>
      BY <3>3 DEF NewsBy, LinesBy
    <3> HIDE DEF news, all, last
    <3> QED
      BY <1>2, <3>1, <3>2, <3>3, <3>4
  <2>2. DOMAIN last = 1 .. Len(events) - cut
    BY <1>3
  <2>3. last \in [1 .. Len(events) - cut -> Seq(S)]
    BY <2>1, <2>2
  <2> HIDE DEF last, all
  <2> QED
    BY <1>1, <2>1, <2>3
<1>8. \A i \in 1 .. n : all[i] = first[i]
  BY <1>1
<1>9. \A i \in 1 .. cut - n : all[n + i] = gap[i]
  BY <1>1
<1>10. FlattenSeq(gap) = <<>>
  BY <1>1, FlattenNothing
<1> HIDE DEF first, gap, last, all
<1> DEFINE both == first \o gap
<1>11. /\ both \in Seq(Seq(S)) /\ Len(both) = cut
       /\ \A i \in 1 .. cut : all[i] = both[i]
  <2> DEFINE T == Seq(S)
             U == Seq(S)
  <2>1. first \in Seq(T) /\ gap \in Seq(U)
    BY <1>4, <1>5
  <2> HIDE DEF T, U
  <2>2. both \in Seq(T \cup U) /\ Len(both) = Len(first) + Len(gap)
    BY <2>1, ConcatElements
  <2>3. /\ \A i \in 1 .. Len(first) : both[i] = first[i]
        /\ \A i \in 1 .. Len(gap) : both[Len(first) + i] = gap[i]
    BY <2>1, ConcatElements
  <2>4. both \in Seq(Seq(S)) /\ Len(both) = cut
    BY <1>1, <1>4, <1>5, <2>2 DEF T, U
  <2> HIDE DEF both
  <2>5. ASSUME NEW i \in 1 .. cut PROVE all[i] = both[i]
    <3>1. CASE i \in 1 .. n
      BY <1>4, <1>8, <2>3, <3>1
    <3>2. CASE i \notin 1 .. n
      <4>1. PICK k \in 1 .. cut - n : i = n + k
        <5>1. i \in 1 .. n + (cut - n)
          BY <1>1
        <5> QED
          BY <1>1, <3>2, <5>1, FirstOrSecond
      <4> QED
        BY <1>4, <1>5, <1>9, <2>3, <4>1
    <3> QED
      BY <3>1, <3>2
  <2> QED
    BY <2>4, <2>5
<1>12. FlattenSeq(both) = FlattenSeq(first) \o <<>>
  BY <1>4, <1>5, <1>10, FlattenSeqConcat
<1>13. FlattenSeq(first) \in Seq(S)
  BY <1>4, FlattenSeqType
<1>14. FlattenSeq(both) = FlattenSeq(first)
  BY <1>12, <1>13
<1> HIDE DEF both
<1>15. all = both \o last
  <2> DEFINE T == Seq(S)
  <2>1. both \in Seq(T) /\ last \in Seq(T) /\ all \in Seq(T)
    BY <1>6, <1>7, <1>11
  <2>2. /\ Len(all) = Len(both) + Len(last)
        /\ \A i \in 1 .. Len(both) : all[i] = both[i]
        /\ \A i \in 1 .. Len(last) : all[Len(both) + i] = last[i]
    BY <1>1, <1>6, <1>7, <1>11
  <2> HIDE DEF T
  <2> QED
    BY <2>1, <2>2, PutTogether
<1>16. FlattenSeq(all) = FlattenSeq(both) \o FlattenSeq(last)
  BY <1>7, <1>11, <1>15, FlattenSeqConcat
<1> QED
  BY <1>14, <1>16 DEF SaidOf, FlatMap, first, last, all, news

(* The timeline of a response shows what those events give. *)
LEMMA ArrivedIsShown ==
  ASSUME NEW events \in Seq(Events), NEW senders, NEW channel, NEW uid
  PROVE  Shown(Filtered(events, LAMBDA event : ~event.own), senders, channel, uid)
           = FlatMap(NewsBy(senders, channel, uid), events)
<1> DEFINE S == Speech(channel, uid)
           kept == [event \in Events |-> IF ~event.own THEN <<event>> ELSE <<>>]
           shown == LinesBy(senders, channel, uid)
           news == NewsBy(senders, channel, uid)
<1>1. Filtered(events, LAMBDA event : ~event.own) = FlatMap(kept, events)
  <2>1. DOMAIN events = 1 .. Len(events) /\ \A i \in 1 .. Len(events) : events[i] \in Events
    OBVIOUS
  <2>2. [i \in DOMAIN events |-> IF ~events[i].own THEN <<events[i]>> ELSE <<>>]
          = [i \in DOMAIN events |-> kept[events[i]]]
    BY <2>1
  <2> QED
    BY <2>2 DEF Filtered, FlatMap
<1>2. shown \in [Events -> Seq(S)] /\ news \in [Events -> Seq(S)]
  BY LinesByType
<1>3. MapsTo(kept, Events, Events) /\ MapsTo(shown, Events, S) /\ MapsTo(news, Events, S)
  BY <1>2 DEF MapsTo
<1>4. ASSUME NEW event \in Events PROVE news[event] = FlatMap(shown, kept[event])
  <2>1. CASE event.own
    <3>1. news[event] = <<>> /\ kept[event] = <<>>
      BY <2>1 DEF NewsBy
    <3> QED
      BY <3>1, FlatMapEmpty
  <2>2. CASE ~event.own
    <3>1. news[event] = shown[event] /\ kept[event] = <<event>>
      BY <2>2 DEF NewsBy
    <3> HIDE DEF shown, news, kept, S
    <3>2. FlatMap(shown, <<event>>) = shown[event]
      BY <1>2, FlatMapOne
    <3> QED
      BY <3>1, <3>2
  <2> QED
    BY <2>1, <2>2
<1> HIDE DEF S, kept, shown, news
<1>5. FlatMap(shown, FlatMap(kept, events)) = FlatMap(news, events)
  <2>1. \A event \in Events : news[event] = FlatMap(shown, kept[event])
    BY <1>4
  <2> QED
    BY <1>3, <2>1, FlatMapTwice
<1> QED
  BY <1>1, <1>5 DEF Shown, shown, news

-----------------------------------------------------------------------------
(* The invariant: what has been heard of a room, with what the timeline    *)
(* that waits will show of it, is what was said in it.                     *)

(* The events delivered are there, and those left out are among them.      *)
DeliveredIsLogged ==
  /\ \A r \in Rooms : synced[r] <= Len(log[r]) /\ left_out[r] \subseteq 1 .. synced[r]
  /\ \A r \in Rooms \ DOMAIN rooms : synced[r] = 0

Nicks(r) == {matrix_uid_to_nick[u] : u \in DOMAIN rooms[r].members}

(* The two halves for a room that has its channel.                         *)
HeardOf(r) == HeardIn(irc_out, room_id_to_channel[r], Nicks(r))
WaitingOf(r) == Shown(sync_rooms[r], DOMAIN rooms[r].members, room_id_to_channel[r], matrix_uid_to_nick)
SaidIn(r) == SaidOf(log[r], synced[r], left_out[r], DOMAIN rooms[r].members,
                    room_id_to_channel[r], matrix_uid_to_nick)

HeardWhenHandled == \A r \in DOMAIN room_id_to_channel :
  /\ r \notin DOMAIN sync_rooms => HeardOf(r) = SaidIn(r)
  /\ r \in DOMAIN sync_rooms => HeardOf(r) \o WaitingOf(r) = SaidIn(r)

(* A room that has none yet waits with all there is of it.                 *)
WaitsWhole(events, n, out, timeline) ==
  /\ n = Len(events)
  /\ \E cut \in 0 .. Len(events) :
       /\ out = 1 .. cut
       /\ timeline = Filtered(SubSeq(events, cut + 1, Len(events)), LAMBDA event : ~event.own)

NewRoomsWaitWhole == \A r \in DOMAIN sync_rooms \ DOMAIN room_id_to_channel :
  WaitsWhole(log[r], synced[r], left_out[r], sync_rooms[r])

HeardInv == DeliveredIsLogged /\ HeardWhenHandled /\ NewRoomsWaitWhole

(* The part of a log after some place is of events too. *)
LEMMA RestIsOfEvents ==
  ASSUME NEW events \in Seq(Events), NEW cut \in Nat
  PROVE  SubSeq(events, cut + 1, Len(events)) \in Seq(Events)
<1>1. Len(events) \in Nat /\ \A i \in 1 .. Len(events) : events[i] \in Events
  OBVIOUS
<1>2. \A i \in cut + 1 .. Len(events) : events[i] \in Events
  BY <1>1
<1>3. cut + 1 \in Int /\ Len(events) \in Int
  BY <1>1
<1> QED
  BY <1>2, <1>3, SubSeqProperties

(* Delivering a log to its end says what the timeline shows.               *)
LEMMA DeliverySays ==
  ASSUME NEW events, NEW n, NEW cut, NEW out, NEW gone, NEW rest,
         CutAt(events, n, cut, out, gone, rest), NEW senders, NEW channel, NEW uid
  PROVE  SaidOf(events, Len(events), gone, senders, channel, uid)
           = SaidOf(events, n, out, senders, channel, uid)
               \o Shown(Filtered(rest, LAMBDA event : ~event.own), senders, channel, uid)
<1>1. rest \in Seq(Events)
  BY RestIsOfEvents DEF CutAt
<1>2. Shown(Filtered(rest, LAMBDA event : ~event.own), senders, channel, uid)
        = FlatMap(NewsBy(senders, channel, uid), rest)
  BY <1>1, ArrivedIsShown
<1>3. SaidOf(events, Len(events), gone, senders, channel, uid)
        = SaidOf(events, n, out, senders, channel, uid) \o FlatMap(NewsBy(senders, channel, uid), rest)
  BY SaidOfGrows
<1> QED
  BY <1>2, <1>3

(* Nothing is said before the first event. *)
LEMMA NothingSaidYet ==
  ASSUME NEW events, NEW out, NEW senders, NEW channel, NEW uid
  PROVE  SaidOf(events, 0, out, senders, channel, uid) = <<>>
<1>1. 1 .. 0 = {}
  OBVIOUS
<1>2. [i \in 1 .. 0 |-> IF i \in out \/ events[i].own \/ events[i].sender \notin senders
                        THEN <<>> ELSE EventLines(events[i], channel, uid)] = <<>>
  BY <1>1
<1> QED
  BY <1>2, FlattenSeqEmpty DEF SaidOf

(* What is said depends on the nicks of the senders alone.                 *)
LEMMA SaidStays ==
  ASSUME NEW events, NEW n, NEW out, NEW senders, NEW channel, NEW uid, NEW more,
         senders \subseteq DOMAIN uid, senders \subseteq DOMAIN more,
         \A u \in senders : more[u] = uid[u]
  PROVE  SaidOf(events, n, out, senders, channel, more) = SaidOf(events, n, out, senders, channel, uid)
<1> DEFINE piece(i) == IF i \in out \/ events[i].own \/ events[i].sender \notin senders
                       THEN <<>> ELSE EventLines(events[i], channel, uid)
           next(i) == IF i \in out \/ events[i].own \/ events[i].sender \notin senders
                      THEN <<>> ELSE EventLines(events[i], channel, more)
<1>1. ASSUME NEW i \in 1 .. n PROVE piece(i) = next(i)
  <2>1. ASSUME events[i].sender \in senders
        PROVE  EventLines(events[i], channel, uid) = EventLines(events[i], channel, more)
    BY <2>1 DEF EventLines
  <2> QED
    BY <2>1
<1>2. [i \in 1 .. n |-> piece(i)] = [i \in 1 .. n |-> next(i)]
  <2> HIDE DEF piece, next
  <2> QED
    BY <1>1
<1> QED
  BY <1>2 DEF SaidOf

(* So does what is shown.                                                  *)
LEMMA ShownStays ==
  ASSUME NEW timeline, NEW senders, NEW channel, NEW uid, NEW more,
         senders \subseteq DOMAIN uid, senders \subseteq DOMAIN more,
         \A u \in senders : more[u] = uid[u]
  PROVE  Shown(timeline, senders, channel, more) = Shown(timeline, senders, channel, uid)
<1>1. ASSUME NEW event \in Events
      PROVE  LinesBy(senders, channel, more)[event] = LinesBy(senders, channel, uid)[event]
  <2>1. ASSUME event.sender \in senders
        PROVE  EventLines(event, channel, uid) = EventLines(event, channel, more)
    BY <2>1 DEF EventLines
  <2> QED
    BY <2>1 DEF LinesBy
<1>2. LinesBy(senders, channel, more) = LinesBy(senders, channel, uid)
  <2> DEFINE a == LinesBy(senders, channel, more)
             b == LinesBy(senders, channel, uid)
  <2>1. DOMAIN a = Events /\ DOMAIN b = Events /\ a = [e \in Events |-> a[e]] /\ b = [e \in Events |-> b[e]]
    BY DEF LinesBy
  <2>2. \A e \in Events : a[e] = b[e]
    BY <1>1
  <2> HIDE DEF a, b
  <2>3. a = b
    BY <2>1, <2>2
  <2> QED
    BY <2>3 DEF a, b
<1> QED
  BY <1>2 DEF Shown

(* Steps after which the same has been heard, and nobody has delivered.    *)
LEMMA QuietStepKeepsHeard ==
  ASSUME IInv, HeardInv,
         UNCHANGED <<rooms, room_id_to_channel, matrix_uid_to_nick, sync_rooms, synced, left_out>>,
         \A channel, nicks : HeardIn(irc_out', channel, nicks) = HeardIn(irc_out, channel, nicks),
         \A r \in Rooms : \/ log'[r] = log[r]
                          \/ /\ DOMAIN sync_rooms = {}
                             /\ Len(log[r]) <= Len(log'[r]) /\ Len(log'[r]) \in Nat
                             /\ \A i \in 1 .. Len(log[r]) : log'[r][i] = log[r][i]
  PROVE  HeardInv'
<1>1. /\ \A r \in Rooms : synced[r] \in Nat /\ Len(log[r]) \in Nat /\ synced[r] <= Len(log[r])
      /\ DOMAIN sync_rooms \subseteq Rooms /\ DOMAIN room_id_to_channel \subseteq Rooms
  BY DEF IInv, TypeOK, HeardInv, DeliveredIsLogged
<1>2. DeliveredIsLogged'
  BY <1>1 DEF HeardInv, DeliveredIsLogged
<1>3. NewRoomsWaitWhole'
  <2>1. ASSUME NEW r \in DOMAIN sync_rooms PROVE log'[r] = log[r]
    BY <1>1, <2>1
  <2> QED
    BY <2>1 DEF HeardInv, NewRoomsWaitWhole
<1>4. HeardWhenHandled'
  <2>1. ASSUME NEW r \in DOMAIN room_id_to_channel
        PROVE  SaidIn(r)' = SaidIn(r)
    <3> DEFINE senders == DOMAIN rooms[r].members
               channel == room_id_to_channel[r]
    <3>1. r \in Rooms /\ synced[r] \in Nat /\ r \in DOMAIN rooms
      BY <1>1 DEF IInv, Rooming, KnownRoomsAreOnIrc
    <3>2. \A i \in 1 .. synced[r] : log'[r][i] = log[r][i]
      <4>1. CASE log'[r] = log[r]
        BY <4>1
      <4>2. CASE \A i \in 1 .. Len(log[r]) : log'[r][i] = log[r][i]
        BY <1>1, <3>1, <4>2
      <4> QED
        BY <3>1, <4>1, <4>2
    <3> DEFINE now == SaidOf(log[r], synced[r], left_out[r], senders, channel, matrix_uid_to_nick)
               then == SaidOf(log'[r], synced[r], left_out[r], senders, channel, matrix_uid_to_nick)
    <3>3. then = now
      <4> DEFINE a == log[r]
                 b == log'[r]
      <4>1. \A i \in 1 .. synced[r] : b[i] = a[i]
        BY <3>2
      <4> HIDE DEF a, b
      <4>2. [i \in 1 .. synced[r] |-> IF i \in left_out[r] \/ b[i].own \/ b[i].sender \notin senders
                                      THEN <<>> ELSE EventLines(b[i], channel, matrix_uid_to_nick)]
            = [i \in 1 .. synced[r] |-> IF i \in left_out[r] \/ a[i].own \/ a[i].sender \notin senders
                                      THEN <<>> ELSE EventLines(a[i], channel, matrix_uid_to_nick)]
        BY <4>1
      <4> QED
        BY <4>2 DEF SaidOf, a, b
    <3> QED
      BY <3>3 DEF SaidIn
  <2>2. \A r : HeardOf(r)' = HeardOf(r) /\ WaitingOf(r)' = WaitingOf(r)
    BY DEF HeardOf, WaitingOf, Nicks
  <2> QED
    BY <2>1, <2>2 DEF HeardInv, HeardWhenHandled
<1> QED
  BY <1>2, <1>3, <1>4 DEF HeardInv

(* Lines that say nothing.                                                 *)
LEMMA SilentLines ==
  ASSUME LinesInv, NEW T, NEW more \in Seq(T), \A i \in 1 .. Len(more) : ~IsSpeech(more[i]),
         NEW channel, NEW nicks
  PROVE  HeardIn(irc_out \o more, channel, nicks) = HeardIn(irc_out, channel, nicks)
<1>1. irc_out \in Seq(Range(irc_out))
  BY DEF LinesInv, LinesOk
<1>2. HeardIn(irc_out \o more, channel, nicks)
        = HeardIn(irc_out, channel, nicks) \o HeardIn(more, channel, nicks)
  BY <1>1, HeardGrows
<1>3. HeardIn(more, channel, nicks) = <<>>
  <2>1. \A i \in 1 .. Len(more) : ~Reaches(more[i], channel, nicks)
    BY DEF Reaches
  <2> QED
    BY <2>1, HeardNothing
<1>4. HeardIn(irc_out, channel, nicks) \in Seq(Range(irc_out))
  BY <1>1, HeardInIsFlatMap
<1> QED
  BY <1>2, <1>3, <1>4

(* One such line.                                                          *)
LEMMA SilentLine ==
  ASSUME LinesInv, NEW line, ~IsSpeech(line), NEW channel, NEW nicks
  PROVE  HeardIn(Append(irc_out, line), channel, nicks) = HeardIn(irc_out, channel, nicks)
<1>1. <<line>> \in Seq({line}) /\ \A i \in 1 .. Len(<<line>>) : <<line>>[i] = line
  OBVIOUS
<1>2. HeardIn(irc_out \o <<line>>, channel, nicks) = HeardIn(irc_out, channel, nicks)
  BY <1>1, SilentLines
<1>3. irc_out \in Seq(Range(irc_out))
  BY DEF LinesInv, LinesOk
<1>4. irc_out \o <<line>> = Append(irc_out, line)
  BY <1>3
<1> QED
  BY <1>2, <1>4

(* A sync response: what is delivered is said, and waits to be heard.      *)
LEMMA SyncKeepsHeard ==
  ASSUME IInv, LinesInv, HeardInv, SyncResponse
  PROVE  HeardInv'
<1> DEFINE fresh == {r \in joined : synced[r] < Len(log[r])}
           members(r) == DOMAIN rooms[r].members
           channel(r) == room_id_to_channel[r]
<1>1. /\ DOMAIN rooms' = DOMAIN rooms \cup fresh
      /\ sync_rooms' = [r \in fresh |-> Response(r).timeline]
      /\ synced' = [r \in Rooms |-> IF r \in fresh THEN Len(log[r]) ELSE synced[r]]
      /\ left_out' = [r \in Rooms |-> IF r \in fresh
                                      THEN left_out[r] \cup (synced[r] + 1 .. Cut(r))
                                      ELSE left_out[r]]
      /\ UNCHANGED <<log, room_id_to_channel, matrix_uid_to_nick>>
      /\ DOMAIN sync_rooms = {} /\ DOMAIN rooms = DOMAIN room_id_to_channel
      /\ fresh \subseteq Rooms
  BY DEF SyncResponse, mappings, Idle, IInv, TypeOK, Rooming, KnownRoomsAreOnIrc
<1>2. ASSUME NEW r \in Rooms
      PROVE  /\ synced[r] \in Nat /\ Len(log[r]) \in Nat /\ log[r] \in Seq(Events)
             /\ synced[r] <= Len(log[r]) /\ left_out[r] \subseteq 1 .. synced[r]
             /\ Cut(r) \in Nat /\ synced[r] <= Cut(r) /\ Cut(r) <= Len(log[r])
  <2>1. /\ synced[r] \in Nat /\ Len(log[r]) \in Nat /\ log[r] \in Seq(Events)
        /\ synced[r] <= Len(log[r]) /\ left_out[r] \subseteq 1 .. synced[r]
    BY DEF IInv, TypeOK, HeardInv, DeliveredIsLogged
  <2> QED
    BY <2>1, BoundsAssumption DEF Cut
<1> DEFINE rest(r) == SubSeq(log[r], Cut(r) + 1, Len(log[r]))
<1>3. ASSUME NEW r \in Rooms
      PROVE  Response(r).timeline = Filtered(rest(r), LAMBDA event : ~event.own)
  BY DEF Response
<1>4. \A r \in DOMAIN rooms : rooms'[r].members = rooms[r].members
  BY MembersStay
<1>5. ASSUME NEW ch, NEW nicks
      PROVE  HeardIn(irc_out', ch, nicks) = HeardIn(irc_out, ch, nicks)
  <2>1. irc_out' \in {irc_out, irc_out \o WelcomeLines}
    BY DEF SyncResponse
  <2> DEFINE Plain == {[cmd |-> "WELCOME"], [cmd |-> "PING"]}
  <2>2. WelcomeLines \in Seq(Plain) /\ \A line \in Plain : ~IsSpeech(line)
    BY DEF WelcomeLines, IsSpeech
  <2>3. \A i \in 1 .. Len(WelcomeLines) : WelcomeLines[i] \in Plain
    BY DEF WelcomeLines
  <2> HIDE DEF Plain
  <2>4. HeardIn(irc_out \o WelcomeLines, ch, nicks) = HeardIn(irc_out, ch, nicks)
    BY <2>2, <2>3, SilentLines
  <2> QED
    BY <2>1, <2>4
<1> HIDE DEF fresh
<1>6. DeliveredIsLogged'
  <2>1. ASSUME NEW r \in Rooms
        PROVE  synced'[r] <= Len(log'[r]) /\ left_out'[r] \subseteq 1 .. synced'[r]
    <3>1. CASE r \in fresh
      BY <1>1, <1>2, <3>1
    <3>2. CASE r \notin fresh
      BY <1>1, <1>2, <3>2
    <3> QED
      BY <3>1, <3>2
  <2>2. ASSUME NEW r \in Rooms \ DOMAIN rooms' PROVE synced'[r] = 0
    BY <1>1, <2>2 DEF HeardInv, DeliveredIsLogged
  <2> QED
    BY <2>1, <2>2 DEF DeliveredIsLogged
<1>7. NewRoomsWaitWhole'
  <2>1. ASSUME NEW r \in fresh, r \notin DOMAIN room_id_to_channel
        PROVE  WaitsWhole(log[r], synced'[r], left_out'[r], sync_rooms'[r])
    <3>1. synced[r] = 0 /\ left_out[r] = {} /\ r \in Rooms
      <4>1. r \in Rooms /\ synced[r] = 0
        BY <1>1, <2>1 DEF HeardInv, DeliveredIsLogged
      <4> QED
        BY <1>2, <4>1
    <3>2. synced'[r] = Len(log[r]) /\ left_out'[r] = 1 .. Cut(r)
      BY <1>1, <1>2, <3>1
    <3>3. sync_rooms'[r] = Filtered(rest(r), LAMBDA event : ~event.own)
      BY <1>1, <1>3, <3>1
    <3>4. Cut(r) \in 0 .. Len(log[r])
      BY <1>2, <3>1
    <3> QED
      BY <3>2, <3>3, <3>4 DEF WaitsWhole
  <2> QED
    BY <1>1, <2>1 DEF NewRoomsWaitWhole
<1>8. HeardWhenHandled'
  <2>1. ASSUME NEW r \in DOMAIN room_id_to_channel
        PROVE  /\ r \notin fresh => HeardOf(r)' = SaidIn(r)'
               /\ r \in fresh => HeardOf(r)' \o WaitingOf(r)' = SaidIn(r)'
    <3>1. r \in Rooms /\ r \in DOMAIN rooms /\ rooms'[r].members = rooms[r].members
      BY <1>1, <1>4 DEF IInv, TypeOK
    <3>2. HeardOf(r)' = HeardOf(r)
      BY <1>1, <1>5, <3>1 DEF HeardOf, Nicks
    <3>3. HeardOf(r) = SaidIn(r)
      BY <1>1 DEF HeardInv, HeardWhenHandled
    <3>4. CASE r \notin fresh
      <4>1. synced'[r] = synced[r] /\ left_out'[r] = left_out[r] /\ log' = log
        BY <1>1, <3>1, <3>4
      <4>2. SaidIn(r)' = SaidIn(r)
        BY <1>1, <3>1, <4>1 DEF SaidIn
      <4> QED
        BY <3>2, <3>3, <3>4, <4>2
    <3>5. CASE r \in fresh
      <4> DEFINE gone == left_out[r] \cup (synced[r] + 1 .. Cut(r))
                 after == rest(r)
                 shown == Filtered(after, LAMBDA event : ~event.own)
      <4>1. CutAt(log[r], synced[r], Cut(r), left_out[r], gone, after)
        BY <1>2, <3>1 DEF CutAt
      <4>2. synced'[r] = Len(log[r]) /\ left_out'[r] = gone /\ log' = log
        BY <1>1, <3>1, <3>5
      <4>3. sync_rooms'[r] = shown
        BY <1>1, <1>3, <3>1, <3>5
      <4> HIDE DEF gone, after
      <4>4. SaidOf(log[r], Len(log[r]), gone, members(r), channel(r), matrix_uid_to_nick)
              = SaidOf(log[r], synced[r], left_out[r], members(r), channel(r), matrix_uid_to_nick)
                  \o Shown(shown, members(r), channel(r), matrix_uid_to_nick)
        BY <4>1, DeliverySays
      <4> HIDE DEF shown
      <4>5. WaitingOf(r)' = Shown(shown, members(r), channel(r), matrix_uid_to_nick)
        BY <1>1, <3>1, <4>3 DEF WaitingOf
      <4>6. SaidIn(r)' = SaidOf(log[r], Len(log[r]), gone, members(r), channel(r), matrix_uid_to_nick)
        BY <1>1, <3>1, <4>2 DEF SaidIn
      <4> QED
        BY <3>2, <3>3, <3>5, <4>4, <4>5, <4>6 DEF SaidIn
    <3> QED
      BY <3>4, <3>5
  <2>2. DOMAIN sync_rooms' = fresh /\ DOMAIN room_id_to_channel' = DOMAIN room_id_to_channel
    BY <1>1
  <2> QED
    BY <2>1, <2>2 DEF HeardWhenHandled
<1> QED
  BY <1>6, <1>7, <1>8 DEF HeardInv

(* What the lines of one room add to what is heard.                        *)
LEMMA RoomLinesHeard ==
  ASSUME NEW S, NEW out \in Seq(S), NEW r, NEW channel, NEW uid, NEW timeline \in Seq(Events),
         NEW ch, NEW nicks
  PROVE  LET lines == TimelineLines(timeline, channel, uid)
             all == out \o RedirectLines(r, channel) \o lines
         IN  /\ HeardIn(all, ch, nicks) = HeardIn(out, ch, nicks) \o HeardIn(lines, ch, nicks)
             /\ ch # channel => HeardIn(all, ch, nicks) = HeardIn(out, ch, nicks)
<1> DEFINE lines == TimelineLines(timeline, channel, uid)
           redirect == RedirectLines(r, channel)
           line == ForwardLine(joining_map[r], channel)
           T == Speech(channel, uid)
<1>1. redirect \in Seq({line}) /\ ~IsSpeech(line)
  <2>1. redirect = <<>> \/ redirect = <<line>>
    BY DEF RedirectLines
  <2>2. ~IsSpeech(line)
    BY DEF ForwardLine, IsSpeech
  <2> HIDE DEF redirect, line
  <2>3. <<>> \in Seq({line}) /\ <<line>> \in Seq({line})
    OBVIOUS
  <2> QED
    BY <2>1, <2>2, <2>3
<1>2. lines \in Seq(T)
  BY TimelineIsFlatMap
<1> HIDE DEF redirect, line
<1>3. HeardIn(redirect, ch, nicks) = <<>>
  <2>1. \A i \in 1 .. Len(redirect) : redirect[i] \in {line}
    BY <1>1, OverItsRange
  <2>2. \A i \in 1 .. Len(redirect) : ~Reaches(redirect[i], ch, nicks)
    BY <1>1, <2>1 DEF Reaches
  <2> QED
    BY <1>1, <2>2, HeardNothing
<1>4. ch # channel => HeardIn(lines, ch, nicks) = <<>>
  <2> SUFFICES ASSUME ch # channel PROVE HeardIn(lines, ch, nicks) = <<>>
    OBVIOUS
  <2>1. \A i \in 1 .. Len(lines) : lines[i] \in T
    BY <1>2, OverItsRange
  <2>2. \A i \in 1 .. Len(lines) : ~Reaches(lines[i], ch, nicks)
    BY <2>1, SpeechIsOfChannel DEF Reaches
  <2> QED
    BY <1>2, <2>2, HeardNothing
<1> HIDE DEF lines, T
<1> DEFINE both == out \o redirect
<1>5. both \in Seq(S \cup {line})
  BY <1>1, ConcatElements
<1>6. HeardIn(both, ch, nicks) = HeardIn(out, ch, nicks) \o <<>>
  <2> DEFINE one == {line}
  <2>1. out \in Seq(S) /\ redirect \in Seq(one)
    BY <1>1
  <2> HIDE DEF one, both
  <2>2. HeardIn(out \o redirect, ch, nicks)
          = HeardIn(out, ch, nicks) \o HeardIn(redirect, ch, nicks)
    BY <2>1, HeardGrows
  <2> QED
    BY <1>3, <2>2, Zenon DEF both
<1>7. HeardIn(out, ch, nicks) \in Seq(S)
  BY HeardInIsFlatMap
<1>8. HeardIn(both, ch, nicks) = HeardIn(out, ch, nicks)
  BY <1>6, <1>7
<1> DEFINE U == S \cup {line}
<1> HIDE DEF both, U
<1>9. HeardIn(both \o lines, ch, nicks) = HeardIn(both, ch, nicks) \o HeardIn(lines, ch, nicks)
  <2>1. both \in Seq(U)
    BY <1>5 DEF U
  <2> QED
    BY <1>2, <2>1, HeardGrows
<1>10. HeardIn(out, ch, nicks) \o <<>> = HeardIn(out, ch, nicks)
  BY <1>7
<1> QED
  BY <1>4, <1>8, <1>9, <1>10 DEF both, lines, redirect

(* A room that has its channel is handled: what waited is heard.           *)
LEMMA KnownRoomKeepsHeard ==
  ASSUME IInv, TimelinesOfEvents, LinesInv, MirrorInv, HeardInv, NEW r \in Rooms, HandleKnownRoom(r)
  PROVE  HeardInv'
<1> DEFINE channel == room_id_to_channel[r]
<1>1. /\ r \in DOMAIN room_id_to_channel /\ r \in DOMAIN sync_rooms /\ sync_rooms[r] \in Seq(Events)
      /\ sync_rooms' = Without(sync_rooms, r)
      /\ UNCHANGED <<log, synced, left_out, rooms, room_id_to_channel, matrix_uid_to_nick>>
      /\ irc_out' = irc_out \o RedirectLines(r, channel)
                            \o TimelineLines(sync_rooms[r], channel, matrix_uid_to_nick)
  BY DEF HandleKnownRoom, NextInResponse, TimelinesOfEvents, mappings, homeserver
<1>2. /\ DOMAIN sync_rooms' = DOMAIN sync_rooms \ {r}
      /\ \A q \in DOMAIN sync_rooms' : sync_rooms'[q] = sync_rooms[q]
  BY <1>1 DEF Without
<1>3. DeliveredIsLogged'
  BY <1>1 DEF HeardInv, DeliveredIsLogged
<1>4. NewRoomsWaitWhole'
  BY <1>1, <1>2 DEF HeardInv, NewRoomsWaitWhole
<1>5. irc_out \in Seq(Range(irc_out))
  BY DEF LinesInv, LinesOk
<1>6. /\ DOMAIN rooms[r].members \subseteq DOMAIN matrix_uid_to_nick
      /\ \A u, v \in DOMAIN matrix_uid_to_nick :
           matrix_uid_to_nick[u] = matrix_uid_to_nick[v] => u = v
  BY <1>1, InverseIsInjective DEF MirrorInv, ChannelMirrorsRoom, IInv, Tables, TablesInverse
<1>7. ASSUME NEW q \in DOMAIN room_id_to_channel
      PROVE  /\ q \notin DOMAIN sync_rooms' => HeardOf(q)' = SaidIn(q)
             /\ q \in DOMAIN sync_rooms' => HeardOf(q)' \o WaitingOf(q)' = SaidIn(q)
  <2>1. HeardOf(q)' = HeardIn(irc_out', room_id_to_channel[q], Nicks(q))
    BY <1>1 DEF HeardOf, Nicks
  <2>2. CASE q = r
    <3>1. HeardOf(q)' = HeardOf(r)
                          \o HeardIn(TimelineLines(sync_rooms[r], channel, matrix_uid_to_nick),
                                     channel, Nicks(r))
      BY <1>1, <1>5, <2>1, <2>2, RoomLinesHeard DEF HeardOf
    <3>2. HeardIn(TimelineLines(sync_rooms[r], channel, matrix_uid_to_nick), channel, Nicks(r))
            = WaitingOf(r)
      BY <1>1, <1>6, TimelineIsHeard DEF Nicks, WaitingOf
    <3>3. HeardOf(r) \o WaitingOf(r) = SaidIn(r)
      BY <1>1 DEF HeardInv, HeardWhenHandled
    <3> QED
      BY <1>2, <2>2, <3>1, <3>2, <3>3
  <2>3. CASE q # r
    <3>1. room_id_to_channel[q] # channel
      BY <1>1, <2>3, ChannelsExist
    <3>2. HeardOf(q)' = HeardOf(q)
      BY <1>1, <1>5, <2>1, <3>1, RoomLinesHeard DEF HeardOf
    <3>3. q \in DOMAIN sync_rooms' => WaitingOf(q)' = WaitingOf(q)
      BY <1>1, <1>2 DEF WaitingOf
    <3>4. q \in DOMAIN sync_rooms' <=> q \in DOMAIN sync_rooms
      BY <1>2, <2>3
    <3> QED
      BY <3>2, <3>3, <3>4 DEF HeardInv, HeardWhenHandled
  <2> QED
    BY <2>2, <2>3
<1>8. \A q : SaidIn(q)' = SaidIn(q)
  BY <1>1 DEF SaidIn
<1>9. HeardWhenHandled'
  BY <1>1, <1>7, <1>8 DEF HeardWhenHandled
<1> QED
  BY <1>3, <1>4, <1>9 DEF HeardInv

(* What a new room leaves alone.                                           *)
LEMMA NewRoomFrame ==
  ASSUME NEW r, HandleNewRoom(r)
  PROVE  /\ r \notin DOMAIN room_id_to_channel /\ r \in DOMAIN sync_rooms
         /\ sync_rooms' = Without(sync_rooms, r)
         /\ UNCHANGED <<log, synced, left_out, rooms>>
<1>1. NextInResponse(r) /\ r \notin DOMAIN room_id_to_channel
  BY Zenon DEF HandleNewRoom
<1>2. sync_rooms' = Without(sync_rooms, r)
  BY Zenon DEF HandleNewRoom
<1>3. UNCHANGED rooms
  BY Zenon DEF HandleNewRoom
<1>4. UNCHANGED homeserver
  BY Zenon DEF HandleNewRoom
<1> QED
  BY <1>1, <1>2, <1>3, <1>4 DEF NextInResponse, homeserver

(* A room gets its channel: nothing was heard in it, and now all that      *)
(* waited is.  The nicks that exist stay with their users.                 *)
LEMMA NewRoomKeepsHeard ==
  ASSUME IInv, IInv', TimelinesOfEvents, LinesInv, MirrorInv, HeardInv,
         NEW r \in Rooms, HandleNewRoom(r)
  PROVE  HeardInv'
<1> DEFINE members(q) == DOMAIN rooms[q].members
           uid == matrix_uid_to_nick
           more == matrix_uid_to_nick'
<1>1. /\ r \notin DOMAIN room_id_to_channel /\ r \in DOMAIN sync_rooms
      /\ sync_rooms[r] \in Seq(Events) /\ sync_rooms' = Without(sync_rooms, r)
      /\ UNCHANGED <<log, synced, left_out, rooms>>
  BY NewRoomFrame DEF TimelinesOfEvents
<1>2. /\ DOMAIN more = DOMAIN uid \cup members(r)
      /\ \A u \in DOMAIN uid : more[u] = uid[u]
  BY NewRoomFacts
<1>3. PICK channel, entries :
         /\ channel \notin DOMAIN channels
         /\ room_id_to_channel' = Insert(room_id_to_channel, r, channel)
         /\ irc_out' = irc_out \o JoinLines(channel, entries)
                               \o RedirectLines(r, channel)
                               \o TimelineLines(sync_rooms[r], channel, more)
  BY NewRoomFacts
<1>4. /\ DOMAIN sync_rooms' = DOMAIN sync_rooms \ {r}
      /\ \A q \in DOMAIN sync_rooms' : sync_rooms'[q] = sync_rooms[q]
  BY <1>1 DEF Without
<1>5. /\ DOMAIN room_id_to_channel' = DOMAIN room_id_to_channel \cup {r}
      /\ room_id_to_channel'[r] = channel
      /\ \A q \in DOMAIN room_id_to_channel : room_id_to_channel'[q] = room_id_to_channel[q]
  BY <1>1, <1>3 DEF Insert
<1>6. DeliveredIsLogged'
  BY <1>1 DEF HeardInv, DeliveredIsLogged
<1>7. NewRoomsWaitWhole'
  BY <1>1, <1>4, <1>5 DEF HeardInv, NewRoomsWaitWhole
<1> DEFINE out == irc_out \o JoinLines(channel, entries)
<1>8. ASSUME NEW ch, NEW nicks
      PROVE  out \in Seq(Range(out)) /\ HeardIn(out, ch, nicks) = HeardIn(irc_out, ch, nicks)
  <2> DEFINE line == [cmd |-> "JOIN", channel |-> channel, names |-> entries]
             join == JoinLines(channel, entries)
  <2>1. join \in Seq({line}) /\ ~IsSpeech(line) /\ \A i \in 1 .. Len(join) : join[i] = line
    BY DEF JoinLines, IsSpeech
  <2>2. LinesOk(out, DOMAIN channels \cup {channel})
    BY JoinAdded DEF LinesInv
  <2> HIDE DEF line, join
  <2>3. HeardIn(irc_out \o join, ch, nicks) = HeardIn(irc_out, ch, nicks)
    BY <2>1, SilentLines
  <2> QED
    BY <2>2, <2>3 DEF LinesOk, join
<1>9. irc_out' = out \o RedirectLines(r, channel) \o TimelineLines(sync_rooms[r], channel, more)
  BY <1>3
<1>10. \A u, v \in DOMAIN more : more[u] = more[v] => u = v
  BY InverseIsInjective DEF IInv, Tables, TablesInverse
<1> HIDE DEF out
<1>11. ASSUME NEW q \in DOMAIN room_id_to_channel
       PROVE  /\ q \notin DOMAIN sync_rooms' => HeardOf(q)' = SaidIn(q)'
              /\ q \in DOMAIN sync_rooms' => HeardOf(q)' \o WaitingOf(q)' = SaidIn(q)'
  <2> DEFINE ch == room_id_to_channel[q]
  <2>1. /\ ch # channel /\ q # r /\ q \in Rooms /\ room_id_to_channel'[q] = ch
        /\ (q \in DOMAIN sync_rooms' <=> q \in DOMAIN sync_rooms)
    BY <1>1, <1>3, <1>4, <1>5, ChannelsExist DEF IInv, TypeOK
  <2>2. members(q) \subseteq DOMAIN uid
    BY DEF MirrorInv, ChannelMirrorsRoom
  <2>3. members(q) \subseteq DOMAIN more /\ \A u \in members(q) : more[u] = uid[u]
    BY <1>2, <2>2
  <2>4. Nicks(q)' = Nicks(q)
    BY <1>1, <2>3 DEF Nicks
  <2>5. HeardOf(q)' = HeardOf(q)
    <3>1. HeardOf(q)' = HeardIn(irc_out', ch, Nicks(q))
      BY <2>1, <2>4 DEF HeardOf
    <3>2. HeardIn(irc_out', ch, Nicks(q)) = HeardIn(out, ch, Nicks(q))
      BY <1>1, <1>8, <1>9, <2>1, RoomLinesHeard
    <3> QED
      BY <1>8, <3>1, <3>2 DEF HeardOf
  <2>6. q \in DOMAIN sync_rooms' => WaitingOf(q)' = WaitingOf(q)
    <3>1. \A t : Shown(t, members(q), ch, more) = Shown(t, members(q), ch, uid)
      BY <2>2, <2>3, ShownStays
    <3> QED
      BY <1>1, <1>4, <2>1, <3>1 DEF WaitingOf
  <2>7. SaidIn(q)' = SaidIn(q)
    <3>1. SaidOf(log[q], synced[q], left_out[q], members(q), ch, more)
            = SaidOf(log[q], synced[q], left_out[q], members(q), ch, uid)
      BY <2>2, <2>3, SaidStays
    <3> QED
      BY <1>1, <2>1, <3>1 DEF SaidIn
  <2> QED
    BY <2>1, <2>5, <2>6, <2>7 DEF HeardInv, HeardWhenHandled
<1>12. HeardOf(r)' = SaidIn(r)' /\ r \notin DOMAIN sync_rooms'
  <2> DEFINE nicks == {more[u] : u \in members(r)}
             shown == Shown(sync_rooms[r], members(r), channel, more)
  <2>1. HeardOf(r)' = HeardIn(irc_out', channel, nicks)
    BY <1>1, <1>5 DEF HeardOf, Nicks
  <2>2. HeardIn(irc_out', channel, nicks)
          = HeardIn(out, channel, nicks)
              \o HeardIn(TimelineLines(sync_rooms[r], channel, more), channel, nicks)
    BY <1>1, <1>8, <1>9, RoomLinesHeard
  <2>3. HeardIn(out, channel, nicks) = <<>>
    BY <1>3, <1>8, NothingHeardBefore DEF LinesInv
  <2>4. HeardIn(TimelineLines(sync_rooms[r], channel, more), channel, nicks) = shown
    BY <1>1, <1>2, <1>10, TimelineIsHeard
  <2>5. PICK cut \in 0 .. Len(log[r]) :
           /\ synced[r] = Len(log[r]) /\ left_out[r] = 1 .. cut
           /\ sync_rooms[r] = Filtered(SubSeq(log[r], cut + 1, Len(log[r])), LAMBDA event : ~event.own)
    BY <1>1 DEF HeardInv, NewRoomsWaitWhole, WaitsWhole
  <2> DEFINE rest == SubSeq(log[r], cut + 1, Len(log[r]))
  <2>6. CutAt(log[r], 0, cut, {}, left_out[r], rest)
    <3>1. log[r] \in Seq(Events) /\ Len(log[r]) \in Nat
      BY DEF IInv, TypeOK
    <3> QED
      BY <2>5, <3>1 DEF CutAt
  <2> HIDE DEF rest, shown
  <2>7. SaidOf(log[r], Len(log[r]), left_out[r], members(r), channel, more)
          = SaidOf(log[r], 0, {}, members(r), channel, more) \o shown
    BY <2>5, <2>6, DeliverySays, SMTT(60) DEF rest, shown
  <2>8. shown \in Seq(Speech(channel, more))
    BY <1>1, LinesByType, FlatMapType DEF shown, Shown
  <2>9. <<>> \o shown = shown
    BY <2>8
  <2>10. SaidIn(r)' = SaidOf(log[r], Len(log[r]), left_out[r], members(r), channel, more)
    BY <1>1, <1>5, <2>5 DEF SaidIn
  <2> QED
    BY <1>4, <2>1, <2>2, <2>3, <2>4, <2>7, <2>9, <2>10, NothingSaidYet
<1>13. HeardWhenHandled'
  BY <1>5, <1>11, <1>12 DEF HeardWhenHandled
<1> QED
  BY <1>6, <1>7, <1>13 DEF HeardInv

(* Every step keeps what has been heard of what was said.                  *)
LEMMA StepKeepsHeard ==
  ASSUME IInv, IInv', TimelinesOfEvents, LinesInv, MirrorInv, HeardInv, [Next]_vars
  PROVE  HeardInv'
<1> DEFINE still == <<rooms, room_id_to_channel, matrix_uid_to_nick, sync_rooms, synced, left_out>>
           Same == \A channel, nicks : HeardIn(irc_out', channel, nicks) = HeardIn(irc_out, channel, nicks)
           LogsGrow == \A r \in Rooms :
                         \/ log'[r] = log[r]
                         \/ /\ DOMAIN sync_rooms = {}
                            /\ Len(log[r]) <= Len(log'[r]) /\ Len(log'[r]) \in Nat
                            /\ \A i \in 1 .. Len(log[r]) : log'[r][i] = log[r][i]
<1>1. ASSUME UNCHANGED still, Same, LogsGrow PROVE HeardInv'
  BY <1>1, QuietStepKeepsHeard
<1>2. CASE UNCHANGED <<still, irc_out, log>>
  BY <1>1, <1>2
<1>3. ASSUME UNCHANGED <<still, log>>, NEW line, irc_out' = Append(irc_out, line), ~IsSpeech(line)
      PROVE  HeardInv'
  <2>1. Same
    BY <1>3, SilentLine
  <2> QED
    BY <1>1, <1>3, <2>1
<1>4. ASSUME UNCHANGED <<still, irc_out>>, DOMAIN sync_rooms = {}, NEW q \in Rooms, NEW event \in Events,
             log' = [log EXCEPT ![q] = Append(@, event)]
      PROVE  HeardInv'
  <2>1. ASSUME NEW r \in Rooms
        PROVE  \/ log'[r] = log[r]
               \/ /\ Len(log[r]) <= Len(log'[r]) /\ Len(log'[r]) \in Nat
                  /\ \A i \in 1 .. Len(log[r]) : log'[r][i] = log[r][i]
    <3>1. log[r] \in Seq(Events) /\ log \in [Rooms -> Seq(Events)]
      BY DEF IInv, TypeOK
    <3>2. log'[r] = log[r] \/ log'[r] = Append(log[r], event)
      BY <1>4, <3>1
    <3>3. /\ Len(Append(log[r], event)) = Len(log[r]) + 1 /\ Len(log[r]) \in Nat
          /\ \A i \in 1 .. Len(log[r]) : Append(log[r], event)[i] = log[r][i]
      BY <3>1, AppendProperties
    <3> QED
      BY <3>2, <3>3
  <2>2. LogsGrow /\ Same
    BY <1>4, <2>1
  <2> QED
    BY <1>1, <1>4, <2>2
<1> HIDE DEF Same, LogsGrow
<1>5. ASSUME NEW c \in ClientChannels, IrcJoin(c) PROVE HeardInv'
  <2>1. UNCHANGED <<still, log>>
    BY <1>5 DEF IrcJoin, mappings, homeserver
  <2>2. CASE irc_out' = irc_out
    BY <1>2, <2>1, <2>2
  <2>3. CASE irc_out' = irc_out \o JoinLines(c, channels[c])
    <3> DEFINE line == [cmd |-> "JOIN", channel |-> c, names |-> channels[c]]
    <3>1. JoinLines(c, channels[c]) = <<line>> /\ ~IsSpeech(line)
      BY DEF JoinLines, IsSpeech
    <3> HIDE DEF line
    <3>2. irc_out \in Seq(Range(irc_out))
      BY DEF LinesInv, LinesOk
    <3>3. irc_out' = Append(irc_out, line)
      BY <2>3, <3>1, <3>2
    <3> QED
      BY <1>3, <2>1, <3>1, <3>3
  <2> QED
    BY <1>5, <2>2, <2>3 DEF IrcJoin
<1>6. ASSUME NEW c \in ClientChannels, IrcWho(c) PROVE HeardInv'
  <2> DEFINE line == [cmd |-> "WHO", channel |-> c,
                      names |-> [n \in DOMAIN channels[c] \cap DOMAIN users |-> users[n].user]]
  <2>1. UNCHANGED <<still, log>> /\ irc_out' = Append(irc_out, line)
    BY <1>6 DEF IrcWho, mappings, homeserver
  <2>2. ~IsSpeech(line)
    BY DEF IsSpeech
  <2> HIDE DEF line
  <2> QED
    BY <1>3, <2>1, <2>2
<1>7. ASSUME NEW cmd \in {"PONG", "MODE", "AWAY"}, IrcReply(cmd) PROVE HeardInv'
  <2> DEFINE line == [cmd |-> cmd]
  <2>1. UNCHANGED <<still, log>> /\ irc_out' = Append(irc_out, line)
    BY <1>7 DEF IrcReply, mappings, homeserver
  <2>2. ~IsSpeech(line)
    BY DEF IsSpeech
  <2> HIDE DEF line
  <2> QED
    BY <1>3, <2>1, <2>2
<1>8. ASSUME NEW i \in DOMAIN replies, JoinReply(i) PROVE HeardInv'
  <2> DEFINE line == ForwardLine(replies[i].channel, room_id_to_channel[replies[i].room])
  <2>1. UNCHANGED <<still, log>> /\ (irc_out' = irc_out \/ irc_out' = Append(irc_out, line))
    BY <1>8 DEF JoinReply, mappings, homeserver
  <2>2. ~IsSpeech(line)
    BY DEF ForwardLine, IsSpeech
  <2> HIDE DEF line
  <2> QED
    BY <1>2, <1>3, <2>1, <2>2
<1>9. CASE SyncDone
  <2>1. UNCHANGED <<still, irc_out, log>>
    BY <1>9 DEF SyncDone, mappings, homeserver
  <2> QED
    BY <1>2, <2>1
<1>10. CASE ServerHandle
  <2>1. UNCHANGED <<still, irc_out>> /\ DOMAIN sync_rooms = {}
    BY <1>10 DEF ServerHandle, mappings, Idle, IInv, Rooming
  <2>2. \/ log' = log
        \/ \E q \in Rooms, event \in Events : log' = [log EXCEPT ![q] = Append(@, event)]
    <3>1. OwnMembership \in Events
      BY DEF Events
    <3>2. \A i \in DOMAIN requests : requests[i].kind = "send" =>
            requests[i].room \in Rooms /\ OwnMessage(requests[i].msgtype) \in Events
      <4>1. \A i \in DOMAIN requests : requests[i] \in SendRequest \cup JoinRequest
        BY DEF IInv, TypeOK
      <4> QED
        BY <4>1 DEF SendRequest, JoinRequest, Events
    <3>3. \A c \in DOMAIN Directory : Directory[c] \in Rooms
      BY HomeserverAssumption DEF Range
    <3> QED
      BY <1>10, <3>1, <3>2, <3>3 DEF ServerHandle
  <2> QED
    BY <1>2, <1>4, <2>1, <2>2
<1>11. CASE ServerEvent
  <2>1. UNCHANGED <<still, irc_out>> /\ DOMAIN sync_rooms = {}
    BY <1>11 DEF ServerEvent, mappings, Idle, IInv, Rooming
  <2>2. \E q \in Rooms, event \in Events : log' = [log EXCEPT ![q] = Append(@, event)]
    BY <1>11, HomeserverAssumption DEF ServerEvent, Events
  <2> QED
    BY <1>4, <2>1, <2>2
<1>12. CASE \/ SyncError \/ IrcClosed \/ Deliver
            \/ \E n \in 1 .. Len(requests) : HttpFail(n)
            \/ \E c \in ClientChannels, t \in {"m.text", "m.emote"} : IrcPrivMsg(c, t)
  <2>1. UNCHANGED <<still, irc_out, log>>
    BY <1>12 DEF SyncError, IrcClosed, Deliver, HttpFail, IrcPrivMsg, mappings, homeserver
  <2> QED
    BY <1>2, <2>1
<1>13. CASE UNCHANGED vars
  <2>1. UNCHANGED <<still, irc_out, log>>
    BY <1>13 DEF vars, mappings, homeserver
  <2> QED
    BY <1>2, <2>1
<1> QED
  BY <1>5, <1>6, <1>7, <1>8, <1>9, <1>10, <1>11, <1>12, <1>13,
     SyncKeepsHeard, KnownRoomKeepsHeard, NewRoomKeepsHeard
     DEF Next, PollMatrix, PollIrc, Network

(* A client reads what the members of a room say, once and in order.       *)
THEOREM SpeechIsHeard == Spec => []HeardExactly
<1> DEFINE AllInv == TimelinesOfEvents /\ LinesInv /\ MirrorInv /\ HeardInv
<1>1. Init => AllInv
  <2> SUFFICES ASSUME Init PROVE AllInv
    OBVIOUS
  <2>1. DOMAIN <<>> = {} /\ Len(<<>>) = 0 /\ <<>> \in Seq(Range(<<>>)) /\ 1 .. 0 = {}
    OBVIOUS
  <2>2. TimelinesOfEvents /\ LinesInv /\ MirrorInv
    BY <2>1 DEF Init, TimelinesOfEvents, LinesInv, LinesOk, MirrorInv, FlagsAreFlags, ChannelMirrorsRoom
  <2>3. DeliveredIsLogged
    <3>1. \A r \in Rooms : Len(log[r]) \in Nat
      BY InitIInv DEF IInv, TypeOK
    <3> QED
      BY <2>1, <3>1 DEF Init, DeliveredIsLogged
  <2>4. HeardWhenHandled /\ NewRoomsWaitWhole
    BY <2>1 DEF Init, HeardWhenHandled, NewRoomsWaitWhole
  <2> QED
    BY <2>2, <2>3, <2>4 DEF HeardInv
<1>2. IInv /\ IInv' /\ AllInv /\ [Next]_vars => AllInv'
  BY StepKeepsTimelines, StepKeepsLines, StepKeepsMirror, StepKeepsHeard
<1>3. IInv /\ AllInv => HeardExactly
  <2> SUFFICES ASSUME IInv, AllInv, NEW r \in Rooms, Settled(r)
               PROVE  LET members == DOMAIN rooms[r].members
                          nicks == {matrix_uid_to_nick[u] : u \in members}
                      IN  Heard(room_id_to_channel[r], nicks) = Said(r, synced[r], members)
    BY DEF HeardExactly
  <2>1. HeardOf(r) = SaidIn(r)
    BY DEF Settled, HeardInv, HeardWhenHandled
  <2> QED
    BY <2>1, HeardIsHeardIn, SaidIsSaidOf DEF HeardOf, SaidIn, Nicks
<1> HIDE DEF AllInv
<1> QED
  BY Invariance, <1>1, <1>2, <1>3, PTL DEF Spec
==============================================================================
