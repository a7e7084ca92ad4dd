CONSTANTS
  NoValue = NoValue
  me = me  bob = bob  eve = eve  r1 = r1  r2 = r2  r3 = r3
  hash = hash  at = at  blank = blank  ann = ann  x = x  a = a  b = b  c = c
  meText = meText  bobText = bobText  eveText = eveText
  StrippedChunks <- MCStripped
  ShortChunks <- MCShort
  UserIdText <- MCUserIdText
  UserOrder <- MCUserOrder
  RoomOrder <- MCRoomOrder
  Users = {me, bob, eve}
  Rooms = {r1, r2}
  Me = me
  OwnNick <- AnnNick
  Hash = hash
  Directory <- TalkDirectory
  InitialLogs <- TalkLogs
  InitiallyJoined <- TalkJoined
  Incoming <- TalkIncoming
  ClientChannels <- TalkChannels
  TimelineLimit = 2
  MaxCommands = 1
  MaxFailures = 1
SPECIFICATION Spec
CHECK_DEADLOCK FALSE
INVARIANTS
  HeardExactly
  ChannelMirrorsRoom
