CONSTANTS
  NoValue = NoValue
  me = me  bob = bob  eve = eve  r1 = r1  r2 = r2  r3 = r3
  hash = hash  at = at  blank = blank  ann = ann  x = x  a = a  b = b  c = c
  meText = meText  bobText = bobText  eveText = eveText
  StrippedChunks <- MCStripped
  ShortChunks <- MCShort
  UserIdText <- MCUserIdText
  UserOrder <- MCUserOrder
  RoomOrder <- MCRoomOrder
  Users = {me, bob}
  Rooms = {r1, r2}
  Me = me
  OwnNick <- AnnNick
  Hash = hash
  Directory <- JoinDirectory
  InitialLogs <- JoinLogs
  InitiallyJoined <- JoinJoined
  Incoming <- JoinIncoming
  ClientChannels <- JoinChannels
  TimelineLimit = 10
  MaxCommands = 3
  MaxFailures = 1
SPECIFICATION FairSpec
CHECK_DEADLOCK FALSE
INVARIANTS
  JoiningHasNoChannel
  KnownRoomsAreOnIrc
  JoinedBeforeUse
PROPERTIES
  JoinsAreAnswered
