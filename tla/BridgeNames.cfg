CONSTANTS
  NoValue = NoValue
  me = me  bob = bob  eve = eve  r1 = r1  r2 = r2  r3 = r3
  hash = hash  at = at  blank = blank  ann = ann  x = x  a = a  b = b  c = c
  meText = meText  bobText = bobText  eveText = eveText
  StrippedChunks <- MCStripped
  ShortChunks <- MCShort
  UserIdText <- MCUserIdText
  UserOrder <- MCUserOrder
  RoomOrder <- MCRoomOrder
  Users = {me, bob, eve}
  Rooms = {r1, r2, r3}
  Me = me
  OwnNick <- AnnNick
  Hash = hash
  Directory <- NoDirectory
  InitialLogs <- NameLogs
  InitiallyJoined <- NameJoined
  Incoming <- NoIncoming
  ClientChannels <- JoinChannels
  TimelineLimit = 10
  MaxCommands = 0
  MaxFailures = 0
SPECIFICATION Spec
CHECK_DEADLOCK FALSE
INVARIANTS
  TypeOK
  NoPanic
  TablesInverse
  TablesAgreeWithServer
  MembershipBothWays
PROPERTIES
  NicksAreRegistered
  ChannelsAreRegistered
