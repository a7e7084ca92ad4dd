CONSTANTS
  Scripts <- MCScripts
  BufferSize = 3
  LineSize = 2
  SendBuffer = 3
  MaxWritten = 0
  FirstSyncLines = 2
  MaxSyncs = 2
SPECIFICATION FairLogin
CHECK_DEADLOCK FALSE
INVARIANTS
  LoginNeedsPassword
  RefusedAreTold
PROPERTIES
  NothingHandledBeforeSync
  LinesSurviveLogin
  SessionEndsWithClient
