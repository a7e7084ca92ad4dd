CONSTANTS
  Clients = {c1, c2, c3}
  Tls = TRUE
  MaxDescriptors = 6
  MaxMessages = 1
  MaxFailures = 1
SPECIFICATION Spec
CHECK_DEADLOCK FALSE
INVARIANTS
  FullOnlyByLogins
PROPERTIES
  EveryoneIsAccepted
  LastWordsAreSettled
