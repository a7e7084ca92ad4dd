CONSTANTS
  MaxRequests = 3
  MaxFailures = 2
  Parts = 2
  SendBuffer = 3
SPECIFICATION SendSpec
CHECK_DEADLOCK FALSE
INVARIANTS
  AtMostOnce
  SleepsOnlyWhenIdle
  AcknowledgedIsSaid
  SaidInOrder
PROPERTIES
  IsRequestService
  SettledInTheEnd
