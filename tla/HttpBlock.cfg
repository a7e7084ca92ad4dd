CONSTANTS
  MaxRequests = 2
  MaxFailures = 0
  Parts = 2
  SendBuffer = 1
SPECIFICATION Spec
CHECK_DEADLOCK FALSE
PROPERTIES
  CancelledOnlyIfConnectionDies
