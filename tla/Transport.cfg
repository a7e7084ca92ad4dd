CONSTANTS
  Scripts <- MCScripts
  BufferSize = 3
  LineSize = 2
  SendBuffer = 3
  MaxWritten = 2
SPECIFICATION FairSpec
CHECK_DEADLOCK FALSE
INVARIANTS
  OutputIntact
  LengthLimit
  SleepsOnlyWhenIdle
PROPERTIES
  TakesLinesInOrder
  LinesGetThrough
