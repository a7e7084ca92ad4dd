CONSTANTS
  MaxEvents = 4
  MaxFailures = 3
SPECIFICATION FairSpec
CHECK_DEADLOCK FALSE
PROPERTIES
  HandsOverInOrder
  KeepsUp
