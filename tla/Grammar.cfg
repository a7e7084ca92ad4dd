CONSTANT
  Alphabets <- MCAlphabets
SPECIFICATION Spec
CHECK_DEADLOCK FALSE
INVARIANTS
  ParsesAsSplit
  TextsArriveWhole
