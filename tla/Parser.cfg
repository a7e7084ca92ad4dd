CONSTANT
  Scripts <- MCScripts
SPECIFICATION Spec
CHECK_DEADLOCK FALSE
INVARIANTS
  BodiesOfKnownLength
  NothingHeldBack
  ErrorsAreJustified
PROPERTIES
  ReturnsInOrder
