SPECIFICATION Spec
CONSTANTS
  Worker = {w1, w2}
  Fixtures <- ThreeFixtures
INVARIANTS
  NoCutRowReturned
  ChangeIsCaught
CHECK_DEADLOCK FALSE
PROPERTIES
  RunEnds
