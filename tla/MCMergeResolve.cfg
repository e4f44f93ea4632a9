SPECIFICATION UnionSpec
CONSTANTS
  Worlds <- AllWorlds
  Fallen <- FallenWith
  About <- AboutEach
INVARIANTS
  OutcomeIsLeast
  NothingReportedIsHeld
  PromotedExactly
  CountsShowTheWithheld
  JoinedAsOne
PROPERTIES
  ImplementsClosure
\* The system stops once every minimum is resolved.
CHECK_DEADLOCK FALSE
