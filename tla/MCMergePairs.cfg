SPECIFICATION UnionSpec
CONSTANTS
  Worlds <- AllWorlds
  Fallen <- FallenWith
  About <- AboutEach
INVARIANT
  PairsFallTogether
\* The system stops once every minimum is resolved.
CHECK_DEADLOCK FALSE
