SPECIFICATION Spec
CONSTANT CaseLists <- Lists
INVARIANTS
  PassIsEveryRun
  InterruptedAtItsMarker
PROPERTIES
  CasesEnd
\* The system stops once RunCases returned.
CHECK_DEADLOCK FALSE
