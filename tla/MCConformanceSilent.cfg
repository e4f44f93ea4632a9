SPECIFICATION Spec
CONSTANTS
  Scenarios <- LoneScenarios
  SecondFindings <- SecondReports
INVARIANTS
  PositionFallsSilent
\* The system stops once every product has its row.
CHECK_DEADLOCK FALSE
