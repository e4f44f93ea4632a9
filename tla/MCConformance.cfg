SPECIFICATION Spec
CONSTANTS
  Scenarios <- AllScenarios
  SecondFindings <- SecondReports
INVARIANTS
  PassIsExact
  ClosedWorld
  PassIsSilenced
  RightAnswerPasses
  NeverASilence
  PassingRowsAgree
\* The system stops once every product has its row.
CHECK_DEADLOCK FALSE
