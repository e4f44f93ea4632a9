SPECIFICATION Spec
CONSTANTS
  Worlds <- LedgerWorlds
  MaxWritten <- Written2Or3
INVARIANTS
  AgreesWithTheWorld
  StaleAsWritten
  TotalsAsWritten
  RecordedRowsReadBack
CHECK_DEADLOCK FALSE
