SPECIFICATION Spec
CONSTANTS
  Worlds <- FormWorlds
  MaxWritten <- WrittenOne
INVARIANTS
  OtherSchemeFormsChecked
CHECK_DEADLOCK FALSE
