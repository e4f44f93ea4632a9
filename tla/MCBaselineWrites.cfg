SPECIFICATION WritesSpec
CONSTANTS
  r1 = r1
  r2 = r2
  Row = {r1, r2}
  MaxAnswer = 2
  None = None
  Bytewise <- SchemeNames
  Member = "baseline"
  Folding <- OtherCase
  Codes <- CodeTexts
  Paths <- PathTexts
  SchemeOf <- References
  Documents <- AllDocuments
  Writers <- AllWriters
  OtherWriters <- AllOthers
CHECK_DEADLOCK FALSE
INVARIANTS
  WriterDoesNotMatter
  ReadsAsWritten
PROPERTIES
  ImplementsLifecycle
  WriteEnds
