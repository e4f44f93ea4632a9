SPECIFICATION DocumentsSpec
CONSTANTS
  None = None
  Inputs <- AnalysisInputs
  Documents <- CanonicalDocuments
  Files <- TargetFiles
  Declarations <- ComponentLines
  Kinds <- IssueKinds
  Most = {0, 1, 2}
  MaxCaps = 2
  MaxRelated = 3
  Window = 3
  HashModulus = 65536
  FactsDocuments <- ManyFacts
  GeneratorRows <- Rows
INVARIANTS
  TotalsDescribeTheRun
  ListingIsExact
  ArrivalDoesNotMatter
  KeepsTheLargest
  EachRecordPlacedOnce
  FactsCanonical
\* A report ends written, rendered or refused.
CHECK_DEADLOCK FALSE
