SPECIFICATION SchemaSpec
CHECK_DEADLOCK FALSE
CONSTANTS
  None = None
  Bytewise <- Ordered
  Root = "root.json"
  FileSystems <- Systems
  Annotations <- AnnotationKeywords
  Unparsable <- BadPatterns
  RefTarget <- Targets
  Texts <- Documents
  Matches <- PatternsMatch
  Letters <- Characters
INVARIANTS
  CompiledWhole
  SilentOnInstances
  OutermostComesFirst
  KeysTellPlacesApart
PROPERTY
  CompileEnds
