SPECIFICATION CorpusSpec
CONSTANTS
  None = None
  Forms = {"go", "ts"}
  Kinds <- KnownKinds
  Subjects <- KnownSubjects
  KindLanguages <- KnownKindLanguages
  Vocabulary <- KnownVocabulary
  Admitted = {"narrower_visibility", "excluded_by", "name_literal", "overlap"}
  Corpora <- SmallCorpora
  Rules <- KnownRules
  Names <- KnownNames
  Platforms <- KnownPlatforms
  ConfigKeys <- KnownConfigKeys
INVARIANTS
  NamesResolveAsUsed
  CheckedCorpusRuns
  ParityIsPinned
\* Check and Load end.
CHECK_DEADLOCK FALSE
