SPECIFICATION Spec
CONSTANTS
  INT_MAX = 15
  Vocabularies <- MCVocabularies
INVARIANTS
  TypeOK
  ParsesGrammar
PROPERTIES
  ErrorsStand
CHECK_DEADLOCK FALSE
