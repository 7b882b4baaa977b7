SPECIFICATION Spec
CONSTANTS
  Sources <- MCSources
  MaxAddress = 30
  FieldOrder <- MCFields
  Inputs <- MCInputs
  Atoi <- MCAtoi
  INT_MAX = 15
  YYMAXDEPTH = 90
  Spelling <- MCSpelling
INVARIANTS
  ReadsBack
  Agrees
  TablesConsistent
  StackBalanced
  RoundTrip
