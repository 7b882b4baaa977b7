SPECIFICATION Spec
CONSTANTS
  Sources <- MCUndefined
  MaxAddress = 30
  FieldOrder <- MCFields
  Inputs <- MCInputs
  Atoi <- MCAtoi
  INT_MAX = 15
  YYMAXDEPTH = 90
  Spelling <- MCSpelling
INVARIANTS
  Agrees
