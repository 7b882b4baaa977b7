SPECIFICATION Spec
CONSTANTS
  MaxAddress = 9
  Programs <- MCBytecodePrograms
  FieldOrder <- MCFields
  Inputs <- MCInputs
  Atoi <- MCAtoi
  INT_MAX = 15
PROPERTY
  PushesReference
