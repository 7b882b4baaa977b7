SPECIFICATION TwinSpec
CONSTANTS
  MaxAddress = 14
  Programs <- MCPrograms
  FieldOrder <- MCFields
  Inputs <- MCTwinInputs
  Atoi <- MCAtoi
  INT_MAX = 15
INVARIANTS
  TypeOK
  IInv
  PointersLead
  DefinedBehaviour
  Indistinguishable
PROPERTIES
  CallersUntouched
