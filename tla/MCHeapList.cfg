SPECIFICATION FairSpec
CONSTANTS
  Object = {o1, o2, o3, o4}
  Null = Null
  UINT16_MAX = 3
INVARIANTS
  TypeOK
  ListHoldsHeap
  IteratorStandsOnList
  IInv
PROPERTIES
  Registers
  SweepEnds
