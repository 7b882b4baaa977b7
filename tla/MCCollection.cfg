SPECIFICATION FairSpec
CONSTANTS
  o1 = o1
  o2 = o2
  o3 = o3
  program = program
  Object <- MCTwo
  Static <- MCOneStatic
  StaticSucc <- MCOneStaticSucc
  BaseSize = 1
  MaxTracked = 1
  HeapSize = 1
  MachineSize = 1
  PointerSize = 1
  MemoryLimits <- MCLimits
INVARIANTS
  TypeOK
  MarksCleared
  MemoryBalanced
PROPERTIES
  Collector
  CollectionEnds
  GarbageFreed
