SPECIFICATION Spec
CONSTANTS
  o1 = o1
  o2 = o2
  o3 = o3
  program = program
  Object <- MCThree
  Static <- MCOneStatic
  StaticSucc <- MCOneStaticSucc
  BaseSize = 1
  MaxTracked = 0
  HeapSize = 1
  MachineSize = 1
  PointerSize = 1
  MemoryLimits <- MCAlwaysFull
SYMMETRY MCSymmetry
INVARIANTS
  NoDangling
  SweepExact
  NoReentry
  IInv
