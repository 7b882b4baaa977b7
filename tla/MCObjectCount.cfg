SPECIFICATION Spec
CONSTANTS
  Object = {o1, o2, o3, o4}
  Null = Null
  UINT16_MAX = 3
INVARIANTS
  SizeCountsObjects
