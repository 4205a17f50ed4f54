SPECIFICATION Spec
CONSTANTS
  c1 = c1  c2 = c2  c3 = c3  s1 = s1  s2 = s2  w1 = w1  w2 = w2
  arr = arr  cls = cls  own = own  Null = Null
  Cell = {c1, c2, c3}
  Slot = {s1, s2}
  TypeId = {arr, cls}
  Word = {w1}
  PtrFields <- MCPtrFields
  SizeOf <- MCSizeOf
  DtorAllocs = {}
  DtorTemp = cls
  AllocThreshold = 2
  HeapThreshold = 5
  CountBound = 2
  SizeMax = 15
INVARIANTS
  TypeOK ReachableIsAllocated MarkSweep CollectsInTime
PROPERTIES SweepExact ManagedSpec
CHECK_DEADLOCK FALSE
SYMMETRY Symmetry
