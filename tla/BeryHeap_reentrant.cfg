SPECIFICATION Spec
CONSTANTS
  c1 = c1  c2 = c2  c3 = c3  s1 = s1  s2 = s2  w1 = w1  w2 = w2
  arr = arr  cls = cls  own = own  Null = Null
  Cell = {c1, c2, c3}
  Slot = {s1}
  TypeId = {arr, own}
  Word = {w1}
  PtrFields <- MCPtrFields
  SizeOf <- MCSizeOf
  DtorAllocs = {own}
  DtorTemp = arr
  AllocThreshold = 2
  HeapThreshold = 5
  CountBound = 3
  SizeMax = 15
SYMMETRY Symmetry
INVARIANT ReachableIsAllocated
CHECK_DEADLOCK FALSE
