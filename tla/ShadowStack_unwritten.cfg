SPECIFICATION Spec
CONSTANTS
  Slot = {s1, s2}
  MaxScopes = 3
  MaxRoots = 5
SYMMETRY Symmetry
INVARIANTS
  NoUnwrittenSlot
CHECK_DEADLOCK FALSE
