SPECIFICATION Spec
CONSTANTS
  Slot = {s1, s2, s3}
  MaxScopes = 4
  MaxRoots = 5
SYMMETRY Symmetry
INVARIANTS
  NoDeadSlot
CHECK_DEADLOCK FALSE
