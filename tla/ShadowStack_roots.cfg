SPECIFICATION Spec
CONSTANTS
  Slot = {s1, s2, s3}
  MaxScopes = 4
  MaxRoots = 3
SYMMETRY Symmetry
INVARIANTS
  TypeOK
  LiveVarsRooted
  OuterRootsKept
  RootsMatchScopes
CHECK_DEADLOCK FALSE
