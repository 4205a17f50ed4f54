SPECIFICATION FairSpec
CONSTANTS
  io = io  a = a  b = b  c = c
  Module = {io, a, b, c}
  Prelude <- MCPrelude
  UserModule = {io, a, b}
  StdModule = {io}
  MaxImports = 2
INVARIANTS TypeOK LoadedOnce NothingLost NamesDiffer RefsResolve
PROPERTY ImportsEnd
CHECK_DEADLOCK FALSE
