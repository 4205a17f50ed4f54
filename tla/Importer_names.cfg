SPECIFICATION Spec
CONSTANTS
  io = io  a = a  b = b  c = c
  Module = {io, a, b}
  Prelude <- MCPrelude
  UserModule = {a, b}
  StdModule = {io}
  MaxImports = 2
INVARIANTS NamedAfterModule
CHECK_DEADLOCK FALSE
