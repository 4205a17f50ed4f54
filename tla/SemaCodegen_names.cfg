SPECIFICATION Spec
CONSTANTS
  Programs <- MCPrograms
INVARIANTS TypeOK NamesAgree CallsMeetTarget JumpsMeetTarget ScopesMatch 
CHECK_DEADLOCK FALSE
