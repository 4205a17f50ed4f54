SPECIFICATION FairSpec
CONSTANTS
  Elem = {e1, e2}
  Null = Null
  Request = {0, 1, 2}
  MaxIndex = 5
  Index <- MCIndex
  SizeModulus = 9
  MaxCapacity = 4
INVARIANT TypeOK
PROPERTIES ListSpec CallsEnd
CHECK_DEADLOCK FALSE
