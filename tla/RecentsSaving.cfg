SPECIFICATION Spec
CONSTANTS
  MaxSaves = 2
  kMaxQueue = 4
INVARIANT SomeListLeft
CHECK_DEADLOCK FALSE
