SPECIFICATION Spec
CONSTANTS
  MaxBinds = 3
INVARIANTS
  FailedIsNotBound
CHECK_DEADLOCK FALSE
