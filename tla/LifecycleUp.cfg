SPECIFICATION Spec
CONSTANTS
  MaxBinds = 3
INVARIANTS
  TypeOK
  HandlerHasRegisters
  WorkFindsDriver
  ReleasesHeld
  NothingLeaked
  
CHECK_DEADLOCK FALSE
