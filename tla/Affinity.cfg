SPECIFICATION Spec
CONSTANTS
  CPUs = {c1, c2}
  CpuSets = {3, 5}
  MAX_ENTRIES = 4
  MaxCalls = 5
INVARIANTS
  TypeOK
  SoloCallsLogged
  LastCellWritten
  CounterInMap
CHECK_DEADLOCK FALSE
