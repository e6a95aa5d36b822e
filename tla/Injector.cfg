SPECIFICATION Spec
CONSTANTS
  Files <- ElfFiles
  UNREADABLE = UNREADABLE
  WILD = WILD
  NULL = NULL
  Garbage = 9
  LenModulus = 4
INVARIANTS
  CompleteIsProgram
CHECK_DEADLOCK FALSE
