SPECIFICATION Spec
CONSTANTS
  HelperOffset <- Offsets
  Injections <- Mixed
  Events <- AllEvents
  IrqStatus <- FiveBits
  Raise <- BitsRaise
  Lower <- BitsLower
  BufWords = 4
  Progs = {p1, p2}
  NULL = NULL
  FREE = FREE
  NONE = NONE
  HighAddr = 1
  LowAddr = 4096
  Counts = {7}
  MayFail = FALSE
  Pacing = "turns"
  MaxRaises = 3
INVARIANTS
  InstalledIsLive
