SPECIFICATION Spec
CONSTANTS
  dma = dma
  normal = normal
  device = device
  none = none
  low = low
  high = high
  only = only
  b1 = b1
  b2 = b2
  b3 = b3
  b4 = b4
  Blocks <- AllBlocks
  HEAD = HEAD
  Lists <- AllLists
  ScanOrder <- Loops
  Zones <- ThreeZones
  ZoneOf <- ListZones
  BlockZone <- BlockZones
  BootLists <- Booted
  Managed <- ThreeLists
  CPUs = {c1, c2}
  HANDLER = HANDLER
  NOBODY = NOBODY
  NULL = NULL
  NONE = NONE
  NrZones = 3
  BufferEntries = 3
  MayFail = TRUE
  MaxReports = 2
INVARIANTS
  ReportsFreePages
CHECK_DEADLOCK FALSE
