CONSTANTS
  ALIGN = 2
  HDR = 4
  TL = 2
  REDUNDANT_PAYLOAD = 4
  SBRK_PAYLOAD = 40
  SCALLOC_HUGE_PAGE_LIMIT = 44
  HUGE_PAGE_LIMIT = 56
  SIZE_LIMIT = 60
  SIZE_T_BITS = 7
  InitBreaks = {3}
  MapSlots = {100}
  COOKIE = 7
  MaxBrk = 24
  ArenaBound = 24
  Sizes = {1}
  ReallocSizes = {8}
  CallocArgs <- MC_CallocArgs
  MmapMayFail = FALSE
  ClientDoubleFrees = FALSE
  ClientWrites = FALSE
SPECIFICATION Spec
CONSTRAINT WithinBound
INVARIANT OwnershipExact
