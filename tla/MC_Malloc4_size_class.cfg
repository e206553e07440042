CONSTANTS
  ALIGN = 2
  HDR = 4
  TL = 2
  REDUNDANT_PAYLOAD = 4
  SBRK_PAYLOAD = 10
  SCALLOC_HUGE_PAGE_LIMIT = 14
  HUGE_PAGE_LIMIT = 26
  SIZE_LIMIT = 30
  SIZE_T_BITS = 7
  InitBreaks = {3}
  MapSlots = {100}
  COOKIE = 7
  MaxBrk = 48
  ArenaBound = 32
  Sizes = {1, 4, 8}
  ReallocSizes = {8}
  CallocArgs <- MC_CallocArgs
  MmapMayFail = FALSE
  ClientDoubleFrees = FALSE
  ClientWrites = FALSE
SPECIFICATION Spec
CONSTRAINT WithinBound
INVARIANT SizeClassExact
