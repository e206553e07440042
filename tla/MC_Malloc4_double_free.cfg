CONSTANTS
  ALIGN = 2
  HDR = 4
  TL = 2
  REDUNDANT_PAYLOAD = 4
  SBRK_PAYLOAD = 40
  SCALLOC_HUGE_PAGE_LIMIT = 44
  HUGE_PAGE_LIMIT = 56
  SIZE_LIMIT = 60
  SIZE_T_BITS = 7
  InitBreaks = {3}
  MapSlots = {100}
  COOKIE = 7
  MaxBrk = 40
  ArenaBound = 24
  Sizes = {1}
  ReallocSizes = {1}
  CallocArgs <- MC_CallocArgs
  MmapMayFail = FALSE
  ClientDoubleFrees = TRUE
  ClientWrites = TRUE
SPECIFICATION SpecDoubleFree
CONSTRAINT WithinBound
PROPERTY DoubleFreeNoop
