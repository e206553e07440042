CONSTANTS
  ALIGN = 2
  HDR = 4
  TL = 2
  REDUNDANT_PAYLOAD = 4
  SBRK_PAYLOAD = 40
  SCALLOC_HUGE_PAGE_LIMIT = 44
  HUGE_PAGE_LIMIT = 56
  SIZE_LIMIT = 60
  SIZE_T_BITS = 7
  InitBreaks = {3}
  MapSlots = {100}
  COOKIE = 7
  MaxBrk = 46
  ArenaBound = 30
  Sizes = {1, 8, 44}
  ReallocSizes = {1, 8}
  CallocArgs <- MC_CallocArgs
  MmapMayFail = TRUE
  ClientDoubleFrees = FALSE
  ClientWrites = TRUE
SPECIFICATION Spec
CONSTRAINT WithinBound
INVARIANT TypeOK
INVARIANT ProcessAlive
INVARIANT ArenaTiled
INVARIANT FreeListExact
INVARIANT CountersExact
INVARIANT OwnershipExact
PROPERTY ClientContract
