\* smalloc hands out the free block at the end of the arena whatever its
\* size: two requests of different sizes suffice.
CONSTANTS
  META = 2
  SIZE_LIMIT = 8
  SIZE_T_BITS = 5
  InitBreaks = {1}
  MaxBrk = 14
  ArenaBound = 12
  Sizes = {1, 2}
  ReallocSizes = {1}
  CallocArgs <- MC_CallocArgs
  ClientWrites = FALSE
SPECIFICATION Spec
CONSTRAINT WithinBound
INVARIANT OwnershipExact
