\* Every request asks for the same size, so any free block fits any
\* request: first fit then hands out blocks that are big enough, and the
\* client's writes stay inside them.
CONSTANTS
  META = 2
  SIZE_LIMIT = 8
  SIZE_T_BITS = 5
  InitBreaks = {1}
  MaxBrk = 30
  ArenaBound = 26
  Sizes = {3}
  ReallocSizes = {2, 3}
  CallocArgs <- MC_CallocUniform
  ClientWrites = TRUE
SPECIFICATION Spec
CONSTRAINT WithinBound
INVARIANT TypeOK
INVARIANT ProcessAlive
INVARIANT ArenaTiled
INVARIANT CountersExact
INVARIANT OwnershipExact
PROPERTY ClientContract
