CONSTANTS
  p = p
  q = q
  Puts = {p, q}
  ChunkCount <- TwoAndOne
  Rows = 2
  MaxBatch = 3
  Permits = 2
SPECIFICATION FairSpec
INVARIANTS TypeOK Inductive IndexedChunksStored NilMeansDurable PermitsBalance
PROPERTIES PutReturns
