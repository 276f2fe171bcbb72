CONSTANTS
  p = p
  q = q
  Puts = {p, q}
  ChunkCount <- TwoEach
  Rows = 1
  MaxBatch = 2
  Permits = 2
SPECIFICATION FairSpec
PROPERTIES PutReturns
CHECK_DEADLOCK FALSE
