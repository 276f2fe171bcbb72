CONSTANTS
  MaxWrites = 3
  MaxRestarts = 1
  InitialBackoff = 1
  MaxBackoff = 4
SPECIFICATION FairSpec
INVARIANTS TypeOK SkippedIsSame IndexIdentifies
PROPERTIES ForwardOnly Converges StopReturns
CHECK_DEADLOCK FALSE
