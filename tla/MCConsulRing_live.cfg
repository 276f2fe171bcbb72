CONSTANTS
  a = a
  Ingesters = {a}
  MaxToken = 3
  NumTokens = 1
  Retries = 2
  MaxStarts = 2
  MaxTicks = 1
  MaxRestarts = 1
SPECIFICATION FairSpec
INVARIANTS CleanExit
PROPERTIES UnregisterReturns
CHECK_DEADLOCK FALSE
