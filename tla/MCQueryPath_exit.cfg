CONSTANTS
  u1 = u1
  u2 = u2
  s1 = s1
  s2 = s2
  Users = {u1, u2}
  Series = {s1, s2}
  Loads <- TheLoads
  ChunkLen = 1
  MaxStates = 2
  MaxAppending = 1
  MaxFlushes = 1
  maxConcurrentFlushSeries = 2
  StalenessDelta = 2
  MaxPoints = 2
  minimumTick = 2
  maxConcurrentPuts = 2
  MaxRequests = 0
SPECIFICATION QSpec
INVARIANTS GracefulExit
CHECK_DEADLOCK FALSE
