CONSTANTS
  Chunks = {1, 2}
  Hours <- MCHours
  Metric <- MCMetric
  From = 1
  Through = 2
  Queries <- MCQueries
  Extensions <- MCExtensions
  PageSize = 8
  Cached = TRUE
  MaxGets = 1
SPECIFICATION Spec
INVARIANTS GetComplete GetSound
CHECK_DEADLOCK FALSE
