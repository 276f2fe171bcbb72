CONSTANTS
  Chunks = {1, 2}
  Hours <- MCHours
  Metric <- MCMetric
  From = 1
  Through = 1
  Queries <- NameOnly
  Extensions <- MCExtensions
  PageSize = 1
  Cached = FALSE
  MaxGets = 1
SPECIFICATION Spec
INVARIANTS GetComplete
CHECK_DEADLOCK FALSE
