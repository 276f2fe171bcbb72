CONSTANTS
  Chunks = {1, 2}
  Hours <- MCHours
  Metric <- MCMetric
  From = 1
  Through = 1
  Queries <- NameOnly
  Extensions <- MCExtensions
  PageSize = 8
  Cached = TRUE
  MaxGets = 2
SPECIFICATION Spec
INVARIANTS OwnData
CHECK_DEADLOCK FALSE
