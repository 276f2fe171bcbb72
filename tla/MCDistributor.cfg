CONSTANTS
  g = g
  h = h
  k = k
  l = l
  a = a
  Hosts = {g, h}
  Keys = {k, l}
  Appends = {a}
  Batch <- OneAppend
  Readers = {"query", "labels"}
  Rings <- MCRings
  MaxUpdates = 1
SPECIFICATION FairSpec
INVARIANTS TypeOK NilMeansDelivered AllOrNoneRouted OneClientPerHost ReadYourWrites LabelsComplete
PROPERTIES AppendReturns
CHECK_DEADLOCK FALSE
