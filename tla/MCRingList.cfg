CONSTANTS
  a = a
  b = b
  Ingesters = {a, b}
  MaxToken = 3
  NumTokens = 2
  MaxEntries = 4
SPECIFICATION Spec
SYMMETRY IngesterSymmetry
INVARIANTS GetIsNextToken OwnershipTotals
PROPERTIES SliceOperations MinimalMovement
CHECK_DEADLOCK FALSE
