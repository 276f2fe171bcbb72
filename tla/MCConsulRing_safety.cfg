CONSTANTS
  a = a
  b = b
  Ingesters = {a, b}
  MaxToken = 2
  NumTokens = 1
  Retries = 2
  MaxStarts = 1
  MaxTicks = 1
  MaxRestarts = 0
SPECIFICATION Spec
SYMMETRY IngesterSymmetry
INVARIANTS TypeOK Inductive TokensExclusive MembersKeepTokens OrphansOnlyFromFaults
PROPERTIES CASIsAtomic
CHECK_DEADLOCK FALSE
