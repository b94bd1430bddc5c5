CONSTANTS
  c1 = c1
  c2 = c2
  c3 = c3
  Calls = {c1, c2, c3}
  Ops <- TwoStatements
  Databases = {"d1"}
  MaxPending = 1
  MaxTombstones = 1
  MaxTokens = 2
  MaxRev = 1
  MaxRestarts = 1
SYMMETRY Symmetry
SPECIFICATION Spec
CHECK_DEADLOCK FALSE
INVARIANTS SingleUse  ExpiredNeverRuns NothingLost
PROPERTIES ReplayReported
