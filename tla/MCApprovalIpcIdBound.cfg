CONSTANTS
  Asks = {a1, a2}
  Conns = {c1, c2}
  None = None
SPECIFICATION FairSpec
CHECK_DEADLOCK FALSE
INVARIANT RepliesIdBound
