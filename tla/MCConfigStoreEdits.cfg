CONSTANTS
  Requests = {r1, r2}
  Names = {n1}
  NoName = NoName

SPECIFICATION FairSpec
CHECK_DEADLOCK FALSE
PROPERTY EditsKept
