CONSTANTS
  Requests = {r1, r2}
  Names = {n1, n2}
  NoName = NoName
SPECIFICATION FairSpec
CHECK_DEADLOCK FALSE
INVARIANTS ConfigReadable SuccessPersisted RetentionKept
PROPERTIES WritesSerialised EditsLostToOldCopiesOnly RequestsReturn
