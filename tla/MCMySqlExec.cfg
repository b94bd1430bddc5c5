CONSTANTS
  c1 = c1
  t1 = t1
  t2 = t2
  Calls = {c1}
  Tables = {t1, t2}
  Statements <- AllStatements
  Orig = Orig
  Other = Other
  Absent = Absent
  None = None
  MaxWrites = 1
  MaxFaults = 1
  MaxCrashes = 1
SPECIFICATION FairSpec
CHECK_DEADLOCK FALSE
INVARIANTS  JournalTruthful AppliedLeavesTrace ReusedClean DroppedWasApproved
PROPERTIES WorkBounded
