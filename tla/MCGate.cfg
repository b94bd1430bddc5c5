CONSTANTS
  r1 = r1
  r2 = r2
  k = k
  Calls = {r1, r2}
  Digests = {r1, r2}
  Keys = {k}
  KeyOf <- SameKey
  MaxRev = 1
  MaxRestarts = 1
SPECIFICATION Spec
CHECK_DEADLOCK FALSE
INVARIANTS ExecutedOnAuthority AuditTruthful
PROPERTIES  ContractKept
