CONSTANTS
  Asks = {a1, a2, a3}
  Conns = {c1, c2}
  None = None
SPECIFICATION FairSpec
CHECK_DEADLOCK FALSE
INVARIANTS SlotHasLiveAsker NeverFabricated SlotTakenOnce
PROPERTIES  AskResolves
