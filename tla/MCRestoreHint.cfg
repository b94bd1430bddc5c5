CONSTANTS
  Tables = {"t1", "t2"}
  MaxKey = 4
  PlainValues = {"a", "b"}
  Statements <- MCStatements
  Connections <- MCConnections
  Unset = Unset
  QueryGraph <- MCQueryGraph
  FromGraph <- MCFromGraph
  ExprsGraph <- MCExprsGraph
  TouchedBy <- MCTouchedBy
  MaxCalls = 1
  MaxBackups = 2
  MaxEvents = 1
  MaxRestores = 1
SPECIFICATION Spec
INVARIANTS HintExact
CHECK_DEADLOCK FALSE
