SPECIFICATION Spec
CONSTANTS
  Vars = {x, y}
  x = x
  y = y
  Param = x
  Results = {y}
  MaxIds = 5
  MaxLive = 4
  MaxNodes = 2
  MaxDepth = 2
INVARIANT CallerOwnedValuesStayAlive
CHECK_DEADLOCK FALSE
