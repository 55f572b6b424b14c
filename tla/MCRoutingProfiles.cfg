SPECIFICATION Spec
CONSTANTS
  Objs = {1, 2, 3, 4, 5}
  MaxId = 3
  MaxOpens = 2
  MaxOps = 3
  MaxRestarts = 1
  NoObj = NoObj
INVARIANTS RouteIsUsable AsAccepted
CHECK_DEADLOCK FALSE
