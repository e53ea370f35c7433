SPECIFICATION Spec

CONSTANTS
  p1 = p1
  p2 = p2
  l1 = l1
  l2 = l2
  Paths <- MCPaths
  Loads = {l1, l2}
  FirstLoad = l1
  Checks = {1, 2}
  MaxWrites = 2
  States = {"good", "bad", "missing"}
  None = None

INVARIANTS
  TypeOK
  CurrentWhenQuiet

PROPERTIES
  EventuallyCurrent
  StartAnswered

CHECK_DEADLOCK FALSE
