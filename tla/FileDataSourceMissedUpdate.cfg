SPECIFICATION Spec

CONSTANTS
  p1 = p1
  p2 = p2
  l1 = l1
  l2 = l2
  Paths <- MCPaths
  Loads = {l1, l2}
  FirstLoad = l1
  Checks = {1, 2}
  MaxWrites = 1
  States = {"good", "bad"}
  None = None

PROPERTIES
  ReloadsWheneverModified

CHECK_DEADLOCK FALSE
