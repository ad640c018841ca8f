SPECIFICATION Spec
CONSTANTS
  slash = slash
  under = under
  b = b
  u1 = u1
  u2 = u2
  p1 = p1
  p2 = p2
  None = None
  Proc = {p1, p2}
  Unit = {u1, u2}
  Session <- MCSession
  FileName <- MCFileName
  Calls <- GroupCalls
  MaxWriters = 2
  MaxClock = 0
  MaxCalls = 2
  MaxFaults = 0
SYMMETRY Symmetry
CHECK_DEADLOCK FALSE
INVARIANT EdgesSurvive
