SPECIFICATION Spec
CONSTANTS
  slash = slash
  under = under
  b = b
  u1 = u1
  u2 = u2
  p1 = p1
  p2 = p2
  None = None
  Proc = {p1, p2}
  Unit = {u1, u2}
  Session <- MCSession
  FileName <- MCFileName
  Calls <- RunCalls
  MaxWriters = 1
  MaxClock = 2
  MaxCalls = 4
  MaxFaults = 1
SYMMETRY Symmetry
CHECK_DEADLOCK FALSE
INVARIANTS TypeOK EdgesSurvive ReworkAccumulates LatencyExact
           RunStatusTells RatesAreSound LatenciesTell
PROPERTY ImplementsMemory
