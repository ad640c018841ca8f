SPECIFICATION FairSpec
CONSTANTS
  a = a
  b = b
  c = c
  Unit = {a, b, c}
  Before <- Wide
  Fanout = 2
  MaxRuns = 3
  MaxLost = 1
  MaxCrash = 2
CHECK_DEADLOCK FALSE
INVARIANTS TypeOK BlockersPresent LedgerMeansHandedOff
PROPERTIES NoWorkLost ImplementsDelivery RunTerminates
