SPECIFICATION Spec
CONSTANTS
  a = a
  b = b
  c = c
  Unit = {a, b}
  Before <- Pair
  Fanout = 2
  MaxRuns = 2
  MaxLost = 0
  MaxCrash = 1
CHECK_DEADLOCK FALSE
INVARIANT PRCarriesEveryUnit
