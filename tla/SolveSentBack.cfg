SPECIFICATION Spec
CONSTANTS
  a = a
  b = b
  c = c
  Unit = {a, b}
  Before <- Chain
  Fanout = 1
  MaxRuns = 2
  MaxLost = 0
  MaxCrash = 0
CHECK_DEADLOCK FALSE
INVARIANT SendBackAddsCommits
