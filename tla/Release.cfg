SPECIFICATION Spec
CONSTANTS
  scoped = scoped
  closing = closing
  external = external
  s1 = s1
  s2 = s2
  None = None
  Session = {s1, s2}
  Commit = {scoped, closing, external}
  Refs <- MCRefs
  Work <- MCWork
  Issue = {1, 2}
  MaxVersion = 2
  MaxRuns = 3
  MaxFaults = 1
SYMMETRY Symmetry
CHECK_DEADLOCK FALSE
INVARIANTS TypeOK ScanTells ShippedExactly TagNamesTree
