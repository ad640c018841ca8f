SPECIFICATION Spec
CONSTANTS
  r1 = r1
  r2 = r2
  r3 = r3
  r4 = r4
  r5 = r5
  pa = pa
  pb = pb
  Raised = Raised
  Record = {r1, r2, r3, r4, r5}
  Problem = {pa, pb}
  ProblemOf <- MCProblemOf
  Wide = {r1, r5}
  Separated = {r5}
  MaxFaults = 2
CHECK_DEADLOCK FALSE
INVARIANTS TypeOK ReadsWhatWasRecorded DamageBounded
