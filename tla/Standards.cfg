SPECIFICATION Spec
CONSTANTS
  a1 = a1
  a2 = a2
  p1 = p1
  p2 = p2
  p3 = p3
  PR = {p1, p2, p3}
  File = {a1, a2}
  Draft <- MCDraft
  Lines <- MCLines
  First <- MCFirst
  MaxEdits = 3
  None = None
  Torn = Torn
SYMMETRY Symmetry
CHECK_DEADLOCK FALSE
INVARIANTS TypeOK EnforcedAsWritten DevInSync
