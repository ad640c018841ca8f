SPECIFICATION Spec
CONSTANTS
  a = a
  b = b
  None = None
  Session = {s1, s2}
  Unit = {a, b}
  BlockedBy <- MCBlockedBy
  Criteria <- MCCriteria
  Workspaces <- MCWorkspaces
  OtherClosed = 3
  OtherQueued = 2
  MaxEdits = 1
CHECK_DEADLOCK FALSE
INVARIANTS TypeOK LabelsTell UnrelatedKept ForecastTells OnlyTheBlock
PROPERTY LabelsSettle
