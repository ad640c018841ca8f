SPECIFICATION Spec
CONSTANTS
  Session = {s1, s2}
  Name <- Names
  Norm <- Lower
  Canonical = {"problem", "blocked"}
  Recased = {"problem"}
  Deletable = {"Bug"}
  Priority = {"priority:high"}
  Category = {"backlog", "started"}
  StateType = {"triage", "backlog", "started"}
  Template = {"Problem", "Spec"}
  Applied <- Labelled
  NoName = "none"
  Workspace <- Workspaces
  Page = 5
  MaxRuns = 3
  MaxFaults = 1
CHECK_DEADLOCK FALSE
INVARIANTS TypeOK Converges TemplateLabelsLive
PROPERTIES CreatedOnce
