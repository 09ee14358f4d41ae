SPECIFICATION WarmSpec
CONSTANTS
  Pods = {p1}
  Reports = {"langs"}
  MaxFaults = 1
  MaxCrashes = 1
  MaxRv = 0
  Default = "default"
  Names = {"default", "shop"}
  NoName = ""
  LogTypes = {}
  DeletePods = TRUE
  MaxEdits = 2
  MaxUpsets = 0
  Wishes <- Changing
INVARIANTS
  AgentPatchedOnce
PROPERTIES
  EditsKept
  RolledBackOnRequest
  TemplateSpec
CHECK_DEADLOCK FALSE
