SPECIFICATION WarmFairSpec
CONSTANTS
  Pods = {p1}
  Reports = {"langs"}
  MaxFaults = 0
  MaxCrashes = 0
  MaxRv = 0
  Default = "default"
  Names = {"default"}
  NoName = ""
  LogTypes = {}
  DeletePods = TRUE
  MaxEdits = 2
  MaxUpsets = 0
  Wishes <- Asking
PROPERTIES
  StatusFollowsTemplate
CHECK_DEADLOCK FALSE
