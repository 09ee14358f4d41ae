SPECIFICATION EitherFairSpec
CONSTANTS
  Pods = {p1}
  Reports = {"langs"}
  MaxFaults = 1
  MaxCrashes = 0
  MaxRv = 0
  Default = "default"
  Names = {"default"}
  NoName = ""
  LogTypes = {}
  DeletePods = TRUE
  MaxEdits = 1
  MaxUpsets = 0
  Wishes <- Withdrawing
PROPERTIES
  Instrumented
  RolledBack
  LeftAloneUnasked
  ComesToRest
CHECK_DEADLOCK FALSE
