SPECIFICATION SteadyFairSpec
CONSTANTS
  Pods = {p1, p2}
  Reports = {"failed", "langs", "apps"}
  MaxFaults = 1
  MaxCrashes = 0
  MaxRv = 6
  Names = {}
  NoName = NoName
  LogTypes = {}
  DeletePods = TRUE
PROPERTIES
  ResultStored
  PodsCleanedUp
CHECK_DEADLOCK FALSE
