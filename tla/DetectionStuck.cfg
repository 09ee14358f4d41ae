SPECIFICATION FairSpec
CONSTANTS
  Pods = {p1, p2}
  Reports = {"failed", "garbled", "silent", "langs", "apps", "both", "neither"}
  MaxFaults = 0
  MaxCrashes = 0
  MaxRv = 3
  Names = {}
  NoName = NoName
  LogTypes = {}
  DeletePods = TRUE
PROPERTIES
  DetectionStarted
CHECK_DEADLOCK FALSE
