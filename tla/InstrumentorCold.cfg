SPECIFICATION ColdSpec
CONSTANTS
  Pods = {p1}
  Reports = {"both", "apps"}
  MaxFaults = 1
  MaxCrashes = 0
  MaxRv = 0
  Default = "default"
  Names = {"default"}
  NoName = ""
  LogTypes = {"nginx"}
  DeletePods = TRUE
  MaxEdits = 0
  MaxUpsets = 1
  Wishes <- Tagged
INVARIANTS
  InstrumentorTypeOK
PROPERTIES
  RivalLeftAlone
  ImplementsDetection
CHECK_DEADLOCK FALSE
