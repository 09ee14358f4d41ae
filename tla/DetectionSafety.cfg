SPECIFICATION Spec
CONSTANTS
  Pods = {p1, p2}
  Reports = {"failed", "garbled", "silent", "langs", "apps", "both", "neither"}
  MaxFaults = 1
  MaxCrashes = 1
  MaxRv = 6
  Names = {}
  NoName = NoName
  LogTypes = {}
  DeletePods = TRUE
SYMMETRY PodSymmetry
INVARIANTS
  TypeOK
  AtMostOnePod
  ResultsAreReported
PROPERTIES
  PhaseNeverGoesBack
  LifecycleSpec
CHECK_DEADLOCK FALSE
