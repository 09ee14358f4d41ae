SPECIFICATION DetectorFairSpec
CONSTANTS
  Pids = {1, 2, 3}
  Containers <- SomeContainers
  Proxies <- SomeProxies
  Targets <- SomeTargets
  Programs <- SomePrograms
  Tables <- SomeTables
  Services = {"", "a", "b"}
  Batch = 1
  MaxEntries = 3
  MaxChurn = 2
INVARIANTS
  DetectorTypeOK
  LanguagesAreTheirs
  NothingMissed
  QuietScanIsExact
PROPERTIES
  FailsForCause
  Terminates
CHECK_DEADLOCK FALSE
