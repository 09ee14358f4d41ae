SPECIFICATION Spec
CONSTANTS
  Containers = {web, side}
  Langs = {"java", "python", "javascript", "dotnet"}
  SvcNames <- ShopName
  OwnVars = {"JAVA_OPTS", "OTEL_SERVICE_NAME"}
SYMMETRY Interchangeable
INVARIANTS
  NothingLeftBehind
  AgentComplete
  NameRecorded
  UserEnvKept
CHECK_DEADLOCK FALSE
