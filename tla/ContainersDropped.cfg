SPECIFICATION Spec
CONSTANTS
  Containers = {web, side}
  Langs = {"java", "python", "javascript", "dotnet"}
  SvcNames <- ShopName
  OwnVars = {"JAVA_OPTS"}
INVARIANTS
  ContainersKept
CHECK_DEADLOCK FALSE
