SPECIFICATION Spec
CONSTANTS
  Domains = {"k", "d"}
  Builtin = {"k"}
  AiBudgets <- MCAi
  KeepDays = 1
  BackupBudgets <- MCBackups
  ListenPorts = {1, 2}
  TrafficBudgets <- MCTraffic
INVARIANTS
  RouteFollowsMode
  ReportsComplete
  BackupsRestore
  RestoreIsWhole
  LinesCountedOnce
PROPERTIES
  ModeReachesNode
CHECK_DEADLOCK FALSE
