CONSTANTS
  worker = worker
  a1 = a1
  a2 = a2
  Callers <- WorkerOnly
  Admins <- NoAdmins
  FailureThreshold = 3
  RecoveryThreshold = 2
  CounterBound = 4
  PeakEnabled = FALSE
  InitialRecords = {"primary"}
  Faults = {"resolve", "get", "put", "lost", "dbfail", "crash"}
  MaxFaults = 2
  MaxManual = 0
  MaxEnv = 3
SPECIFICATION FairSpec
PROPERTIES AutoSwitchesSpaced FailsOver Recovers
