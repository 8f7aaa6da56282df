CONSTANTS
  worker = worker
  a1 = a1
  a2 = a2
  Callers <- WorkerOnly
  Admins <- NoAdmins
  FailureThreshold = 3
  RecoveryThreshold = 2
  CounterBound = 3
  PeakEnabled = TRUE
  InitialRecords = {"primary"}
  Faults = {}
  MaxFaults = 0
  MaxManual = 0
  MaxEnv = 2
SPECIFICATION Spec
PROPERTY NeverToDeadPrimary
