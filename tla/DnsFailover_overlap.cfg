CONSTANTS
  worker = worker
  a1 = a1
  a2 = a2
  Callers <- WorkerAndAdmin
  Admins <- OneAdmin
  FailureThreshold = 2
  RecoveryThreshold = 2
  CounterBound = 2
  PeakEnabled = FALSE
  InitialRecords = {"primary"}
  Faults = {}
  MaxFaults = 0
  MaxManual = 1
  MaxEnv = 1
SPECIFICATION FairSpec
PROPERTY FailsOver
