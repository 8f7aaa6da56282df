CONSTANTS
  worker = worker
  a1 = a1
  a2 = a2
  Callers <- WorkerAndAdmin
  Admins <- OneAdmin
  FailureThreshold = 2
  RecoveryThreshold = 1
  CounterBound = 2
  PeakEnabled = TRUE
  InitialRecords = {"primary", "backup", "foreign"}
  Faults = {"resolve", "get", "put", "lost", "dbfail", "crash", "edit"}
  MaxFaults = 1
  MaxManual = 1
  MaxEnv = 1
SPECIFICATION Spec
INVARIANTS TypeOK ViewAgrees StoresTruth
