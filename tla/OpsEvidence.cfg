SPECIFICATION Spec
CONSTANTS
  Streams = {"access", "container"}
  Collectors = {"service", "once"}
  Limit = 3
  RawSpan = 2
  BackfillSpans = {2, 3}
  CollectBudgets <- MCLogs
  Reporters = {"serve", "cli"}
  LastDate = 3
  RetentionDays = 1
  MaxAttempts = 2
  ReportBudgets <- MCReports
  MaxTick = 10
  Correlation = 1
  Padding = 1
  Samplers = {"serve", "run"}
  EvidenceBudgets <- MCEvidence
INVARIANTS
  NoSilentLoss
  CountedOnce
  ReadersSeePairs
  SuccessOnDisk
  LiveRunStands
  DowntimeIsMeasured
  NormalMeansWatched
  AttributionSound
PROPERTIES
  PublishesAtomically
  DueReportAppears
  DueArchiveSettles
CHECK_DEADLOCK FALSE
