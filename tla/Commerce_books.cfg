SPECIFICATION Spec
CONSTANTS
  Listens <- MCListens
  Sale <- MCSale
  Limit = 1
  Budgets <- MCBudgets
CHECK_DEADLOCK FALSE
INVARIANTS
  TypeOK
  PaidServiceKept
  ReviewsMatch
  OneOpenRenewal
  ProofKept
  NoStrayUsage
PROPERTIES
  RenewalRuns
  RenewsWhatRanOut
  FinalStays
