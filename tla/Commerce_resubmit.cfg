SPECIFICATION Spec
CONSTANTS
  Listens <- MCListens
  Sale <- MCSale
  Limit = 1
  Budgets <- MCOneSale
CHECK_DEADLOCK FALSE
PROPERTY RejectedMayResubmit
