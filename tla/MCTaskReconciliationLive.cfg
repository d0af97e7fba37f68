SPECIFICATION FairReconcilerSpec
CONSTANTS
  Tasks = {t1}
  Workers = {w1}
  Requests = {q1}
  Scans = {s1}
  None = None
  MaxAttempts = 2
  HeartbeatsMayFail = FALSE
  RepliesMayBeLost = TRUE
  MaxFaults = 1
  MaxManualRetries = 1
  MaxClaims = 6
  MaxUnsent = 3
  MaxCopies = 2
PROPERTIES
  EveryTaskSettles
  EveryTaskIsResolved
