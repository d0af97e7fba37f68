SPECIFICATION ReconcilerSpec
CONSTANTS
  Tasks = {t1}
  Workers = {w1}
  Requests = {q1}
  Scans = {s1}
  None = None
  MaxAttempts = 2
  HeartbeatsMayFail = FALSE
  RepliesMayBeLost = FALSE
  MaxFaults = 0
  MaxManualRetries = 1
  MaxClaims = 3
  MaxUnsent = 1
  MaxCopies = 1
INVARIANT ReconcilesOnlyUnverified
