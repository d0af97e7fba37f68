SPECIFICATION Spec
CONSTANTS
  Tasks = {t1}
  Workers = {w1, w2}
  None = None
  MaxAttempts = 2
  HeartbeatsMayFail = FALSE
  RepliesMayBeLost = FALSE
  MaxFaults = 1
  MaxManualRetries = 0
  MaxClaims = 4
  MaxUnsent = 2
  MaxCopies = 2
SYMMETRY Symmetry
INVARIANT NeverRunTwice
