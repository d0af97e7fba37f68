SPECIFICATION Spec
CONSTANTS
  Tasks = {t1}
  Workers = {w1, w2}
  None = None
  MaxAttempts = 2
  HeartbeatsMayFail = TRUE
  RepliesMayBeLost = TRUE
  MaxFaults = 1
  MaxManualRetries = 1
  MaxClaims = 4
  MaxUnsent = 2
  MaxCopies = 2
SYMMETRY Symmetry
INVARIANTS
  ClaimableIsAnnounced
  RowsAgree
  AttemptHasOneWorker
