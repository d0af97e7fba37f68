SPECIFICATION BothSpec
CONSTANTS
  Tasks = {t1}
  Workers = {w1, w2}
  Requests = {q1}
  Scans = {s1, s2}
  None = None
  MaxAttempts = 2
  HeartbeatsMayFail = FALSE
  RepliesMayBeLost = FALSE
  MaxFaults = 1
  MaxManualRetries = 0
  MaxClaims = 3
  MaxUnsent = 2
  MaxCopies = 2
  Agents = {a1}
  Versions = {1, 2, 3, 4}
  FirstVersion = 1
  Sound = {1, 2, 3}
  Healthy = {1, 2, 4}
  Nobody = Nobody
  Admins = {p1, p2}
  MaxUnreported = 2
  HealthMayBeLate = TRUE
  MaxDeployments = 2
  MaxCancels = 1
  MaxUpgradeFaults = 1
SYMMETRY Symmetry
INVARIANTS
  ReconcilesOnlyUnverified
  WorkerOwnsTask
  RunsTwiceOnlyByFault
  UpgradeTypeOK
  WatchdogCanRestore
  AutoTriesABuildOnce
PROPERTIES
  ImplementsLifecycle
  ResultsHold
CHECK_DEADLOCK FALSE
