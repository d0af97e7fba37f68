SPECIFICATION Spec
CONSTANTS
  Destinations = {d1}
  Events = {e1, e2}
  Processes = {p1}
  Choices = {{e1, e2}}
  MaxAttempts = 1
  Kept = 1
  PerTick = 2
  Parallel = 1
  ClaimsMayLapse = FALSE
  MaxFaults = 0
  MaxChanges = 1
INVARIANTS
  QueuedOnce
