SPECIFICATION DiscoverySpec
CONSTANTS
  Connections = {l1}
  Schedulers = {x1}
  Discoverers = {x2}
  RetryAttempts = 2
  MaxProviderChanges = 1
  MaxPeopleSteps = 2
  None = None
INVARIANT DeletedObjectsAreGone
CHECK_DEADLOCK FALSE
