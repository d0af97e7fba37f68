SPECIFICATION FairUpgradeSpec
CONSTANTS
  Agents = {a1}
  Versions = {1, 2, 3, 4}
  FirstVersion = 1
  Sound = {1, 2, 3}
  Healthy = {1, 2, 4}
  Nobody = Nobody
  Admins = {p1}
  MaxUnreported = 2
  HealthMayBeLate = FALSE
  MaxDeployments = 2
  MaxCancels = 0
  MaxUpgradeFaults = 1
PROPERTY RefusalNeverHoldsBack
CHECK_DEADLOCK FALSE
