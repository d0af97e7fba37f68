SPECIFICATION LiveSpec
CONSTANTS
  None = None
  Destinations = {d1}
  Events = {e1, e2}
  Processes = {w1}
  Choices = {{e1, e2}}
  MaxAttempts = 2
  Kept = 2
  PerTick = 2
  Parallel = 2
  ClaimsMayLapse = FALSE
  MaxFaults = 1
  MaxChanges = 1
  ScheduleIds = {s1}
  Machines = {m1}
  Runners = {p1}
  Requests = {q1}
  Settings <- LiveSettings
  DayLength = 6
  HourLength = 2
  WeekLength = 2
  Grace = 0
  MaxTime = 3
  MaxSaves = 2
  MaxStops = 1
  Rules = {r1}
  Targets = {t1}
  Conditions = {c1}
  Evaluators = {p1}
  Duration = 1
  Gone = Gone
  MaxAlerts = 2
  MaxRuleChanges = 2
  MaxAlertFaults = 1
  Connections = {l1}
  Schedulers = {x1}
  Discoverers = {x2}
  RetryAttempts = 2
  MaxProviderChanges = 1
  MaxPeopleSteps = 1
  Sockets = {k1, k2, k3}
  ClosingMayBreak = FALSE
  MaxBrokerFaults = 3
  Agents = {a1}
  Versions = {1, 2, 3}
  FirstVersion = 1
  Sound = {1, 2, 3}
  Healthy = {1, 2}
  Nobody = Nobody
  Admins = {p1}
  MaxUnreported = 2
  HealthMayBeLate = FALSE
  MaxDeployments = 2
  MaxCancels = 0
  MaxUpgradeFaults = 1
PROPERTIES
  DeliveriesEnd
  TimersSeeToIt
  ConnectionsSettle
  BrokerRecovers
  HostsComeBack
  UpgradesEnd
CHECK_DEADLOCK FALSE
