SPECIFICATION ServicesSpec
CONSTANTS
  None = None
  Hosts = {h1}
  VMs = {v1}
  MaxCommands = 2
  MaxDisturbances = 1
  ScheduleIds = {s1, s2}
  Machines = {m1}
  Runners = {p1}
  Requests = {q1}
  Settings <- Settings1
  DayLength = 6
  HourLength = 2
  WeekLength = 2
  Grace = 0
  MaxTime = 2
  MaxSaves = 3
  MaxStops = 1
  Rules = {r1}
  Targets = {t1}
  Conditions = {c1}
  Evaluators = {p1, p2}
  Duration = 1
  Gone = Gone
  MaxAlerts = 2
  MaxRuleChanges = 2
  MaxAlertFaults = 1
  Connections = {l1}
  Schedulers = {x1}
  Discoverers = {x2}
  RetryAttempts = 2
  MaxProviderChanges = 1
  MaxPeopleSteps = 2
  Sockets = {k1, k2, k3}
  ClosingMayBreak = TRUE
  MaxBrokerFaults = 3
  Resources = {r1, r2}
  TypedKeys = {"env", "Env", "owner", "aws:x"}
  Plain <- MCPlain
  Reserved = {"aws:x"}
  TagValues = {"a", "b"}
  Asked <- MCAsked
  PerResource = 1
  TagRequests = {q1, q2}
  MaxRemovals = 1
  People = {u1}
  Folded <- MCFolded
  Filters = {f1, None}
  PerPerson = 2
  ViewRequests = {q1, q2}
  MaxViews = 3
  MaxViewChanges = 1
INVARIANTS
  ServicesTypeOK
  CommandsHold
  PlansHold
  AlertsHold
  NoStrayConnection
PROPERTIES
  ClosedForGood
  RemovedStaysAtRest
  TagsAsIfAlone
  ViewsAsIfAlone
CHECK_DEADLOCK FALSE
