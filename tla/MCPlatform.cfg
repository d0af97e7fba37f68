SPECIFICATION PlatformSpec
CONSTANTS
  None = None
  Destinations = {d1}
  Events = {e1, e2}
  Processes = {p1, p2}
  Choices = {{e1, e2}}
  MaxAttempts = 2
  Kept = 1
  PerTick = 2
  Parallel = 1
  ClaimsMayLapse = FALSE
  MaxFaults = 1
  MaxChanges = 1
  Sessions = {n1, n2}
  BackupCodes = 1
  SessionFailures = 1
  UserFailures = 2
  WindowLength = 1
  LockLength = 1
  MaxSecrets = 2
  MaxBatches = 2
  MaxSteps = 3
  Users = {u1, u2}
  Bootstrap = u1
  Updates = {a1, a2}
  MaxVersions = 3
  Pulls = {b1, b2}
  Hourly = 1
  Daily = 1
  Weekly = 1
  SetsPerDay = 2
  SetsPerWeek = 4
  HostKeeps = 2
  MaxSets = 3
  MaxPullFaults = 1
  Archivers = {b1, b2}
  MaxReleases = 2
  MaxArchiveFaults = 2
  Described <- MCDescribed
  Messages <- MCMessages
  Leaves <- MCLeaves
  Declared <- MCDeclared
  Reviews <- MCReviews
  Scans <- MCScans
  MaxExceptionDays = 2
  MaxScanDays = 2
  Texts <- MCTexts
SYMMETRY Symmetry
INVARIANTS
  PlatformTypeOK
  OneSender
  NothingReplayed
  TakenAgainOnlyByFault
  SecondStepProves
  GuessesAreLimited
  AdministratorStays
  KeptSetsAreWhole
  EvidenceIsKept
  RulesHold
PROPERTIES
  UpdatesWhatWasSeen
  CompatibleIsSafe
CHECK_DEADLOCK FALSE
