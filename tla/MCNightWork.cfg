SPECIFICATION NightWorkSpec
CONSTANTS
\* Two processes race for one run of two requests.
  Procs = {m1, m2}
  Runs = {a}
  DetectorMaximum = 2
  Remaining = 2
  NoRun = NoRun
  NightPrograms <- MCPrograms
  Attempts <- MCAttempts
  Rank <- MCRank
  Hours <- MCHours
  Offline = {"E"}
  Revised = {"F"}
  Renewed = {"H"}
  DeniedPrograms = {"B"}
  Limited = {"H"}
  Exhaustible = {"D"}
  Horizon = 8
  Duration = 4
  RetryAfters = {1, 5}
  MaxDriverCrashes = 1
  Scheduled = {"e", "h"}
  Gate = "e"
  Later = {"e"}
  External = {"playwright", "sqlmap"}
  Internal = {"secret", "idor"}
  Outcomes <- MCOutcomes
  Plans <- MCPlans
  ChaosRequests = 1
  Tries = 2
  Cases <- MCCases
  CatalogWorkers = {v1, v2}
  Programs = {p}
  Listing = listing
  Pages <- MCPages
  Rates = {1}
  Kinds = {"product_family"}
  Values = {"v"}
  Signals <- MCSignals
  FreshFor = 0
  MaxCatalogTime = 1
  MaxCommands = 5
  MaxIssues = 3
  w1 = w1
  w2 = w2
  Workers <- MCWorkers
  WorkerRequests <- MCRequests
  Origins = {"declared"}
  Addresses = 2
  Second = 2
  RateInterval = 2
  Patience = 1
  MaxTime = 3
  MaxCrashes = 1
SYMMETRY MCSymmetry
INVARIANTS StoresAgree GapAccounted AftermathSafe ScheduleKept NightAccounted RecoverySound
INVARIANTS FieldAccounted ReviewsHold SharedFilesHold
PROPERTIES ImplementsOneShot LaunchesCurrent
CHECK_DEADLOCK FALSE
