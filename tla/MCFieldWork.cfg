SPECIFICATION WorkSpec
CONSTANTS
  q1 = q1
  q2 = q2
  q3 = q3
  k1 = k1
  k2 = k2
  Keys = {k1, k2}
  NoRequest = NoRequest
  Workers = {x1, x2}
  Permits <- MCPermits
  Key <- MCKey
  Expiry <- MCExpiry
  Interval = 2
  Window = 2
  MaxClock = 5
\* Commands that interrupt each other and may die anywhere.
  Procs = {m1, m2}
  Runs = {a, b}
  MaxCommands = 4
  Crashes = TRUE
  NoState = NoState
  MaxAge = 1
  MinLease = 1
  MaxLease = 2
  Skew = 0
  MaxPermitTtl = 2
  None = None
  Clients = {c1, c2}
  Policies <- MCPolicies
  Tests <- MCTests
  Ready <- MCReady
  DirectRequests <- MCDirect
  Revisions = {"r1"}
  Statuses = {"online", "offline"}
  ClockErrors = {0, 1}
  Rates = {1}
  Ttls = {2}
  SigningKeys = {"k"}
  ActiveKey = "k"
  MaxTime = 4
  MaxAttested = 1
  MaxLeases = 2
  MaxPermits = 1
  wa = wa
  wb = wb
  home = home
  login = login
  away = away
  NoTarget = NoTarget
  Nowhere = Nowhere
  Excluded = {}
  Wrappers = {wa, wb}
  Roots = {home}
  InScope = {home, login}
  Answers <- MCAnswers
  Shared <- MCShared
  MaxActions = 1
  MaxDeaths = 1
  Callers = {d1, d2}
  PlanTargets = {"plain", "scored"}
  PlanSets <- MCPlanSets
  Scores <- MCScores
  MaxActive = 2
  MaxItems = 3
  Tracked = {1}
  MaxBuilds = 1
  MaxAttempts = 1
\* One process, woken again after crashes and foreign changes.
  Runners = {r1}
  FirstMilestone = 7
  LastMilestone = 8
  MaxInvocations = 3
  MaxIdle = 2
  MaxStarts = 3
  MaxCrashes = 2
  MaxForeign = 1
  MaxEdits = 2
SYMMETRY MCSymmetry
INVARIANTS AdmissionSound Unwedged PermitsGrounded
INVARIANTS OneRequest AssessmentGrounded SummaryOrdered FairShare
PROPERTIES ImplementsOneShot ClaimsValidated
CHECK_DEADLOCK FALSE
