SPECIFICATION ProxyAndLabSpec
CONSTANTS
  Requests = {r1, r2, r3, r4}
  MaxRequests = 3
  MaxConcurrency = 2
  Interval = 2
  Expiry = 2
  CircuitLimit = 2
  MaxClock = 3
\* Two runs: an assessment, or any two runs of an operator.
  LabRuns = {j1, j2}
  LabRuntimes = {"playwright", "zap"}
  Observer = "playwright"
  Verifier = "zap"
  LabJobs <- MCJobs
  Health = "health"
  OfflineProbes = {"read-only-root"}
  NoLabRun = NoLabRun
  Prepared = {"playwright", "zap"}
  MaxImages <- MCImages
SYMMETRY MCSymmetry
INVARIANTS BudgetCeiling LedgerTruthful BurstBounded
INVARIANTS LabEvidenceIntact QualificationBacked
CHECK_DEADLOCK FALSE
