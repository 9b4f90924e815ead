\* The proxy still forwards after its ledger was read.
SPECIFICATION Spec
CONSTANTS
  Procs = {p1}
  Runs = {a}
  DetectorMaximum = 2
  Remaining = 2
  NoRun = NoRun
INVARIANT LedgerAccounted
CHECK_DEADLOCK FALSE
