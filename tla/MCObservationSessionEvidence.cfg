\* The same session run twice, one item each time: do both keep their evidence?
SPECIFICATION Spec
CONSTANTS
  Procs = {p1, p2}
  Length = 1
  OriginOf <- OneOrigin
  MaxActions = 3
  MaxRequests = 3
  MaxErrors = 1
  MaxPerOrigin = 3
  Keepers = {}
  NoProc = NoProc
  NoPermit = NoPermit
  NoEntry = NoEntry
INVARIANT EvidencePerRequest
CHECK_DEADLOCK FALSE
