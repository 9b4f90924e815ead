\* Two processes share a session of three items each and a budget of three.
SPECIFICATION FairSpec
CONSTANTS
  Procs = {p1, p2}
  Length = 3
  OriginOf <- Origins
  MaxActions = 4
  MaxRequests = 3
  MaxErrors = 2
  MaxPerOrigin = 2
  Keepers = {p1}
  NoProc = NoProc
  NoPermit = NoPermit
  NoEntry = NoEntry
INVARIANTS BudgetHeld RefusalsBind ManifestChained CompletedIsRegistered LedgerAccounted
PROPERTY SessionsEnd
CHECK_DEADLOCK FALSE
