SPECIFICATION Spec
CONSTANTS
  p1 = p1
  p2 = p2
  Procs = {a, b}
  NoProc = NoProc
  Permits <- MCPermits
  Expiry <- MCExpiry
  MaxClock = 1
  MaxAudit = 2
INVARIANTS GrantedOnce AuditTrail LostRaceExplained
PROPERTIES ImplementsOneShot LocksReleased
CHECK_DEADLOCK FALSE
