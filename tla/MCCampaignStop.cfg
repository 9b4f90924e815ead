\* A stop while the batch is executed.
SPECIFICATION FairSpec
CONSTANTS
  Procs = {p1, p2}
  Runs = {a, b}
  MaxCommands = 1
  Crashes = FALSE
  NoState = NoState
PROPERTY QuietWhenStopped
CHECK_DEADLOCK FALSE
