\* Commands that interrupt each other and do not die; a night of one or two programs.
SPECIFICATION EitherSpec
CONSTANTS
  Procs = {p1, p2, p3}
  Runs = {a}
  MaxCommands = 3
  Crashes = FALSE
  NoState = NoState
  root = root
  page = page
  inner = inner
  bare = bare
  Catalogs <- MCCatalogs
  Links <- MCLinks
  CanonicalForm <- MCCanonicalForm
  MaxPrograms = 2
  MaxActions = 3
  MaxRequests = 3
  MaxErrors = 2
  MaxRounds = 2
  MaxLinks = 2
INVARIANTS NightHonest
PROPERTIES Settles NightEnds
CHECK_DEADLOCK FALSE
