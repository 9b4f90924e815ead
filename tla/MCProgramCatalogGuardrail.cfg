CONSTANTS
  CatalogWorkers = {w1}
  Programs = {p}
  Listing = listing
  Pages <- Guarding
  Rates = {1}
  Kinds = {"product_family"}
  Values = {"v"}
  Signals <- Shown
  FreshFor = 0
  MaxCatalogTime = 0
  MaxCommands = 6
  MaxIssues = 3
SPECIFICATION CatSpec
INVARIANTS GuardrailKept
CHECK_DEADLOCK FALSE
