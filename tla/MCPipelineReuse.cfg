CONSTANTS
  Pass = {1, 2, 3}
  Key = {"a", "b"}
  Catalog <- MCCatalog
  Context = {"bare", "seeded"}
  Seeds <- MCSeeds
  Accepts <- MCAccepts
  Quirks <- MCQuirks
  StopAfter <- MCStop
  Quirk = 60
  None = None
  Reuse = TRUE
  MaxRuns = 2
SPECIFICATION Spec
INVARIANT ReadsAfterWrites
CHECK_DEADLOCK FALSE
