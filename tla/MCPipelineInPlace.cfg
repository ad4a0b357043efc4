CONSTANTS
  Pass = {1, 2, 3}
  Key = {"a", "b"}
  Catalog <- MCCatalog
  Context = {"bare", "seeded"}
  Seeds <- MCSeeds
  Accepts <- MCAccepts
  Quirks <- MCQuirks
  StopAfter <- MCStop
  Quirk = 60
  None = None
  Reuse = FALSE
  MaxRuns = 1
SPECIFICATION Spec
INVARIANT InPlaceRuns
CHECK_DEADLOCK FALSE
