CONSTANTS
  Pass = {1, 2, 3}
  Key = {"a", "b"}
  Catalog <- MCCatalog
  Context = {"bare", "seeded"}
  Seeds <- MCSeeds
  Accepts <- MCAccepts
  Quirks <- MCQuirks
  StopAfter <- MCStop
  Quirk = 60
  None = None
  Reuse = FALSE
  MaxRuns = 2
SPECIFICATION FairSpec
INVARIANTS ReadsAfterWrites CycleIsReal MissingMeansUnwritten
PROPERTIES NoStaleRead ImplementsDataflow RunsEnd
CHECK_DEADLOCK FALSE
