CONSTANTS
  Thread = {"main", "w"}
  Main = "main"
  Size = 5
  Watch = {1, 2}
  OwnInt3 = {4}
  LoaderSite = 4
  FaultCode <- MCFaultCode
  Handled = {3}
  JumpThrough = {"av"}
  Terminal = {"av", "overflow"}
  trace = TRUE
  no_jump = FALSE
  max_exc = 4
  trace_cap = 1
  None = None
  MaxStack = 1
  MaxHits = 2
SPECIFICATION FairSpec
INVARIANTS ProbesAccounted NeverHitIsTrue MainWhole
PROPERTIES FaultEnds
CHECK_DEADLOCK FALSE
