CONSTANTS
  Thread = {"main"}
  Main = "main"
  Size = 5
  Watch = {2, 4}
  OwnInt3 = {4}
  LoaderSite = 1
  FaultCode <- MCFaultCode
  Handled = {3}
  JumpThrough = {"av"}
  Terminal = {"av", "overflow"}
  trace = TRUE
  no_jump = FALSE
  max_exc = 5
  trace_cap = 2
  None = None
  MaxStack = 2
  MaxHits = 3
SPECIFICATION Spec
INVARIANT HitOnce
CHECK_DEADLOCK FALSE
