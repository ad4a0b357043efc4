CONSTANTS
  Thread = {"main"}
  Main = "main"
  Size = 5
  Watch = {1, 2}
  OwnInt3 = {4}
  LoaderSite = 4
  FaultCode <- MCFaultCode
  Handled = {3}
  JumpThrough = {"av"}
  Terminal = {"av", "overflow"}
  trace = TRUE
  no_jump = FALSE
  max_exc = 5
  trace_cap = 2
  None = None
  MaxStack = 2
  MaxHits = 2
SPECIFICATION Spec
INVARIANT VerdictIsFatal
CHECK_DEADLOCK FALSE
