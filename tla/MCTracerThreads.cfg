CONSTANTS
  Threads = {m, w}
  Main = m
  MainSize = 3
  Entry = 1
  Dlls <- MCOneDll
  Ntdll <- MCNtdll
  Wild = {0}
  Apilog = TRUE
  Reentrant = TRUE
  RingMax = 1
  MaxStack = 2
SPECIFICATION Spec
INVARIANTS BytesAccounted OneWayBack MainWhole
CHECK_DEADLOCK FALSE
