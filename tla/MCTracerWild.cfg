CONSTANTS
  Threads = {m}
  Main = m
  MainSize = 3
  Entry = 1
  Dlls <- MCDlls
  Ntdll <- MCNtdll
  Wild = {0}
  Apilog = FALSE
  Reentrant = FALSE
  RingMax = 2
  MaxStack = 3
SPECIFICATION Spec
INVARIANTS WildOnlyIfUnmapped
CHECK_DEADLOCK FALSE
