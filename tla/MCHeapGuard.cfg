CONSTANTS
  Threads = {m}
  Main = m
  MainSize = 2
  Entry = 1
  Dlls <- MCDlls
  Ntdll <- MCNtdll
  Wild = {0, 15}
  Apilog = TRUE
  Reentrant = FALSE
  RingMax = 2
  MaxStack = 2
  Blocks = {p, q}
  Sizes = {1, 2}
SPECIFICATION HeapSpec
SYMMETRY BlockSymmetry
INVARIANTS NeverLost RingFaithful LowCallCaught LedgerErrsPerBlock
CHECK_DEADLOCK FALSE
