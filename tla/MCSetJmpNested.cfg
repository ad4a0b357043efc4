CONSTANTS
  Threads = {t}
  Buffers = {b1, b2}
  Home <- MCHome
  Work <- MCWork
  NoBuffer = NoBuffer
  MaxDepth <- MCDepth
SPECIFICATION Spec
INVARIANTS RegistersPreserved
CHECK_DEADLOCK FALSE
