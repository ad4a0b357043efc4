CONSTANTS
  Threads = {t1, t2}
  Guests = {g1, g2, g3}
  Free = Free
  Nobody = Nobody
  MaxSlots = 2
  MaxDepth = 2
  SerialInit = TRUE
  WithinCapacity = TRUE
SPECIFICATION FairSpec
INVARIANTS MutualExclusion MapCoherent ScanFinds HostAgrees
PROPERTIES ImplementsWin32
CHECK_DEADLOCK FALSE
