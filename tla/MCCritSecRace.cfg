CONSTANTS
  Threads = {t1, t2}
  Guests = {g1, g2}
  Free = Free
  Nobody = Nobody
  MaxSlots = 2
  MaxDepth = 1
  SerialInit = FALSE
  WithinCapacity = TRUE
SPECIFICATION FairSpec
INVARIANTS MutualExclusion

CHECK_DEADLOCK FALSE
