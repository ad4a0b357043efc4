CONSTANTS
  Threads = {t1, t2}
  Guests = {g1, g2, g3}
  Free = Free
  Nobody = Nobody
  MaxSlots = 2
  MaxDepth = 1
  SerialInit = TRUE
  WithinCapacity = FALSE
SPECIFICATION FairSpec
INVARIANTS HostCallsLegal
PROPERTIES ScansEnd
CHECK_DEADLOCK FALSE
