CONSTANTS
  a = a
  b = b
  p1 = p1
  p2 = p2
  p3 = p3
  Procs <- MCProcs
  Caches <- MCCaches
  Plan <- MCPlan
  NoProc = NoProc
  MaxTime = 4
SPECIFICATION FairSpec
INVARIANTS TypeOK OneSeedPerCache BlockedReservesNothing SeedingIsRecorded
PROPERTY SeedEnds
CHECK_DEADLOCK FALSE
