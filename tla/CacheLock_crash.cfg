CONSTANTS
  a = a
  b = b
  p1 = p1
  p2 = p2
  p3 = p3
  Procs <- MCProcs
  Caches <- MCCaches
  Plan <- MCPlan
  NoProc = NoProc
  MaxTime = 4
SPECIFICATION Spec
INVARIANT OneSeedPerCacheDespiteCrash
CHECK_DEADLOCK FALSE
