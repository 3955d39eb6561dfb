CONSTANTS
  N = 4
  Workers = {w1, w2, w3}
SPECIFICATION Spec
INVARIANT TypeOK
PROPERTIES ImplementsMap AllEnd NothingStartsAfterShutdown
CHECK_DEADLOCK FALSE
