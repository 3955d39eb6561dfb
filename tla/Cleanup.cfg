CONSTANTS
  a = a
  b = b
  c = c
  NLevels = 2
  Tiles = {a, b, c}
  LevelOf <- MCLevelOf
  Servers = {s}
  MaxSessions = 2
SPECIFICATION Spec
INVARIANTS TypeOK CleanupComplete StoredProgressIsClean NewTilesStay
CHECK_DEADLOCK FALSE
