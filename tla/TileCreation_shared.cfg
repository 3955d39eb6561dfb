CONSTANTS
  r1 = r1
  r2 = r2
  Requests = {r1, r2}
  NTiles = 2
  MetaSize = 2
  Mode <- MetaAndBulk
  Backend = "sqlite"
  LevelZero = FALSE
  StrictLock = FALSE
  Outcomes = {"image", "uncacheable", "blank", "error", "authorize_stale", "authorize_stale_cache"}
  StoreFailing = TRUE
  Removing = FALSE
  MaxTime = 2
SPECIFICATION Spec
INVARIANTS NoConcurrentCreation NoTileLost StaleOnlyIfSourceFails
