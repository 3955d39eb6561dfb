CONSTANTS
  r1 = r1
  r2 = r2
  Requests = {r1, r2}
  NTiles = 1
  MetaSize = 1
  Mode <- Single
  Backend = "file"
  LevelZero = FALSE
  StrictLock = TRUE
  Outcomes = {"image", "uncacheable", "blank", "error", "authorize_stale", "authorize_stale_cache"}
  StoreFailing = TRUE
  Removing = TRUE
  MaxTime = 3
SPECIFICATION FairSpec
INVARIANTS TypeOK NoDuplicateCreation StaleOnlyIfSourceFails
PROPERTIES CacheNeverGoesBack StaleBeforeErrorImage RequestEnds
