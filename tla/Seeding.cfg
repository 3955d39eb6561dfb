CONSTANTS
  NoProgress = NoProgress
  NoTile = NoTile
  Workers = {w1, w2}
  Subtiles = 2
  Covered <- MCCovered
  TileOf <- MCTileOf
  Levels = {0, 1, 2}
  ReportTill = 2
  MaybeCached <- MCMaybeCached
  MaxRepeat = 1
  MaxSessions = 2
SPECIFICATION FairSpec
INVARIANTS
  TypeOK
  StoredProgressIsHandedOver
  DoneMeansHandedOver
  DoneMeansSeeded
PROPERTIES
  ProgressNeverMovesBack
  SessionEnds
CHECK_DEADLOCK FALSE
