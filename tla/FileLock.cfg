CONSTANTS
  Procs = {p1, p2}
  Paths = {tile, swept}
  Inodes = {i1, i2, i3, i4}
  NoInode = NoInode
  RemoveOnUnlock = TRUE
  Aged = {swept}
  LongHeld = TRUE
SPECIFICATION FairLockSpec
INVARIANTS LockTypeOK ExclusiveUntilSolved
PROPERTIES ImplementsLock LockReturns
