CONSTANTS
  Threads = {t1}
  Cleaner = s
  Tiles = {a}
  Inodes = {i1, i2}
  NoInode = NoInode
  MaxRemovals = 1
SPECIFICATION Spec
INVARIANT RemovedTilesAreGone
