CONSTANTS
  Procs = {p1, p2}
  Tiles = {a, b}
  Inodes = {i1, i2}
  NoInode = NoInode
  MaxStores = 2
SPECIFICATION Spec
SYMMETRY Perms
INVARIANTS TypeOK WholeTilesUnlessShared ReadsAreCurrent StoresLast
