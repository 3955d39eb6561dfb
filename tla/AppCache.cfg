CONSTANTS
  Threads = {t1, t2}
  Names = {a, b}
  Size = 1
  MaxChanges = 1
SPECIFICATION Spec
SYMMETRY Perms
INVARIANTS TypeOK CurrentUnlessEditedWhileRead CreatedOnce NoErrorWithoutEviction
