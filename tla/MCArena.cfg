CONSTANTS
  Bases = {b1, b2, b3}
  Ids = {i1, i2, i3}
  Sizes = {0, 1, 2, 3, 6}
  Align = 2
  BlockSize = 4
  MaxOffset = 5
  MaxMarks = 2
  NULL = NULL
SPECIFICATION Spec
SYMMETRY Symmetry
INVARIANTS ArenaInv ContentsKept
CHECK_DEADLOCK FALSE
