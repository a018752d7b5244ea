SPECIFICATION Spec
CONSTANTS
  Thread = {t1, t2, t3}
  Fd = {f1, f2, f3, f4}
  Cell = {c1, c2, c3}
  Pages = {0, 1}
  MaxLeaked = 1
  NULL = NULL
SYMMETRY Symmetry
INVARIANTS
  OwnDescriptors
  CellsFreed
  StatServes
  RefsCounted
CHECK_DEADLOCK FALSE
