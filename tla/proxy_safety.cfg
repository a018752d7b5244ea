SPECIFICATION Spec
CONSTANTS
  Thread = {t1, t2}
  Request <- MCMixed
  Size = {1, 2}
  MaxObject = 1
  MaxSize = 4
  Node = {n0, n1, n2, n3, n4}
  Dummy = n0
  NULL = NULL
SYMMETRY Symmetry
INVARIANTS
  TypeOK
  BackValid
  ChainValid
  SizeCountsAll
  PointersFresh
  SentSameObject
PROPERTIES
  NothingAddedAfterLoss
  LockCycleForever
CHECK_DEADLOCK FALSE
