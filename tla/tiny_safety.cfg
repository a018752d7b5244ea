SPECIFICATION Spec
CONSTANTS
  Thread = {t1, t2, t3}
  a = a
  b = b
  c = c
  absent = absent
  Name <- MCName
  Lib <- MCLib
  Callable <- MCCallable
  FileSize <- MCFileSize
  MaxSize = 2
  Node = {n0, n1, n2, n3}
  Dummy = n0
  NULL = NULL
  Orphan = Orphan
SYMMETRY Symmetry
INVARIANTS
  TypeOK
  ListWhole
  Accounted
  PointersFresh
  RunsProtected
  OvershootBounded
  AnsweredOnLeave
  HitResolves
PROPERTY
  StuckForever
CHECK_DEADLOCK FALSE
