SPECIFICATION Spec
CONSTANTS
  Thread = {t1, t2}
  a = a
  b = b
  c = c
  absent = absent
  Name <- MCMixedName
  Lib <- MCMixedLib
  Callable <- MCMixedCallable
  FileSize <- MCMixedFileSize
  MaxSize = 2
  Node = {n0, n1, n2, n3}
  Dummy = n0
  NULL = NULL
  Orphan = Orphan
INVARIANT
  MutexReleased
CHECK_DEADLOCK FALSE
