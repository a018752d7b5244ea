SPECIFICATION FairSpec
CONSTANTS
  Thread = {t1, t2, t3}
  a = a
  b = b
  c = c
  absent = absent
  Name <- MCMixedName
  Lib <- MCMixedLib
  Callable <- MCMixedCallable
  FileSize <- MCMixedFileSize
  MaxSize = 1
  Node = {n0, n1, n2, n3}
  Dummy = n0
  NULL = NULL
  Orphan = Orphan
PROPERTIES
  SystemProgress
  ImplementsCallCache
CHECK_DEADLOCK FALSE
