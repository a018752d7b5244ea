SPECIFICATION Spec
CONSTANTS
  Thread = {t1, t2}
  Request <- MCPaths
  Size = {1}
  MaxObject = 1
  MaxSize = 2
  Node = {n0, n1, n2}
  Dummy = n0
  NULL = NULL
INVARIANT
  CacheCorrect
CHECK_DEADLOCK FALSE
