SPECIFICATION FairSpec
CONSTANTS
  Thread = {t1, t2, t3}
  Conn = {c1, c2, c3}
  Pid = {p1, p2, p3}
  NULL = NULL
INVARIANTS
  WaitHasChild
  CopiesAwaited
PROPERTIES
  WaitsKeepReturning
  ClosedInTheEnd
