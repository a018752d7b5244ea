SPECIFICATION FairSpec
CONSTANTS
  x = x
  LF = LF
  CR = CR
  NUL = NUL
  BufSize = 2
  Streams <- MCStreams
  MaxLine = 4
  MaxHeaders = 5
  MaxObject = 5
  Piece = 4
  None = None
INVARIANTS
  TypeOK
  ReadsAsOne
  RelayedExactly
  HitSendsSame
  OverrunOnlyBeyond
PROPERTIES
  ResponseEnds
  SpinsForever
CHECK_DEADLOCK FALSE
