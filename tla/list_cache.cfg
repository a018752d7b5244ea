SPECIFICATION Spec
CONSTANTS
  Thread = {t1, t2}
  Block = {b1, b2, b3, b4, b5}
  Name = {a, b}
  Size = {1, 3, 4}
  MaxSize = 3
  NULL = NULL
SYMMETRY Symmetry
INVARIANTS
  TypeOK
  BooksBalance
  AssertsForOversize
PROPERTIES
  FoundHolds
  ImplementsLruList
CHECK_DEADLOCK FALSE
