CONSTANTS
  t1 = t1  d1 = d1  d2 = d2  a1 = a1  l1 = l1  m1 = m1
  RowIds = {t1, d1, m1}
  Kind <- MCKind
  MaxKeys = 3
  Requests = {p1, p2}
  Mortal = {p1}
  Unsure = TRUE
  None = None
SPECIFICATION FairSpec
INVARIANTS TypeOK ReadersFindTheFile NothingLeftBehind OneRowPerObject
PROPERTIES LossEnds
CHECK_DEADLOCK FALSE
