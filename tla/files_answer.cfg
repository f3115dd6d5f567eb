CONSTANTS
  t1 = t1  d1 = d1  d2 = d2  a1 = a1  l1 = l1  m1 = m1
  RowIds = {a1}
  Kind <- MCKind
  MaxKeys = 2
  Requests = {p1, p2}
  Mortal = {}
  Unsure = FALSE
  None = None
SPECIFICATION Spec
INVARIANT AnswerTakesItsFile
CHECK_DEADLOCK FALSE
