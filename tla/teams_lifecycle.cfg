SPECIFICATION FairSpec
CONSTANTS
  Students = {s1}
  TeamIds = {t1}
  RowIds = {m1, m2, m3, m4}
  SubIds = {x1, x2, x3}
  Requests = {p1, p2, p3}
  Ops <- LifecycleOps
  MaxMembers = 2
  Crashes = TRUE
  None = None
INVARIANTS FixedTeamHasDraft
PROPERTY FinalizationCompletes
CHECK_DEADLOCK FALSE
