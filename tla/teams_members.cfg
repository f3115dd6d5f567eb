SPECIFICATION Spec
CONSTANTS
  Students = {s1, s2, s3}
  TeamIds = {t1, t2}
  RowIds = {m1, m2, m3}
  SubIds = {x1}
  Requests = {p1, p2}
  Ops <- MembershipOps
  MaxMembers = 2
  Crashes = TRUE
  None = None
SYMMETRY Symmetry
INVARIANTS TwoPartyConsent LeaderSeated PagesAgree
PROPERTIES RemovedByItsParties KeepsPromise
CHECK_DEADLOCK FALSE
