SPECIFICATION FairSpec
CONSTANTS
  Subs = {x1}
  Members = {m1}
  Accepted = {m1}
  Slots = {k1}
  Admins = {a1}
  DocIds = {d1, d2}
  Numbers = {n1}
  RespIds = {r1}
  Requests = {p1, p2}
  Ops <- AnswerOps
  Crashes = FALSE
  None = None
INVARIANT VerdictsAgree
PROPERTY InternshipsCreated
CHECK_DEADLOCK FALSE
