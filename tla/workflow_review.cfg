SPECIFICATION Spec
CONSTANTS
  Subs = {x1}
  Members = {m1}
  Accepted = {m1}
  Slots = {k1}
  Admins = {a1}
  DocIds = {d1, d2}
  Numbers = {n1}
  RespIds = {r1}
  Requests = {p1, p2}
  Ops <- ReviewOps
  Crashes = TRUE
  None = None
SYMMETRY Symmetry
INVARIANTS TypeOK VerdictsAgree DosenApprovalHasLetter InternshipsFollow ViewsAgree
CHECK_DEADLOCK FALSE
