SPECIFICATION Spec
CONSTANTS
  Dosens = {d1}
  AskIds = {a1}
  Emails = {m1}
  Accounts = {c1, c2}
  Requests = {p1, p2}
  LogIds = {e1}
  Texts = {x1, x2}
  MaxFlight = 2
  Ops = {"reject", "advisor"}
  Crashes = FALSE
  None = None
SYMMETRY Symmetry
INVARIANTS TypeOK VerifierWasMentor ReasonFollowsStatus
PROPERTY ApprovedEntryStands
CHECK_DEADLOCK FALSE
