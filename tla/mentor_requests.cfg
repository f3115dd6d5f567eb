SPECIFICATION MentorSpec
CONSTANTS
  Dosens = {d1}
  AskIds = {a1}
  Emails = {m1, m2}
  Accounts = {c1, c2}
  Requests = {p1, p2}
  Ops = {"reject", "advisor"}
  Crashes = TRUE
  None = None
SYMMETRY Symmetry
INVARIANTS ApprovalComesLast ApprovedNamesItsMentor AccountIsUsed
PROPERTIES StatusesInTurn
CHECK_DEADLOCK FALSE
