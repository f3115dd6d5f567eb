SPECIFICATION Spec
CONSTANTS
  Dosens = {d1, d2}
  Mentors = {k1}
  TitleIds = {t1}
  LecturerIds = {l1, l2}
  AssessIds = {a1, a2}
  Sheets <- MCSheets
  Ops <- AssessOps
  Forms <- MCForms
  Edits <- MCEdits
  Requests = {p1, p2}
  Crashes = FALSE
  None = None
SYMMETRY Symmetry
INVARIANTS TypeOK GradeFitsScores TotalFitsColumns
CHECK_DEADLOCK FALSE
