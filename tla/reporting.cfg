SPECIFICATION FairSpec
CONSTANTS
  Dosens = {d1}
  Mentors = {k1}
  TitleIds = {t1, t2}
  LecturerIds = {l1, l2}
  AssessIds = {a1}
  Sheets <- MCSheets
  Ops <- ReportOps
  Forms <- MCForms
  Edits <- MCEdits
  Requests = {p1, p2}
  Crashes = TRUE
  None = None
INVARIANT ResultsInOrder
PROPERTY GradedEnds
CHECK_DEADLOCK FALSE
