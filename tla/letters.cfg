SPECIFICATION Spec
CONSTANTS
  Members = {s1}
  Dosens = {d1, d2}
  Kesediaan = {k1}
  Permohonan = {l1, l2}
  Keys = {f1, f2, f3, f4}
  Requests = {p1, p2}
  Crashes = TRUE
  None = None
SYMMETRY Symmetry
INVARIANTS TypeOK SignaturesStored NoStrayLetters
PROPERTY KeepsPromise
CHECK_DEADLOCK FALSE
