CONSTANTS
  Users = {u1}
  u1 = u1  u2 = u2
  s1 = s1  s2 = s2  s3 = s3
  v1 = v1  v2 = v2
  mahasiswa = mahasiswa  dosen = dosen
  SessionIds = {s1, s2}
  OldIds = {s1}
  Identities = {mahasiswa, dosen}
  Profiles = {v1, v2}
  Offers <- MCOffers
  Requests = {p1, p2}
  Mortal = {p1, p2}
  None = None
SPECIFICATION FairSpec
INVARIANTS OneSettledSession IdentityWasOffered
PROPERTIES EndedStaysEnded LoginsSettle
CHECK_DEADLOCK FALSE
