----------------------------- MODULE MCLogbooks -----------------------------
(* Small instances of MentorRequests and Logbooks together.                *)
EXTENDS Logbooks, TLC

Symmetry ==
  Permutations(Dosens) \cup Permutations(AskIds) \cup Permutations(Emails)
  \cup Permutations(Accounts) \cup Permutations(Requests) \cup Permutations(Texts)
  \cup Permutations(LogIds)
=============================================================================
