-------------------------- MODULE MCMentorRequests --------------------------
(* A small instance of MentorRequests.                                     *)
EXTENDS MentorRequests, TLC

Symmetry ==
  Permutations(Dosens) \cup Permutations(AskIds) \cup Permutations(Emails)
  \cup Permutations(Accounts) \cup Permutations(Requests)
=============================================================================
