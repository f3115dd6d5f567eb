----------------------------- MODULE MCLetters -----------------------------
(* Small instances of Letters.                                             *)
EXTENDS Letters, TLC

Symmetry == Permutations(Requests) \cup Permutations(Keys) \cup Permutations(Permohonan)
              \cup Permutations(Members) \cup Permutations(Dosens)
=============================================================================
