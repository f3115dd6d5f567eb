----------------------------- MODULE MCGrading -----------------------------
(* Small instances of Grading.                                             *)
EXTENDS Grading, TLC

Flat(n) == [c \in Criteria |-> n]

MCForms == {Flat(90)}

(* kehadiran 100 gives 92; kreatifitas 85 gives 89.5, rounded either way.  *)
MCEdits == {[c \in {"kehadiran"} |-> 100], [c \in {"kreatifitas"} |-> 85]}

MCSheets == {<<90, 91, 90, 91>>}

AssessOps == {"assess", "score"}
ReportOps == {"report", "score"}

Symmetry == Permutations(Dosens) \cup Permutations(Mentors) \cup Permutations(Requests)
=============================================================================
