------------------------------ MODULE MCTeams ------------------------------
(* Small instances of Teams and its views: the endpoints each run lets the *)
(* clients call.                                                           *)
EXTENDS TeamViews, TLC

(* Nothing is ordered among students or among requests.                    *)
Symmetry == Permutations(Students) \cup Permutations(Requests)

MembershipOps == {"create", "leave", "remove", "cancel", "invite", "respond", "join"}
LifecycleOps == {"create", "finalize", "draft", "reset", "delete", "letter"}
=============================================================================
