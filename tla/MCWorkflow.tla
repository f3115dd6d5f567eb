----------------------------- MODULE MCWorkflow -----------------------------
(* Small instances of Workflow and Views: the endpoints each run lets the   *)
(* clients call.                                                            *)
EXTENDS Views, TLC

(* Nothing is ordered among requests, ids or letter numbers.                *)
Symmetry == Permutations(Requests) \cup Permutations(Subs) \cup Permutations(DocIds)
              \cup Permutations(RespIds) \cup Permutations(Numbers)

ReviewOps == {"edit", "submit", "revert", "upload", "removeDoc", "review", "verify", "refuse"}
AnswerOps == {"submit", "upload", "review", "verify", "generate", "answer", "check", "removeAnswer"}
=============================================================================
