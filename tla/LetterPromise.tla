---------------------------- MODULE LetterPromise ----------------------------
(***************************************************************************)
(* What the surat kesediaan and the surat permohonan promise to those who  *)
(* wait for them: a request is decided once per round, a rejected one can  *)
(* be asked for again, and there is a signed document for exactly the      *)
(* approved requests, which never changes or goes.                         *)
(***************************************************************************)
CONSTANTS
  Letters,   \* requests for a letter
  Docs,      \* signed documents: Docs[l], those made for l
  None

VARIABLES
  status,    \* of each request; "none" before it is made
  document   \* the signed document of each request, or None

TypeOK ==
  /\ status \in [Letters -> {"none", "MENUNGGU", "DISETUJUI", "DITOLAK"}]
  /\ document \in [Letters -> UNION {Docs[l] : l \in Letters} \cup {None}]

Init ==
  /\ status = [l \in Letters |-> "none"]
  /\ document = [l \in Letters |-> None]

Becomes(l, from, to) ==
  /\ status[l] = from
  /\ status' = [status EXCEPT ![l] = to]

Ask(l) == Becomes(l, "none", "MENUNGGU") /\ UNCHANGED document

Approve(l) ==
  /\ Becomes(l, "MENUNGGU", "DISETUJUI")
  /\ \E d \in Docs[l] : document' = [document EXCEPT ![l] = d]

Reject(l) == Becomes(l, "MENUNGGU", "DITOLAK") /\ UNCHANGED document

AskAgain(l) == Becomes(l, "DITOLAK", "MENUNGGU") /\ UNCHANGED document

Next == \E l \in Letters : Ask(l) \/ Approve(l) \/ Reject(l) \/ AskAgain(l)

Spec == Init /\ [][Next]_<<status, document>>
==============================================================================
