--------------------------- MODULE WorkflowProofs ---------------------------
(***************************************************************************)
(* What holds of Workflow, and of what Views shows of it, for every number *)
(* of submissions, members, documents, letters and requests.               *)
(***************************************************************************)
EXTENDS Views, FiniteSetTheorems, TLAPS

(* What a request remembers where it matters: the submission it is about   *)
(* and, once a letter number is chosen, that number.                       *)
Numbered ==
  {"approve.check", "approve.cover", "approve.insert", "approve.write",
   "letter.look", "letter.add", "letter.final", "dosen.write"}

RequestOK(r) ==
  /\ r.at # "idle" => r.sub \in Subs
  /\ r.at \in Numbered => r.number \in Numbers
  /\ r.at = "review.doc" /\ r.ok => r.number \in Numbers

RequestsOK ==
  /\ req \in [Requests -> Request]
  /\ \A p \in Requests : RequestOK(req[p])

(* What VerdictsAgree and DosenApprovalHasLetter say of one submission,    *)
(* and what the views rely on besides: the legacy status is APPROVED only  *)
(* from a completion on, and nothing ever writes REJECTED there.           *)
RowOK(s) ==
  /\ s.status # "REJECTED"
  /\ s.status = "APPROVED" => s.stage \in {"COMPLETED", "REJECTED_DOSEN"}
  /\ s.stage \in {"DRAFT", "PENDING_ADMIN_REVIEW"} =>
       s.admin = "PENDING" /\ s.dosen = "PENDING"
  /\ s.stage = "DRAFT" => s.status = "DRAFT"
  /\ s.status = "DRAFT" => s.stage \in {"DRAFT", "REJECTED_DOSEN"}
  /\ s.stage = "PENDING_DOSEN_VERIFICATION" =>
       s.admin = "APPROVED" /\ s.dosen = "PENDING" /\ s.number # None
  /\ s.stage = "REJECTED_ADMIN" =>
       s.admin = "REJECTED" /\ s.dosen = "PENDING" /\ s.number = None
  /\ s.stage = "REJECTED_DOSEN" => s.dosen = "REJECTED"
  /\ s.stage = "COMPLETED" => s.status = "APPROVED"
  /\ s.dosen = "APPROVED" => s.stage = "COMPLETED" /\ s.final # None

RowsOK ==
  /\ sub \in [Subs -> SubRow]
  /\ \A x \in Subs : RowOK(sub[x])

DocsOK ==
  /\ doc \in [DocIds -> DocRow]
  /\ \A d \in DocIds : doc[d].state # "none" => doc[d].sub \in Subs

RespsOK ==
  /\ resp \in [RespIds -> RespRow]
  /\ \A k \in RespIds : resp[k].state # "none" => resp[k].sub \in Subs

TablesOK ==
  /\ DocsOK /\ RespsOK
  /\ letter \in [Numbers -> LetterRow]
  /\ intern \in [Subs -> [Members -> Nat]]
  /\ failed \in SUBSET Subs

Inv == RequestsOK /\ RowsOK /\ TablesOK

-----------------------------------------------------------------------------
(* How a step may change one request.                                      *)

LEMMA IdleOK == Idle \in Request /\ RequestOK(Idle)
BY DEF RequestOK, Idle, Request, Places, Data, Numbered

(* Replacing what one request remembers by something proper is proper.     *)
LEMMA MoveOK ==
  ASSUME RequestsOK, NEW p \in Requests, NEW r \in Request, RequestOK(r),
         req' = [req EXCEPT ![p] = r]
  PROVE  RequestsOK'
BY DEF RequestsOK, RequestOK

LEMMA DoneOK ==
  ASSUME RequestsOK, NEW p \in Requests, Done(p)
  PROVE  RequestsOK'
BY IdleOK, MoveOK DEF Done

LEMMA GotoOK ==
  ASSUME RequestsOK, NEW p \in Requests, NEW a \in Places, req[p].at # "idle",
         a # "review.doc", a \in Numbered => req[p].number \in Numbers, Goto(p, a)
  PROVE  RequestsOK'
<1> DEFINE r == [req[p] EXCEPT !.at = a]
<1>1. r \in Request
  BY DEF RequestsOK, Request
<1>2. RequestOK(r)
  BY DEF RequestsOK, RequestOK, Request
<1>3. req' = [req EXCEPT ![p] = r]
  BY DEF Goto
<1> QED BY <1>1, <1>2, <1>3, MoveOK

LEMMA ProceedOK ==
  ASSUME RequestsOK, NEW p \in Requests, NEW a \in Places, req[p].at # "idle",
         a # "review.doc", a \in Numbered => req[p].number \in Numbers,
         NEW ok, Proceed(p, ok, a)
  PROVE  RequestsOK'
BY GotoOK, DoneOK DEF Proceed

(* A request that remembers one thing more.                                *)
LEMMA AtPlace ==
  ASSUME NEW r \in Request, NEW a \in Places
  PROVE  [r EXCEPT !.at = a] \in Request
BY DEF Request

LEMMA WithDocs ==
  ASSUME NEW r \in Request, NEW D \in SUBSET DocIds
  PROVE  [r EXCEPT !.docs = D] \in Request
BY DEF Request

LEMMA WithTodo ==
  ASSUME NEW r \in Request, NEW M \in SUBSET Members
  PROVE  [r EXCEPT !.todo = M] \in Request
BY DEF Request

LEMMA WithIns ==
  ASSUME NEW r \in Request, NEW M \in SUBSET Members
  PROVE  [r EXCEPT !.ins = M] \in Request
BY DEF Request

LEMMA DocsThenPlace ==
  ASSUME NEW r \in Request, NEW D \in SUBSET DocIds, NEW a \in Places
  PROVE  [r EXCEPT !.docs = D, !.at = a] \in Request
<1>1. PICK s \in Request : s = [r EXCEPT !.docs = D]
  BY WithDocs
<1>2. [s EXCEPT !.at = a] \in Request
  BY AtPlace
<1> QED BY <1>1, <1>2

LEMMA TodoThenIns ==
  ASSUME NEW r \in Request, NEW M \in SUBSET Members, NEW N \in SUBSET Members
  PROVE  [r EXCEPT !.todo = M, !.ins = N] \in Request
<1>1. PICK s \in Request : s = [r EXCEPT !.todo = M]
  BY WithTodo
<1>2. [s EXCEPT !.ins = N] \in Request
  BY WithIns
<1> QED BY <1>1, <1>2

(* A request that only moves on to another place, with the number it has.  *)
LEMMA NumberKept ==
  ASSUME RequestsOK, NEW p \in Requests, req[p].at \in Numbered
  PROVE  req[p].number \in Numbers /\ req[p].sub \in Subs
BY DEF RequestsOK, RequestOK, Numbered

LEMMA SimpleSteps ==
  ASSUME RequestsOK, NEW p \in Requests,
         \/ EditWrite(p) \/ SubmitWrite(p) \/ RevertWrite(p) \/ UploadInsert(p)
         \/ RemoveDocCheck(p) \/ RemoveDocDelete(p) \/ RejectWrite(p) \/ DosenWrite(p)
         \/ GenerateCheck(p) \/ GenerateAdd(p) \/ AnswerInsert(p) \/ AnswerMark(p)
         \/ CheckVerify(p) \/ CheckStatus(p) \/ CheckMark(p) \/ RemoveRow(p)
         \/ RemoveMark(p) \/ RejectLetters(p) \/ Die(p)
  PROVE  RequestsOK'
<1>1. CASE \/ EditWrite(p) \/ SubmitWrite(p) \/ RevertWrite(p) \/ UploadInsert(p)
           \/ RemoveDocDelete(p) \/ RejectWrite(p) \/ DosenWrite(p) \/ GenerateAdd(p)
           \/ AnswerMark(p) \/ RemoveMark(p) \/ Die(p)
  BY <1>1, DoneOK DEF EditWrite, SubmitWrite, RevertWrite, UploadInsert,
     RemoveDocDelete, RejectWrite, DosenWrite, GenerateAdd, AnswerMark, RemoveMark, Die
<1>2. CASE RemoveDocCheck(p)
  BY <1>2, ProceedOK DEF RemoveDocCheck, Places, Numbered
<1>3. CASE GenerateCheck(p)
  BY <1>3, ProceedOK DEF GenerateCheck, Places, Numbered
<1>4. CASE CheckStatus(p)
  BY <1>4, ProceedOK DEF CheckStatus, Places, Numbered
<1>5. CASE AnswerInsert(p)
  BY <1>5, GotoOK DEF AnswerInsert, Places, Numbered
<1>6. CASE CheckVerify(p)
  BY <1>6, GotoOK DEF CheckVerify, Places, Numbered
<1>7. CASE CheckMark(p)
  BY <1>7, GotoOK DEF CheckMark, Places, Numbered
<1>8. CASE RemoveRow(p)
  BY <1>8, GotoOK DEF RemoveRow, Places, Numbered
<1>9. CASE RejectLetters(p)
  BY <1>9, GotoOK DEF RejectLetters, Places, Numbered
<1> QED BY <1>1, <1>2, <1>3, <1>4, <1>5, <1>6, <1>7, <1>8, <1>9

(* The steps of an upload, of a review and of its clean-up.                *)
LEMMA ReviewSteps ==
  ASSUME RequestsOK, NEW p \in Requests,
         \/ UploadLook(p) \/ UploadDrop(p) \/ ReviewDoc(p) \/ ApproveCheck(p)
         \/ ApproveCover(p) \/ ApproveInsert(p) \/ ApproveWrite(p)
         \/ RejectLook(p) \/ RejectCovers(p) \/ RejectSkips(p)
  PROVE  RequestsOK'
<1> DEFINE r == req[p]
<1>0. r \in Request /\ RequestOK(r)
  BY DEF RequestsOK
<1>1. CASE UploadLook(p)
  <2>1. CASE Goto(p, "upload.insert")
    BY <1>1, <2>1, GotoOK DEF UploadLook, Places, Numbered
  <2>2. CASE Done(p)
    BY <2>2, DoneOK
  <2>3. ASSUME NEW d \in DocIds,
               req' = [req EXCEPT ![p].at = "upload.drop", ![p].doc = d]
        PROVE  RequestsOK'
    <3> DEFINE n == [r EXCEPT !.at = "upload.drop", !.doc = d]
    <3>1. n \in Request
      BY <1>0 DEF Request, Places
    <3>2. RequestOK(n)
      BY <1>0, <1>1 DEF RequestOK, Numbered, Request, UploadLook
    <3> QED BY <3>1, <3>2, <2>3, MoveOK
  <2> QED BY <1>1, <2>1, <2>2, <2>3 DEF UploadLook, DocIn, DocsOf
<1>2. CASE UploadDrop(p)
  <2> DEFINE n == [r EXCEPT !.at = "upload.insert", !.doc = None]
  <2>1. n \in Request
    BY <1>0 DEF Request, Places
  <2>2. RequestOK(n)
    BY <1>0, <1>2 DEF RequestOK, Numbered, Request, UploadDrop
  <2> QED BY <1>2, <2>1, <2>2, MoveOK DEF UploadDrop
<1>3. CASE ReviewDoc(p)
  <2>1. PICK d \in r.docs :
          req' = [req EXCEPT ![p].docs = @ \ {d},
                    ![p].at = IF r.docs # {d} THEN @
                              ELSE IF r.ok THEN "approve.check" ELSE "reject.letters"]
    BY <1>3 DEF ReviewDoc
  <2> DEFINE a == IF r.docs # {d} THEN r.at
                  ELSE IF r.ok THEN "approve.check" ELSE "reject.letters"
             n == [r EXCEPT !.docs = r.docs \ {d}, !.at = a]
  <2>2. a \in Places /\ r.docs \ {d} \in SUBSET DocIds
    BY <1>0 DEF Request, Places
  <2>3. n \in Request
    BY <1>0, <2>2, DocsThenPlace
  <2>4. RequestOK(n)
    BY <1>0, <1>3 DEF RequestOK, Numbered, Request, ReviewDoc
  <2>5. req' = [req EXCEPT ![p] = n]
    BY <2>1
  <2> HIDE DEF n
  <2> QED BY <2>3, <2>4, <2>5, MoveOK
<1>4. CASE ApproveCheck(p)
  <2>1. r.number \in Numbers
    BY <1>4, NumberKept DEF ApproveCheck, Numbered
  <2> QED BY <1>4, <2>1, ProceedOK DEF ApproveCheck, Places
<1>5. CASE ApproveCover(p)
  <2>1. r.number \in Numbers
    BY <1>5, NumberKept DEF ApproveCover, Numbered
  <2>2. PICK a \in {"approve.insert", "approve.write"} : Goto(p, a)
    BY <1>5 DEF ApproveCover
  <2>3. a \in Places /\ a # "review.doc" /\ r.at # "idle"
    BY <1>5 DEF Places, ApproveCover
  <2> QED BY <2>1, <2>2, <2>3, GotoOK
<1>6. CASE ApproveInsert(p)
  <2>1. r.number \in Numbers
    BY <1>6, NumberKept DEF ApproveInsert, Numbered
  <2> QED BY <1>6, <2>1, ProceedOK DEF ApproveInsert, Places
<1>7. CASE ApproveWrite(p)
  <2>1. CASE Done(p)
    BY <2>1, DoneOK
  <2>2. CASE req' = [req EXCEPT ![p].at = "intern", ![p].todo = Accepted]
    <3> DEFINE n == [r EXCEPT !.at = "intern", !.todo = Accepted]
    <3>1. n \in Request
      BY <1>0, ConstantsAssumption DEF Request, Places
    <3>2. RequestOK(n)
      BY <1>0, <1>7 DEF RequestOK, Numbered, Request, ApproveWrite
    <3> QED BY <2>2, <3>1, <3>2, MoveOK
  <2> QED BY <1>7, <2>1, <2>2 DEF ApproveWrite
<1>8. CASE RejectLook(p)
  <2> DEFINE a == IF Covers(r.sub) = {} THEN "reject.write" ELSE "reject.covers"
             n == [r EXCEPT !.docs = Covers(r.sub), !.at = a]
  <2>1. a \in Places /\ Covers(r.sub) \in SUBSET DocIds
    BY DEF Places, Covers, DocsOf
  <2>2. n \in Request
    BY <1>0, <2>1, DocsThenPlace
  <2>3. RequestOK(n)
    BY <1>0, <1>8 DEF RequestOK, Numbered, Request, RejectLook
  <2>4. req' = [req EXCEPT ![p] = n]
    BY <1>8 DEF RejectLook
  <2> HIDE DEF n
  <2> QED BY <2>2, <2>3, <2>4, MoveOK
<1>9. CASE RejectCovers(p)
  <2>1. PICK d \in r.docs :
          req' = [req EXCEPT ![p].docs = @ \ {d},
                    ![p].at = IF r.docs = {d} THEN "reject.write" ELSE @]
    BY <1>9 DEF RejectCovers
  <2> DEFINE a == IF r.docs = {d} THEN "reject.write" ELSE r.at
             n == [r EXCEPT !.docs = r.docs \ {d}, !.at = a]
  <2>2. a \in Places /\ r.docs \ {d} \in SUBSET DocIds
    BY <1>0 DEF Request, Places
  <2>3. n \in Request
    BY <1>0, <2>2, DocsThenPlace
  <2>4. RequestOK(n)
    BY <1>0, <1>9 DEF RequestOK, Numbered, Request, RejectCovers
  <2>5. req' = [req EXCEPT ![p] = n]
    BY <2>1
  <2> HIDE DEF n
  <2> QED BY <2>3, <2>4, <2>5, MoveOK
<1>10. CASE RejectSkips(p)
  <2> DEFINE n == [r EXCEPT !.at = "reject.write", !.docs = {}]
  <2>1. n \in Request
    BY <1>0 DEF Request, Places
  <2>2. RequestOK(n)
    BY <1>0, <1>10 DEF RequestOK, Numbered, Request, RejectSkips
  <2>3. req' = [req EXCEPT ![p] = n]
    BY <1>10 DEF RejectSkips
  <2> HIDE DEF n
  <2> QED BY <2>1, <2>2, <2>3, MoveOK
<1> QED BY <1>1, <1>2, <1>3, <1>4, <1>5, <1>6, <1>7, <1>8, <1>9, <1>10

(* The steps that create internships and letters.                          *)
LEMMA InternSteps ==
  ASSUME RequestsOK, NEW p \in Requests,
         InternLook(p) \/ InternInsert(p) \/ CheckSkips(p) \/ CheckComplete(p)
  PROVE  RequestsOK'
<1> DEFINE r == req[p]
<1>0. r \in Request /\ RequestOK(r)
  BY DEF RequestsOK
<1>1. ASSUME NEW n \in Request, n.at = "intern", n.sub \in Subs, req' = AfterInterns(p, n)
      PROVE  RequestsOK'
  <2>1. CASE n.todo \cup n.ins # {}
    <3>1. RequestOK(n)
      BY <1>1 DEF RequestOK, Numbered
    <3> QED BY <1>1, <2>1, <3>1, MoveOK DEF AfterInterns
  <2>2. CASE n.todo \cup n.ins = {} /\ n.by = "check"
    <3> DEFINE k == [n EXCEPT !.at = "letter.number"]
    <3>1. k \in Request
      BY <1>1 DEF Request, Places
    <3>2. RequestOK(k)
      BY <1>1 DEF RequestOK, Numbered, Request
    <3> QED BY <1>1, <2>2, <3>1, <3>2, MoveOK DEF AfterInterns
  <2>3. CASE n.todo \cup n.ins = {} /\ n.by # "check"
    BY <1>1, <2>3, IdleOK, MoveOK DEF AfterInterns
  <2> QED BY <2>1, <2>2, <2>3
<1>2. CASE InternLook(p)
  <2>1. PICK m \in r.todo :
          req' = AfterInterns(p, [r EXCEPT !.todo = @ \ {m},
                   !.ins = IF intern[r.sub][m] = 0 THEN @ \cup {m} ELSE @])
    BY <1>2 DEF InternLook
  <2> DEFINE i == IF intern[r.sub][m] = 0 THEN r.ins \cup {m} ELSE r.ins
             n == [r EXCEPT !.todo = r.todo \ {m}, !.ins = i]
  <2>2. r.todo \ {m} \in SUBSET Members /\ i \in SUBSET Members
    BY <1>0 DEF Request
  <2>3. n \in Request
    BY <1>0, <2>2, TodoThenIns
  <2>4. n.at = "intern" /\ n.sub \in Subs
    BY <1>0, <1>2 DEF RequestOK, Request, InternLook
  <2> QED BY <1>1, <2>1, <2>3, <2>4
<1>3. CASE InternInsert(p)
  <2>1. PICK m \in r.ins : req' = AfterInterns(p, [r EXCEPT !.ins = @ \ {m}])
    BY <1>3 DEF InternInsert
  <2> DEFINE n == [r EXCEPT !.ins = r.ins \ {m}]
  <2>2. r.ins \ {m} \in SUBSET Members
    BY <1>0 DEF Request
  <2>3. n \in Request
    BY <1>0, <2>2 DEF Request
  <2>4. n.at = "intern" /\ n.sub \in Subs
    BY <1>0, <1>3 DEF RequestOK, Request, InternInsert
  <2> QED BY <1>1, <2>1, <2>3, <2>4
<1>4. CASE CheckSkips(p)
  <2> DEFINE n == [r EXCEPT !.at = "letter.number", !.todo = {}, !.ins = {}]
  <2>1. n \in Request
    BY <1>0 DEF Request, Places
  <2>2. RequestOK(n)
    BY <1>0, <1>4 DEF RequestOK, Numbered, Request, CheckSkips
  <2> QED BY <1>4, <2>1, <2>2, MoveOK DEF CheckSkips
<1>5. CASE CheckComplete(p)
  <2> DEFINE n == [r EXCEPT !.at = "intern", !.todo = Members]
  <2>1. n \in Request
    BY <1>0 DEF Request, Places
  <2>2. RequestOK(n)
    BY <1>0, <1>5 DEF RequestOK, Numbered, Request, CheckComplete
  <2>3. req' = [req EXCEPT ![p].at = "intern", ![p].todo = Members]
    BY <1>5 DEF CheckComplete
  <2>4. req' = [req EXCEPT ![p] = n]
    BY <2>3
  <2> QED BY <2>1, <2>2, <2>4, MoveOK
<1> QED BY <1>2, <1>3, <1>4, <1>5

LEMMA LetterSteps ==
  ASSUME RequestsOK, NEW p \in Requests,
         LetterNumber(p) \/ LetterLook(p) \/ LetterAdd(p) \/ LetterFinal(p)
  PROVE  RequestsOK'
<1> DEFINE r == req[p]
<1>0. r \in Request /\ RequestOK(r)
  BY DEF RequestsOK
<1>1. ASSUME NEW n \in Numbers, r.at # "idle", Finished(p, n)
      PROVE  RequestsOK'
  <2> DEFINE k == [r EXCEPT !.at = "dosen.write", !.number = n]
  <2>1. k \in Request
    BY <1>0 DEF Request, Places
  <2>2. RequestOK(k)
    BY <1>0, <1>1 DEF RequestOK, Numbered, Request
  <2>3. req' = [req EXCEPT ![p] = k] \/ Done(p)
    BY <1>1 DEF Finished
  <2> QED BY <2>1, <2>2, <2>3, MoveOK, DoneOK
<1>2. CASE LetterNumber(p)
  <2>1. PICK n \in Numbers :
          req' = [req EXCEPT ![p].at = "letter.look", ![p].number = n]
    BY <1>2 DEF LetterNumber
  <2> DEFINE k == [r EXCEPT !.at = "letter.look", !.number = n]
  <2>2. k \in Request
    BY <1>0 DEF Request, Places
  <2>3. RequestOK(k)
    BY <1>0, <1>2 DEF RequestOK, Numbered, Request, LetterNumber
  <2> QED BY <2>1, <2>2, <2>3, MoveOK
<1>3. CASE LetterLook(p)
  <2>1. r.number \in Numbers /\ r.at # "idle"
    BY <1>3, NumberKept DEF LetterLook, Numbered
  <2>2. CASE Goto(p, "letter.add")
    BY <2>1, <2>2, GotoOK DEF Places
  <2> QED BY <1>1, <1>3, <2>1, <2>2 DEF LetterLook, SignedOf, LettersOf
<1>4. CASE LetterAdd(p)
  <2>1. r.number \in Numbers /\ r.at # "idle"
    BY <1>4, NumberKept DEF LetterAdd, Numbered
  <2>2. Goto(p, "letter.final") \/ Done(p)
    BY <1>4 DEF LetterAdd
  <2> QED BY <2>1, <2>2, GotoOK, DoneOK DEF Places
<1>5. CASE LetterFinal(p)
  <2>1. r.number \in Numbers /\ r.at # "idle"
    BY <1>5, NumberKept DEF LetterFinal, Numbered
  <2> QED BY <1>1, <1>5, <2>1 DEF LetterFinal
<1> QED BY <1>2, <1>3, <1>4, <1>5

(* A client's call starts a request that remembers its submission and, for *)
(* an approval, its number.                                                *)
LEMMA Calls ==
  ASSUME RequestsOK, TablesOK, NEW p \in Requests, Call(p)
  PROVE  RequestsOK'
<1>1. ASSUME NEW x \in Subs, SubmitBegin(p, x) \/ RevertBegin(p, x) \/ DosenBegin(p, x)
      PROVE  RequestsOK'
  <2> DEFINE n(a) == [Idle EXCEPT !.at = a, !.sub = x]
             d == [Idle EXCEPT !.at = "letter.number", !.sub = x, !.by = "dosen"]
  <2>1. n("submit.write") \in Request /\ n("revert.write") \in Request /\ d \in Request
    BY DEF Idle, Request, Places, Data
  <2>2. RequestOK(n("submit.write")) /\ RequestOK(n("revert.write")) /\ RequestOK(d)
    BY DEF RequestOK, Numbered, Idle
  <2>3. CASE SubmitBegin(p, x)
    BY <2>1, <2>2, <2>3, MoveOK DEF SubmitBegin, Begin
  <2>4. CASE RevertBegin(p, x)
    BY <2>1, <2>2, <2>4, MoveOK DEF RevertBegin, Begin
  <2>5. CASE DosenBegin(p, x)
    BY <2>1, <2>2, <2>5, MoveOK DEF DosenBegin, Begin
  <2> QED BY <1>1, <2>3, <2>4, <2>5
<1>2. ASSUME NEW x \in Subs, NEW v \in Data, EditBegin(p, x, v)
      PROVE  RequestsOK'
  <2> DEFINE n == [Idle EXCEPT !.at = "edit.write", !.sub = x, !.data = v]
  <2>1. n \in Request
    BY DEF Idle, Request, Places
  <2>2. RequestOK(n)
    BY DEF RequestOK, Numbered, Idle
  <2> QED BY <1>2, <2>1, <2>2, MoveOK DEF EditBegin, Begin
<1>3. ASSUME NEW x \in Subs, NEW s \in Slots, UploadBegin(p, x, s)
      PROVE  RequestsOK'
  <2> DEFINE n == [Idle EXCEPT !.at = "upload.look", !.sub = x, !.slot = s]
  <2>1. n \in Request
    BY DEF Idle, Request, Places, Data
  <2>2. RequestOK(n)
    BY DEF RequestOK, Numbered, Idle
  <2> QED BY <1>3, <2>1, <2>2, MoveOK DEF UploadBegin, Begin
<1>4. ASSUME NEW x \in Subs, NEW a \in Admins, NEW ok \in BOOLEAN,
             NEW n \in Numbers \cup {None}, NEW D \in SUBSET DocsOf(x),
             ReviewBegin(p, x, a, ok, n, D)
      PROVE  RequestsOK'
  <2> DEFINE at == IF D = {} THEN "reject.letters" ELSE "review.doc"
             r == [Idle EXCEPT !.sub = x, !.slot = a, !.ok = ok, !.number = n,
                               !.docs = D, !.at = at]
  <2>1. r \in Request
    <3>1. at \in Places /\ D \in SUBSET DocIds
      BY DEF Places, DocsOf
    <3>2. r = [Idle EXCEPT !.at = at, !.sub = x, !.ok = ok, !.slot = a, !.docs = D,
                           !.number = n]
      OBVIOUS
    <3> QED BY <3>1, <3>2 DEF Idle, Request, Data
  <2>2. RequestOK(r)
    BY <1>4 DEF RequestOK, Numbered, Idle, ReviewBegin
  <2> QED BY <1>4, <2>1, <2>2, MoveOK DEF ReviewBegin, Begin
<1>5. ASSUME NEW x \in Subs, NEW n \in Numbers, GenerateBegin(p, x, n)
      PROVE  RequestsOK'
  <2> DEFINE r == [Idle EXCEPT !.at = "generate.check", !.sub = x, !.number = n]
  <2>1. r \in Request
    BY DEF Idle, Request, Places, Data
  <2>2. RequestOK(r)
    BY DEF RequestOK, Numbered, Idle
  <2> QED BY <1>5, <2>1, <2>2, MoveOK DEF GenerateBegin, Begin
<1>6. ASSUME NEW x \in Subs, NEW ok \in BOOLEAN, AnswerBegin(p, x, ok)
      PROVE  RequestsOK'
  <2> DEFINE r == [Idle EXCEPT !.at = "answer.insert", !.sub = x, !.ok = ok]
  <2>1. r \in Request
    BY DEF Idle, Request, Places, Data
  <2>2. RequestOK(r)
    BY DEF RequestOK, Numbered, Idle
  <2> QED BY <1>6, <2>1, <2>2, MoveOK DEF AnswerBegin, Begin
<1>7. ASSUME NEW d \in DocIds, RemoveDocBegin(p, d)
      PROVE  RequestsOK'
  <2> DEFINE at == IF doc[d].state = "REJECTED" THEN "doc.delete" ELSE "doc.check"
             r == [Idle EXCEPT !.sub = doc[d].sub, !.doc = d, !.at = at]
  <2>1. doc[d].sub \in Subs
    BY <1>7 DEF TablesOK, DocsOK, DocRow, RemoveDocBegin
  <2>2. r \in Request
    BY <2>1 DEF Idle, Request, Places, Data
  <2>3. RequestOK(r)
    BY <2>1 DEF RequestOK, Numbered, Idle
  <2> QED BY <1>7, <2>2, <2>3, MoveOK DEF RemoveDocBegin, Begin
<1>8. ASSUME NEW k \in RespIds, RemoveBegin(p, k)
      PROVE  RequestsOK'
  <2> DEFINE r == [Idle EXCEPT !.at = "remove.row", !.resp = k, !.sub = resp[k].sub]
  <2>1. resp[k].sub \in Subs
    BY <1>8 DEF TablesOK, RespsOK, RespRow, RemoveBegin
  <2>2. r \in Request
    BY <2>1 DEF Idle, Request, Places, Data
  <2>3. RequestOK(r)
    BY <2>1 DEF RequestOK, Numbered, Idle
  <2> QED BY <1>8, <2>2, <2>3, MoveOK DEF RemoveBegin, Begin
<1>9. ASSUME NEW k \in RespIds, NEW ok \in BOOLEAN, CheckBegin(p, k, ok)
      PROVE  RequestsOK'
  <2> DEFINE r == [Idle EXCEPT !.at = "check.verify", !.resp = k, !.ok = ok,
                               !.sub = resp[k].sub, !.by = "check"]
  <2>1. resp[k].sub \in Subs
    BY <1>9 DEF TablesOK, RespsOK, RespRow, CheckBegin
  <2>2. r \in Request
    BY <2>1 DEF Idle, Request, Places, Data
  <2>3. RequestOK(r)
    BY <2>1 DEF RequestOK, Numbered, Idle
  <2> QED BY <1>9, <2>2, <2>3, MoveOK DEF CheckBegin, Begin
<1> QED BY <1>1, <1>2, <1>3, <1>4, <1>5, <1>6, <1>7, <1>8, <1>9 DEF Call, FormCall, DocumentCall, AdminCall, AnswerCall, VerifyCall

-----------------------------------------------------------------------------
(* How a step may change one submission.                                   *)

(* What each write makes of a row.                                         *)
LEMMA Words ==
  /\ {"DRAFT", "PENDING_REVIEW", "APPROVED"} \subseteq Status
  /\ {"DRAFT", "PENDING_ADMIN_REVIEW", "PENDING_DOSEN_VERIFICATION", "REJECTED_ADMIN",
      "COMPLETED"} \subseteq Stage
  /\ {"PENDING", "APPROVED", "REJECTED"} \subseteq Verdict
BY DEF Status, Stage, Verdict

LEMMA SubmittedRow ==
  ASSUME NEW s \in SubRow
  PROVE  Submitted(s) \in SubRow
BY Words DEF SubRow, Submitted

LEMMA RevertedRow ==
  ASSUME NEW s \in SubRow
  PROVE  Reverted(s) \in SubRow
BY Words DEF SubRow, Reverted

LEMMA RejectedRow ==
  ASSUME NEW s \in SubRow
  PROVE  Rejected(s) \in SubRow
BY Words DEF SubRow, Rejected

LEMMA ApprovedRow ==
  ASSUME NEW s \in SubRow, NEW n \in Numbers
  PROVE  Approved(s, n) \in SubRow
BY Words DEF SubRow, Approved

LEMMA CompletedRow ==
  ASSUME NEW s \in SubRow, NEW n \in Numbers
  PROVE  Completed(s, n) \in SubRow
BY Words DEF SubRow, Completed

(* The form is none of the reviewers' business.                            *)
LEMMA WritesKeepData ==
  ASSUME NEW s \in SubRow
  PROVE  /\ Submitted(s).data = s.data /\ Reverted(s).data = s.data
         /\ Rejected(s).data = s.data
         /\ \A n : Approved(s, n).data = s.data /\ Completed(s, n).data = s.data
<1>1. Submitted(s).data = s.data
  BY DEF SubRow, Submitted
<1>2. Reverted(s).data = s.data
  BY DEF SubRow, Reverted
<1>3. Rejected(s).data = s.data
  BY DEF SubRow, Rejected
<1>4. ASSUME NEW n PROVE Approved(s, n).data = s.data
  BY DEF SubRow, Approved
<1>5. ASSUME NEW n PROVE Completed(s, n).data = s.data
  BY DEF SubRow, Completed
<1> QED BY <1>1, <1>2, <1>3, <1>4, <1>5

LEMMA RowChange ==
  ASSUME RowsOK, NEW x \in Subs, NEW s \in SubRow, RowOK(s),
         sub' = [sub EXCEPT ![x] = s]
  PROVE  RowsOK'
BY DEF RowsOK, RowOK

LEMMA RowKept ==
  ASSUME RowsOK, UNCHANGED sub
  PROVE  RowsOK'
BY DEF RowsOK, RowOK

(* The submission a request in flight is about.                            *)
LEMMA SubOf ==
  ASSUME RequestsOK, NEW p \in Requests, req[p].at # "idle"
  PROVE  req[p].sub \in Subs
BY DEF RequestsOK, RequestOK

(* The leader's writes: the form, the submission and its withdrawal.       *)
LEMMA LeaderRows ==
  ASSUME RequestsOK, RowsOK, NEW p \in Requests,
         EditWrite(p) \/ SubmitWrite(p) \/ RevertWrite(p)
  PROVE  RowsOK'
<1> DEFINE x == req[p].sub
           s == sub[x]
<1>0. req[p] \in Request
  BY DEF RequestsOK
<1>1. x \in Subs
  BY SubOf DEF EditWrite, SubmitWrite, RevertWrite
<1>2. s \in SubRow /\ RowOK(s)
  BY <1>1 DEF RowsOK
<1>3. CASE EditWrite(p)
  <2> DEFINE n == [s EXCEPT !.data = req[p].data]
  <2>1. n \in SubRow
    BY <1>0, <1>2 DEF SubRow, Request
  <2>2. RowOK(n)
    BY <1>2 DEF RowOK, SubRow
  <2>3. sub' = [sub EXCEPT ![x] = n]
    BY <1>3 DEF EditWrite
  <2> QED BY <1>1, <2>1, <2>2, <2>3, RowChange
<1>4. CASE SubmitWrite(p)
  <2>1. Submitted(s) \in SubRow
    BY <1>2, SubmittedRow
  <2>2. RowOK(Submitted(s))
    BY <1>2 DEF RowOK, SubRow, Submitted
  <2>3. sub' = [sub EXCEPT ![x] = Submitted(s)]
    BY <1>4 DEF SubmitWrite
  <2> QED BY <1>1, <2>1, <2>2, <2>3, RowChange
<1>5. CASE RevertWrite(p)
  <2>1. Reverted(s) \in SubRow
    BY <1>2, RevertedRow
  <2>2. RowOK(Reverted(s))
    BY <1>2 DEF RowOK, SubRow, Reverted
  <2>3. sub' = [sub EXCEPT ![x] = Reverted(s)]
    BY <1>5 DEF RevertWrite
  <2> QED BY <1>1, <2>1, <2>2, <2>3, RowChange
<1> QED BY <1>3, <1>4, <1>5

(* The admin's verdicts.                                                   *)
LEMMA AdminRows ==
  ASSUME RequestsOK, RowsOK, NEW p \in Requests, ApproveWrite(p) \/ RejectWrite(p)
  PROVE  RowsOK'
<1> DEFINE x == req[p].sub
           s == sub[x]
<1>1. x \in Subs
  BY SubOf DEF ApproveWrite, RejectWrite
<1>2. s \in SubRow /\ RowOK(s)
  BY <1>1 DEF RowsOK
<1>3. CASE ApproveWrite(p)
  <2> DEFINE n == req[p].number
  <2>1. n \in Numbers /\ n # None
    BY <1>3, NumberKept, ConstantsAssumption DEF ApproveWrite, Numbered
  <2>2. Approved(s, n) \in SubRow
    BY <1>2, <2>1, ApprovedRow
  <2>3. RowOK(Approved(s, n))
    BY <1>2, <2>1 DEF RowOK, SubRow, Approved
  <2>4. UNCHANGED sub \/ sub' = [sub EXCEPT ![x] = Approved(s, n)]
    BY <1>3 DEF ApproveWrite
  <2> QED BY <1>1, <2>2, <2>3, <2>4, RowChange, RowKept
<1>4. CASE RejectWrite(p)
  <2>1. Rejected(s) \in SubRow
    BY <1>2, RejectedRow
  <2>2. RowOK(Rejected(s))
    BY <1>2 DEF RowOK, SubRow, Rejected
  <2>3. sub' = [sub EXCEPT ![x] = Rejected(s)]
    BY <1>4 DEF RejectWrite
  <2> QED BY <1>1, <2>1, <2>2, <2>3, RowChange
<1> QED BY <1>3, <1>4

(* The dosen's verdicts and the letter that goes with an approval.         *)
LEMMA DosenRows ==
  ASSUME RequestsOK, RowsOK, NEW p \in Requests, LetterFinal(p) \/ DosenWrite(p)
  PROVE  RowsOK'
<1> DEFINE x == req[p].sub
           s == sub[x]
           n == req[p].number
<1>1. x \in Subs /\ n \in Numbers /\ n # None
  BY SubOf, NumberKept, ConstantsAssumption DEF LetterFinal, DosenWrite, Numbered
<1>2. s \in SubRow /\ RowOK(s)
  BY <1>1 DEF RowsOK
<1>3. CASE LetterFinal(p)
  <2> DEFINE k == [s EXCEPT !.final = n]
  <2>1. k \in SubRow
    BY <1>1, <1>2 DEF SubRow
  <2>2. RowOK(k)
    BY <1>1, <1>2 DEF RowOK, SubRow
  <2>3. sub' = [sub EXCEPT ![x] = k]
    BY <1>3 DEF LetterFinal
  <2> QED BY <1>1, <2>1, <2>2, <2>3, RowChange
<1>4. CASE DosenWrite(p)
  <2>1. Completed(s, n) \in SubRow
    BY <1>1, <1>2, CompletedRow
  <2>2. RowOK(Completed(s, n))
    BY <1>1, <1>2 DEF RowOK, SubRow, Completed
  <2>3. sub' = [sub EXCEPT ![x] = Completed(s, n)]
    BY <1>4 DEF DosenWrite
  <2> QED BY <1>1, <2>1, <2>2, <2>3, RowChange
<1> QED BY <1>3, <1>4

LEMMA RefusedRow ==
  ASSUME RowsOK, NEW x \in Subs, DosenRejects(x)
  PROVE  RowsOK'
<1> DEFINE s == sub[x]
           n == [s EXCEPT !.stage = "REJECTED_DOSEN", !.dosen = "REJECTED"]
<1>1. s \in SubRow /\ RowOK(s)
  BY DEF RowsOK
<1>2. n \in SubRow
  BY <1>1 DEF SubRow, Stage, Verdict
<1>3. RowOK(n)
  BY <1>1 DEF RowOK, SubRow
<1>4. sub' = [sub EXCEPT ![x] = n]
  BY DEF DosenRejects
<1> QED BY <1>2, <1>3, <1>4, RowChange

(* The response letter's marks.                                            *)
LEMMA AnswerRows ==
  ASSUME RequestsOK, RowsOK, NEW p \in Requests,
         AnswerMark(p) \/ CheckMark(p) \/ RemoveMark(p) \/ CheckComplete(p)
  PROVE  RowsOK'
<1> DEFINE x == req[p].sub
           s == sub[x]
<1>1. x \in Subs
  BY SubOf DEF AnswerMark, CheckMark, RemoveMark, CheckComplete
<1>2. s \in SubRow /\ RowOK(s)
  BY <1>1 DEF RowsOK
<1>3. CASE AnswerMark(p) \/ CheckMark(p) \/ RemoveMark(p)
  <2>1. PICK a \in {"pending", "submitted", "verified"} : MarkAnswer(p, a)
    BY <1>3 DEF AnswerMark, CheckMark, RemoveMark
  <2> DEFINE n == [s EXCEPT !.answer = a]
  <2>2. n \in SubRow
    BY <1>2 DEF SubRow
  <2>3. RowOK(n)
    BY <1>2 DEF RowOK, SubRow
  <2>4. sub' = [sub EXCEPT ![x] = n]
    BY <2>1 DEF MarkAnswer
  <2> QED BY <1>1, <2>2, <2>3, <2>4, RowChange
<1>4. CASE CheckComplete(p)
  <2> DEFINE n == [s EXCEPT !.status = "APPROVED", !.stage = "COMPLETED"]
  <2>1. n \in SubRow
    BY <1>2 DEF SubRow, Status, Stage
  <2>2. RowOK(n)
    BY <1>2 DEF RowOK, SubRow
  <2>3. sub' = [sub EXCEPT ![x].status = "APPROVED", ![x].stage = "COMPLETED"]
    BY <1>4 DEF CheckComplete
  <2>4. sub' = [sub EXCEPT ![x] = n]
    BY <2>3
  <2> QED BY <1>1, <2>1, <2>2, <2>4, RowChange
<1> QED BY <1>3, <1>4

-----------------------------------------------------------------------------
(* The other tables.                                                       *)

LEMMA InsertDocOK ==
  ASSUME DocsOK, NEW x \in Subs, NEW s \in Slots \cup Admins \cup {None}, InsertDoc(x, s)
  PROVE  DocsOK'
<1> DEFINE r == [state |-> "PENDING", sub |-> x, slot |-> s]
<1>1. PICK d \in FreshDocs : doc' = [doc EXCEPT ![d] = r]
  BY DEF InsertDoc
<1>2. r \in DocRow
  BY DEF DocRow, Verdict
<1> QED BY <1>1, <1>2 DEF DocsOK, FreshDocs

LEMMA DropDocOK ==
  ASSUME DocsOK, NEW d, doc' = [doc EXCEPT ![d] = NoDoc]
  PROVE  DocsOK'
<1>1. NoDoc \in DocRow /\ NoDoc.state = "none"
  BY DEF NoDoc, DocRow
<1> QED BY <1>1 DEF DocsOK

LEMMA DocStep ==
  ASSUME RequestsOK, DocsOK, NEW p \in Requests,
         \/ UploadDrop(p) \/ UploadInsert(p) \/ RemoveDocDelete(p)
         \/ ReviewDoc(p) \/ ApproveInsert(p) \/ RejectCovers(p)
  PROVE  DocsOK'
<1>1. CASE UploadDrop(p)
  BY <1>1, DropDocOK DEF UploadDrop
<1>2. CASE UploadInsert(p)
  <2>1. CASE UNCHANGED doc
    BY <2>1 DEF DocsOK
  <2>2. req[p].sub \in Subs /\ req[p].slot \in Slots \cup Admins \cup {None}
    BY <1>2, SubOf DEF UploadInsert, RequestsOK, Request
  <2> QED BY <1>2, <2>1, <2>2, InsertDocOK DEF UploadInsert
<1>3. CASE RemoveDocDelete(p)
  BY <1>3, DropDocOK DEF RemoveDocDelete
<1>4. CASE ReviewDoc(p)
  <2>1. PICK d \in req[p].docs, v \in {"APPROVED", "REJECTED"} :
          doc' = IF doc[d].state = "none" THEN doc ELSE [doc EXCEPT ![d].state = v]
    BY <1>4 DEF ReviewDoc
  <2>2. d \in DocIds
    BY <2>1 DEF RequestsOK, Request
  <2> DEFINE n == [doc[d] EXCEPT !.state = v]
  <2>3. n \in DocRow /\ (doc[d].state # "none" => n.sub \in Subs)
    BY <2>1, <2>2 DEF DocsOK, DocRow, Verdict
  <2> QED BY <2>1, <2>2, <2>3 DEF DocsOK
<1>5. CASE ApproveInsert(p)
  <2>1. CASE UNCHANGED doc
    BY <2>1 DEF DocsOK
  <2>2. req[p].sub \in Subs /\ req[p].slot \in Slots \cup Admins \cup {None}
    BY <1>5, SubOf DEF ApproveInsert, RequestsOK, Request
  <2> QED BY <1>5, <2>1, <2>2, InsertDocOK DEF ApproveInsert
<1>6. CASE RejectCovers(p)
  <2>1. PICK d \in req[p].docs : doc' = [doc EXCEPT ![d] = NoDoc]
    BY <1>6 DEF RejectCovers
  <2> QED BY <2>1, DropDocOK
<1> QED BY <1>1, <1>2, <1>3, <1>4, <1>5, <1>6

LEMMA LetterStep ==
  ASSUME RequestsOK, letter \in [Numbers -> LetterRow], NEW p \in Requests,
         RejectLetters(p) \/ LetterAdd(p) \/ GenerateAdd(p)
  PROVE  letter' \in [Numbers -> LetterRow]
<1>1. NoLetter \in LetterRow
  BY DEF NoLetter, LetterRow
<1>2. CASE RejectLetters(p)
  BY <1>1, <1>2 DEF RejectLetters
<1>3. req[p].at # "idle" => \A b \in BOOLEAN : [sub |-> req[p].sub, signed |-> b] \in LetterRow
  BY SubOf DEF LetterRow
<1>4. CASE LetterAdd(p)
  BY <1>3, <1>4 DEF LetterAdd
<1>5. CASE GenerateAdd(p)
  BY <1>3, <1>5 DEF GenerateAdd
<1> QED BY <1>2, <1>4, <1>5

LEMMA RespStep ==
  ASSUME RequestsOK, RespsOK, NEW p \in Requests,
         AnswerInsert(p) \/ CheckVerify(p) \/ CheckStatus(p) \/ RemoveRow(p)
  PROVE  RespsOK'
<1>0. req[p] \in Request /\ req[p].sub \in Subs
  BY SubOf DEF RequestsOK, AnswerInsert, CheckVerify, CheckStatus, RemoveRow
<1> DEFINE k == req[p].resp
           n == [state |-> "new", sub |-> req[p].sub, ok |-> req[p].ok]
<1>1. CASE AnswerInsert(p)
  <2>1. PICK i \in FreshResp : resp' = [resp EXCEPT ![i] = n]
    BY <1>1 DEF AnswerInsert
  <2>2. n \in RespRow
    BY <1>0 DEF RespRow, Request
  <2> QED BY <1>0, <2>1, <2>2 DEF RespsOK, FreshResp
<1>2. CASE CheckVerify(p)
  <2>1. resp' = resp \/ (resp[k].state # "none" /\ resp' = [resp EXCEPT ![k].state = "verified"])
    BY <1>2 DEF CheckVerify
  <2>2. ASSUME NEW i \in RespIds, resp[i].state # "none"
        PROVE  [resp[i] EXCEPT !.state = "verified"] \in RespRow
    BY DEF RespsOK, RespRow
  <2> QED BY <2>1, <2>2 DEF RespsOK, RespRow
<1>3. CASE CheckStatus(p)
  <2>1. resp' = resp \/ (resp[k].state # "none" /\ resp' = [resp EXCEPT ![k].ok = req[p].ok])
    BY <1>3 DEF CheckStatus
  <2> QED BY <1>0, <2>1 DEF RespsOK, RespRow, Request
<1>4. CASE RemoveRow(p)
  <2>1. NoResp \in RespRow /\ NoResp.state = "none"
    BY DEF NoResp, RespRow
  <2> QED BY <1>4, <2>1 DEF RemoveRow, RespsOK
<1> QED BY <1>1, <1>2, <1>3, <1>4

LEMMA InternStep ==
  ASSUME RequestsOK, intern \in [Subs -> [Members -> Nat]], NEW p \in Requests,
         InternInsert(p)
  PROVE  intern' \in [Subs -> [Members -> Nat]]
<1>1. PICK m \in req[p].ins : intern' = [intern EXCEPT ![req[p].sub][m] = @ + 1]
  BY DEF InternInsert
<1>2. req[p].sub \in Subs /\ m \in Members
  BY SubOf DEF InternInsert, RequestsOK, Request
<1> QED BY <1>1, <1>2

LEMMA FailedStep ==
  ASSUME RequestsOK, failed \in SUBSET Subs, NEW p \in Requests,
         InternLook(p) \/ InternInsert(p) \/ CheckSkips(p) \/ Die(p)
  PROVE  failed' \in SUBSET Subs
<1>1. req[p].sub \in Subs
  BY SubOf DEF InternLook, InternInsert, CheckSkips, Die
<1>2. CASE InternLook(p)
  BY <1>2 DEF InternLook, Ensured
<1>3. CASE InternInsert(p)
  BY <1>3 DEF InternInsert, Ensured
<1>4. CASE CheckSkips(p) \/ Die(p)
  BY <1>1, <1>4 DEF CheckSkips, Die
<1> QED BY <1>2, <1>3, <1>4

(* No step changes a row of a table but as the lemmas above say.           *)
LEMMA StepRows ==
  ASSUME RequestsOK, RowsOK, NEW p \in Requests, Step(p) \/ Die(p) \/ Call(p)
  PROVE  RowsOK'
<1>1. CASE \/ EditWrite(p) \/ SubmitWrite(p) \/ RevertWrite(p)
           \/ ApproveWrite(p) \/ RejectWrite(p) \/ LetterFinal(p) \/ DosenWrite(p)
           \/ AnswerMark(p) \/ CheckMark(p) \/ RemoveMark(p) \/ CheckComplete(p)
  BY <1>1, LeaderRows, AdminRows, DosenRows, AnswerRows
<1>2. CASE \/ UploadLook(p) \/ UploadDrop(p) \/ UploadInsert(p)
           \/ RemoveDocCheck(p) \/ RemoveDocDelete(p)
           \/ ReviewDoc(p) \/ ApproveCheck(p) \/ ApproveCover(p) \/ ApproveInsert(p)
           \/ RejectLetters(p) \/ RejectLook(p) \/ RejectCovers(p) \/ RejectSkips(p)
           \/ InternLook(p) \/ InternInsert(p) \/ LetterNumber(p) \/ LetterLook(p)
           \/ LetterAdd(p) \/ GenerateCheck(p) \/ GenerateAdd(p)
           \/ AnswerInsert(p) \/ CheckVerify(p) \/ CheckStatus(p) \/ CheckSkips(p)
           \/ RemoveRow(p) \/ Die(p)
  <2>1. UNCHANGED sub
    BY <1>2 DEF UploadLook, UploadDrop, UploadInsert, RemoveDocCheck, RemoveDocDelete,
       ReviewDoc, ApproveCheck, ApproveCover, ApproveInsert, RejectLetters, RejectLook,
       RejectCovers, RejectSkips, InternLook, InternInsert, LetterNumber, LetterLook,
       LetterAdd, GenerateCheck, GenerateAdd, AnswerInsert, CheckVerify, CheckStatus,
       CheckSkips, RemoveRow, Die, tables
  <2> QED BY <2>1, RowKept
<1>3. CASE Call(p)
  <2>1. UNCHANGED sub
    BY <1>3 DEF Call, FormCall, DocumentCall, AdminCall, AnswerCall, VerifyCall,
         SubmitBegin, RevertBegin, DosenBegin, EditBegin, UploadBegin,
       ReviewBegin, GenerateBegin, AnswerBegin, RemoveDocBegin, RemoveBegin, CheckBegin,
       tables
  <2> QED BY <2>1, RowKept
<1> QED BY <1>1, <1>2, <1>3 DEF Step

LEMMA StepRequests ==
  ASSUME RequestsOK, TablesOK, NEW p \in Requests, Step(p) \/ Die(p) \/ Call(p)
  PROVE  RequestsOK'
BY SimpleSteps, ReviewSteps, InternSteps, LetterSteps, Calls DEF Step

LEMMA StepTables ==
  ASSUME RequestsOK, TablesOK, NEW p \in Requests, Step(p) \/ Die(p) \/ Call(p)
  PROVE  TablesOK'
<1>1. DocsOK'
  <2>1. CASE \/ UploadDrop(p) \/ UploadInsert(p) \/ RemoveDocDelete(p)
             \/ ReviewDoc(p) \/ ApproveInsert(p) \/ RejectCovers(p)
    BY <2>1, DocStep DEF TablesOK
  <2>2. CASE UNCHANGED doc
    BY <2>2 DEF TablesOK, DocsOK
  <2>3. CASE Call(p)
    BY <2>3, <2>2 DEF Call, FormCall, DocumentCall, AdminCall, AnswerCall, VerifyCall,
         SubmitBegin, RevertBegin, DosenBegin, EditBegin, UploadBegin,
       ReviewBegin, GenerateBegin, AnswerBegin, RemoveDocBegin, RemoveBegin, CheckBegin,
       tables
  <2> QED
    BY <2>1, <2>2, <2>3 DEF Step, Die, tables, EditWrite, SubmitWrite, RevertWrite,
       UploadLook, RemoveDocCheck, ApproveCheck, ApproveCover, ApproveWrite,
       RejectLetters, RejectLook, RejectSkips, RejectWrite, InternLook, InternInsert,
       LetterNumber, LetterLook, LetterAdd, LetterFinal, DosenWrite, GenerateCheck,
       GenerateAdd, AnswerInsert, AnswerMark, CheckVerify, CheckStatus, CheckMark,
       CheckComplete, CheckSkips, RemoveRow, RemoveMark
<1>2. RespsOK'
  <2>1. CASE AnswerInsert(p) \/ CheckVerify(p) \/ CheckStatus(p) \/ RemoveRow(p)
    BY <2>1, RespStep DEF TablesOK
  <2>2. CASE UNCHANGED resp
    BY <2>2 DEF TablesOK, RespsOK
  <2>3. CASE Call(p)
    BY <2>3, <2>2 DEF Call, FormCall, DocumentCall, AdminCall, AnswerCall, VerifyCall,
         SubmitBegin, RevertBegin, DosenBegin, EditBegin, UploadBegin,
       ReviewBegin, GenerateBegin, AnswerBegin, RemoveDocBegin, RemoveBegin, CheckBegin,
       tables
  <2> QED
    BY <2>1, <2>2, <2>3 DEF Step, Die, tables, EditWrite, SubmitWrite, RevertWrite,
       UploadLook, UploadDrop, UploadInsert, RemoveDocCheck, RemoveDocDelete, ReviewDoc,
       ApproveCheck, ApproveCover, ApproveInsert, ApproveWrite, RejectLetters,
       RejectLook, RejectCovers, RejectSkips, RejectWrite, InternLook, InternInsert,
       LetterNumber, LetterLook, LetterAdd, LetterFinal, DosenWrite, GenerateCheck,
       GenerateAdd, AnswerMark, CheckMark, CheckComplete, CheckSkips, RemoveMark
<1>3. letter' \in [Numbers -> LetterRow]
  <2>1. CASE RejectLetters(p) \/ LetterAdd(p) \/ GenerateAdd(p)
    BY <2>1, LetterStep DEF TablesOK
  <2>2. CASE UNCHANGED letter
    BY <2>2 DEF TablesOK
  <2>3. CASE Call(p)
    BY <2>3, <2>2 DEF Call, FormCall, DocumentCall, AdminCall, AnswerCall, VerifyCall,
         SubmitBegin, RevertBegin, DosenBegin, EditBegin, UploadBegin,
       ReviewBegin, GenerateBegin, AnswerBegin, RemoveDocBegin, RemoveBegin, CheckBegin,
       tables
  <2> QED
    BY <2>1, <2>2, <2>3 DEF Step, Die, tables, EditWrite, SubmitWrite, RevertWrite,
       UploadLook, UploadDrop, UploadInsert, RemoveDocCheck, RemoveDocDelete, ReviewDoc,
       ApproveCheck, ApproveCover, ApproveInsert, ApproveWrite, RejectLook,
       RejectCovers, RejectSkips, RejectWrite, InternLook, InternInsert, LetterNumber,
       LetterLook, LetterFinal, DosenWrite, GenerateCheck, AnswerInsert, AnswerMark,
       CheckVerify, CheckStatus, CheckMark, CheckComplete, CheckSkips, RemoveRow,
       RemoveMark
<1>4. intern' \in [Subs -> [Members -> Nat]] /\ failed' \in SUBSET Subs
  <2>1. CASE InternInsert(p)
    BY <2>1, InternStep, FailedStep DEF TablesOK
  <2>2. CASE InternLook(p) \/ CheckSkips(p) \/ Die(p)
    BY <2>2, FailedStep DEF TablesOK, InternLook, CheckSkips, Die, tables
  <2>3. CASE UNCHANGED <<intern, failed>>
    BY <2>3 DEF TablesOK
  <2>4. CASE Call(p)
    BY <2>3, <2>4 DEF Call, FormCall, DocumentCall, AdminCall, AnswerCall, VerifyCall,
         SubmitBegin, RevertBegin, DosenBegin, EditBegin, UploadBegin,
       ReviewBegin, GenerateBegin, AnswerBegin, RemoveDocBegin, RemoveBegin, CheckBegin,
       tables
  <2> QED
    BY <2>1, <2>2, <2>3, <2>4 DEF Step, tables, EditWrite, SubmitWrite, RevertWrite,
       UploadLook, UploadDrop, UploadInsert, RemoveDocCheck, RemoveDocDelete, ReviewDoc,
       ApproveCheck, ApproveCover, ApproveInsert, ApproveWrite, RejectLetters,
       RejectLook, RejectCovers, RejectSkips, RejectWrite, LetterNumber, LetterLook,
       LetterAdd, LetterFinal, DosenWrite, GenerateCheck, GenerateAdd, AnswerInsert,
       AnswerMark, CheckVerify, CheckStatus, CheckMark, CheckComplete, RemoveRow,
       RemoveMark
<1> QED BY <1>1, <1>2, <1>3, <1>4 DEF TablesOK

-----------------------------------------------------------------------------
(* The invariant and what follows from it.                                 *)

LEMMA InitInv == Init => Inv
<1> SUFFICES ASSUME Init PROVE Inv
  OBVIOUS
<1>1. RequestsOK
  BY IdleOK DEF Init, RequestsOK
<1>2. RowsOK
  <2>1. Draft \in SubRow /\ RowOK(Draft)
    BY DEF Draft, SubRow, RowOK, Status, Stage, Verdict, Data
  <2> QED BY <2>1 DEF Init, RowsOK
<1>3. TablesOK
  <2>1. NoDoc \in DocRow /\ NoDoc.state = "none"
    BY DEF NoDoc, DocRow
  <2>2. NoResp \in RespRow /\ NoResp.state = "none"
    BY DEF NoResp, RespRow
  <2>3. NoLetter \in LetterRow
    BY DEF NoLetter, LetterRow
  <2> QED BY <2>1, <2>2, <2>3 DEF Init, TablesOK, DocsOK, RespsOK
<1> QED BY <1>1, <1>2, <1>3 DEF Inv

LEMMA NextInv == Inv /\ [Next]_vars => Inv'
<1> SUFFICES ASSUME Inv, [Next]_vars PROVE Inv'
  OBVIOUS
<1>1. ASSUME NEW p \in Requests, Step(p) \/ Die(p) \/ Call(p)
      PROVE  Inv'
  BY <1>1, StepRequests, StepRows, StepTables DEF Inv
<1>2. ASSUME NEW x \in Subs, DosenRejects(x)
      PROVE  Inv'
  <2>1. UNCHANGED <<doc, letter, resp, intern, req, failed>>
    BY <1>2 DEF DosenRejects
  <2>2. RequestsOK' /\ TablesOK'
    BY <2>1 DEF Inv, RequestsOK, RequestOK, TablesOK, DocsOK, RespsOK
  <2> QED BY <1>2, <2>2, RefusedRow DEF Inv
<1>3. CASE UNCHANGED vars
  BY <1>3 DEF vars, Inv, RequestsOK, RequestOK, RowsOK, RowOK, TablesOK, DocsOK, RespsOK
<1> QED BY <1>1, <1>2, <1>3 DEF Next

LEMMA Invariance == Spec => []Inv
BY InitInv, NextInv, PTL DEF Spec

(* Every table and every request in flight keeps its shape.                *)
THEOREM TypeCorrect == Spec => []TypeOK
<1>1. Inv => TypeOK
  BY DEF Inv, RequestsOK, RowsOK, TablesOK, DocsOK, RespsOK, TypeOK
<1> QED BY <1>1, Invariance, PTL

(* Whatever requests of the leader, the admin, the dosen and the response  *)
(* letter's desk overlap, the columns of a submission tell one story.      *)
THEOREM VerdictsAlwaysAgree == Spec => []VerdictsAgree
<1>1. Inv => VerdictsAgree
  BY DEF Inv, RowsOK, RowOK, VerdictsAgree
<1> QED BY <1>1, Invariance, PTL

(* A submission the dosen approved is completed and has its final letter.  *)
THEOREM ApprovalHasLetter == Spec => []DosenApprovalHasLetter
<1>1. Inv => DosenApprovalHasLetter
  BY DEF Inv, RowsOK, RowOK, DosenApprovalHasLetter
<1> QED BY <1>1, Invariance, PTL

(* Each view reads the columns its own way: the student's card, the        *)
(* admin's tabs, the dosen's queue and the archive nevertheless agree on   *)
(* every submission, whatever writes overlapped.                           *)
THEOREM ViewsAlwaysAgree == Spec => []ViewsAgree
<1>1. ASSUME NEW s \in SubRow, RowOK(s)
      PROVE  /\ StatusPengajuan(s) = "draft" => Bucket(s) \in {"DRAFT", "REJECTED"}
             /\ StatusPengajuan(s) = "pending_review" <=> Bucket(s) = "PENDING_REVIEW"
             /\ StatusPengajuan(s) = "approved" <=> Bucket(s) = "APPROVED"
             /\ StatusPengajuan(s) = "rejected" => Bucket(s) = "REJECTED"
             /\ s.stage = "PENDING_DOSEN_VERIFICATION" =>
                  StatusPengajuan(s) = "pending_review" /\ AdminSeen(s) = "APPROVED"
             /\ StudentFile(s) # None =>
                  s.stage = "COMPLETED" /\ StatusPengajuan(s) = "approved"
  <2>1. s.stage \in Stage /\ s.status \in Status
    BY DEF SubRow
  <2>2. StudentFile(s) # None => s.stage = "COMPLETED"
    BY <1>1 DEF StudentFile, RowOK
  <2> QED BY <1>1, <2>1, <2>2 DEF RowOK, StatusPengajuan, Bucket, AdminSeen, Stage, Status
<1>2. Inv => ViewsAgree
  BY <1>1 DEF Inv, RowsOK, ViewsAgree, Queue, Archive
<1> QED BY <1>2, Invariance, PTL

-----------------------------------------------------------------------------
(* The internships.  A request that creates them still has every accepted  *)
(* member without one on its list; a submission past the admin is covered: *)
(* its members have internships, or a request is creating them, or one was *)
(* cut short there; and a dosen's approval in flight is about a covered    *)
(* submission, however long ago it looked.                                 *)

Has(x) == \A m \in Accepted : intern[x][m] > 0

Covered(x) ==
  \/ Has(x)
  \/ x \in failed
  \/ \E p \in Requests : req[p].at = "intern" /\ req[p].sub = x

Past == {"PENDING_DOSEN_VERIFICATION", "COMPLETED"}

ListOK(r) ==
  r.at = "intern" =>
    \A m \in Accepted : m \in r.todo \/ m \in r.ins \/ intern[r.sub][m] > 0

DosenOK(r) == r.by = "dosen" => r.sub \in Subs /\ Covered(r.sub)

InternInv ==
  /\ \A p \in Requests :
       /\ ListOK(req[p])
       /\ DosenOK(req[p])
       /\ req[p].at = "dosen.write" => req[p].by = "dosen"
  /\ \A x \in Subs : sub[x].stage \in Past => Covered(x)

(* A step that does not touch the internships: the request that takes it   *)
(* is not among those that create them, and does not become one.           *)
Quiet(p) ==
  /\ req[p].at # "intern" /\ req'[p].at # "intern"
  /\ \A q \in Requests \ {p} : req'[q] = req[q]
  /\ req'[p].by = "dosen" => req'[p].sub \in Subs /\ Covered(req'[p].sub)
  /\ req'[p].at = "dosen.write" => req'[p].by = "dosen"
  /\ UNCHANGED <<intern, failed>>

LEMMA QuietKeeps ==
  ASSUME InternInv, NEW p \in Requests, Quiet(p),
         \A x \in Subs : sub'[x].stage \in Past => sub[x].stage \in Past \/ Covered(x)
  PROVE  InternInv'
<1>1. ASSUME NEW x, Covered(x)
      PROVE  Covered(x)'
  BY <1>1 DEF Covered, Has, Quiet
<1>2. \A q \in Requests :
        /\ ListOK(req[q])'
        /\ DosenOK(req[q])'
        /\ (req[q].at = "dosen.write" => req[q].by = "dosen")'
  <2> TAKE q \in Requests
  <2>1. CASE q = p
    BY <1>1, <2>1 DEF Quiet, ListOK, DosenOK
  <2>2. CASE q # p
    BY <1>1, <2>2 DEF Quiet, ListOK, DosenOK, InternInv
  <2> QED BY <2>1, <2>2
<1>3. \A x \in Subs : sub'[x].stage \in Past => Covered(x)'
  BY <1>1 DEF InternInv
<1> QED BY <1>2, <1>3 DEF InternInv

(* Moving on, or ending, is quiet.                                         *)
LEMMA QuietMove ==
  ASSUME RequestsOK, InternInv, NEW p \in Requests, NEW r \in Request,
         req' = [req EXCEPT ![p] = r], req[p].at # "intern", r.at # "intern",
         r.by = "dosen" => req[p].by = "dosen" /\ r.sub = req[p].sub,
         r.at = "dosen.write" => r.by = "dosen", UNCHANGED <<intern, failed>>
  PROVE  Quiet(p)
BY DEF Quiet, InternInv, DosenOK, RequestsOK

LEMMA QuietDone ==
  ASSUME RequestsOK, InternInv, NEW p \in Requests, Done(p), req[p].at # "intern",
         UNCHANGED <<intern, failed>>
  PROVE  Quiet(p)
<1>1. Idle \in Request /\ Idle.at = "idle" /\ Idle.by = "admin"
  BY IdleOK DEF Idle
<1> QED BY <1>1, QuietMove DEF Done

LEMMA QuietGoto ==
  ASSUME RequestsOK, InternInv, NEW p \in Requests, NEW a \in Places, Goto(p, a),
         req[p].at # "intern", a # "intern", a # "dosen.write",
         UNCHANGED <<intern, failed>>
  PROVE  Quiet(p)
<1> DEFINE r == [req[p] EXCEPT !.at = a]
<1>1. r \in Request
  BY DEF RequestsOK, Request
<1>2. r.at = a /\ r.by = req[p].by /\ r.sub = req[p].sub
  BY DEF RequestsOK, Request
<1>3. req' = [req EXCEPT ![p] = r]
  BY DEF Goto
<1> QED BY <1>1, <1>2, <1>3, QuietMove

LEMMA QuietProceed ==
  ASSUME RequestsOK, InternInv, NEW p \in Requests, NEW a \in Places, NEW ok,
         Proceed(p, ok, a), req[p].at # "intern", a # "intern", a # "dosen.write",
         UNCHANGED <<intern, failed>>
  PROVE  Quiet(p)
BY QuietGoto, QuietDone DEF Proceed

(* Steps that end the request or only move it on, and leave the stage or   *)
(* turn it to one before the dosen.                                        *)
LEMMA QuietSteps ==
  ASSUME RequestsOK, InternInv, NEW p \in Requests,
         \/ EditWrite(p) \/ SubmitWrite(p) \/ RevertWrite(p) \/ UploadInsert(p)
         \/ RemoveDocCheck(p) \/ RemoveDocDelete(p) \/ RejectWrite(p) \/ DosenWrite(p)
         \/ GenerateCheck(p) \/ GenerateAdd(p) \/ AnswerInsert(p) \/ AnswerMark(p)
         \/ CheckVerify(p) \/ CheckStatus(p) \/ CheckMark(p) \/ RemoveRow(p)
         \/ RemoveMark(p) \/ RejectLetters(p) \/ ApproveCheck(p) \/ ApproveCover(p)
         \/ ApproveInsert(p)
  PROVE  Quiet(p)
<1>1. CASE \/ EditWrite(p) \/ SubmitWrite(p) \/ RevertWrite(p) \/ UploadInsert(p)
           \/ RemoveDocDelete(p) \/ RejectWrite(p) \/ DosenWrite(p) \/ GenerateAdd(p)
           \/ AnswerMark(p) \/ RemoveMark(p)
  BY <1>1, QuietDone DEF EditWrite, SubmitWrite, RevertWrite, UploadInsert,
     RemoveDocDelete, RejectWrite, DosenWrite, GenerateAdd, AnswerMark, RemoveMark
<1>2. CASE RemoveDocCheck(p)
  BY <1>2, QuietProceed DEF RemoveDocCheck, Places, tables
<1>3. CASE GenerateCheck(p)
  BY <1>3, QuietProceed DEF GenerateCheck, Places, tables
<1>4. CASE CheckStatus(p)
  BY <1>4, QuietProceed DEF CheckStatus, Places
<1>5. CASE AnswerInsert(p)
  BY <1>5, QuietGoto DEF AnswerInsert, Places
<1>6. CASE CheckVerify(p)
  BY <1>6, QuietGoto DEF CheckVerify, Places
<1>7. CASE CheckMark(p)
  BY <1>7, QuietGoto DEF CheckMark, Places
<1>8. CASE RemoveRow(p)
  BY <1>8, QuietGoto DEF RemoveRow, Places
<1>9. CASE RejectLetters(p)
  BY <1>9, QuietGoto DEF RejectLetters, Places
<1>10. CASE ApproveCheck(p)
  BY <1>10, QuietProceed DEF ApproveCheck, Places, tables
<1>11. CASE ApproveInsert(p)
  BY <1>11, QuietProceed DEF ApproveInsert, Places
<1>12. CASE ApproveCover(p)
  <2>1. PICK a \in {"approve.insert", "approve.write"} : Goto(p, a)
    BY <1>12 DEF ApproveCover
  <2>2. a \in Places /\ a # "intern" /\ a # "dosen.write"
    BY DEF Places
  <2> QED BY <1>12, <2>1, <2>2, QuietGoto DEF ApproveCover, tables
<1> QED
  BY <1>1, <1>2, <1>3, <1>4, <1>5, <1>6, <1>7, <1>8, <1>9, <1>10, <1>11, <1>12

(* Steps that remember something more on the way.                          *)
LEMMA QuietNotes ==
  ASSUME RequestsOK, InternInv, NEW p \in Requests,
         \/ UploadLook(p) \/ UploadDrop(p) \/ ReviewDoc(p) \/ RejectLook(p)
         \/ RejectCovers(p) \/ RejectSkips(p)
  PROVE  Quiet(p)
<1> DEFINE r == req[p]
<1>0. r \in Request /\ req \in [Requests -> Request]
  BY DEF RequestsOK
<1>1. UNCHANGED <<intern, failed>> /\ r.at \in
        {"upload.look", "upload.drop", "review.doc", "reject.look", "reject.covers",
         "reject.letters"}
  BY DEF UploadLook, UploadDrop, ReviewDoc, RejectLook, RejectCovers, RejectSkips, tables
<1>2. \A q \in Requests \ {p} : req'[q] = req[q]
  BY <1>0 DEF UploadLook, UploadDrop, ReviewDoc, RejectLook, RejectCovers, RejectSkips,
     Goto, Done
<1>3. req'[p] = Idle \/ (req'[p].by = r.by /\ req'[p].sub = r.sub
        /\ req'[p].at \in {"upload.insert", "upload.drop", "review.doc", "approve.check",
                           "reject.letters", "reject.covers", "reject.write"})
  <2>1. CASE UploadLook(p)
    <3>1. CASE Goto(p, "upload.insert")
      BY <1>0, <3>1 DEF Goto, Request
    <3>2. CASE Done(p)
      BY <1>0, <3>2 DEF Done
    <3>3. ASSUME NEW d, req' = [req EXCEPT ![p].at = "upload.drop", ![p].doc = d]
          PROVE  req'[p].by = r.by /\ req'[p].sub = r.sub /\ req'[p].at = "upload.drop"
      <4> DEFINE n == [r EXCEPT !.at = "upload.drop", !.doc = d]
      <4>1. req'[p] = n
        BY <1>0, <3>3
      <4> QED BY <1>0, <4>1 DEF Request
    <3> QED BY <2>1, <3>1, <3>2, <3>3 DEF UploadLook
  <2>2. CASE ReviewDoc(p) \/ RejectCovers(p)
    <3>1. PICK d \in r.docs, a \in {"review.doc", "approve.check", "reject.letters",
                                   "reject.covers", "reject.write"} :
            req' = [req EXCEPT ![p].docs = r.docs \ {d}, ![p].at = a]
      BY <2>2 DEF ReviewDoc, RejectCovers
    <3> DEFINE n == [r EXCEPT !.docs = r.docs \ {d}, !.at = a]
    <3>2. req'[p] = n
      BY <1>0, <3>1
    <3> QED BY <1>0, <3>1, <3>2 DEF Request
  <2>3. CASE RejectLook(p) \/ RejectSkips(p)
    BY <1>0, <2>3 DEF RejectLook, RejectSkips, Request
  <2>4. CASE UploadDrop(p)
    <3> DEFINE n == [r EXCEPT !.at = "upload.insert", !.doc = None]
    <3>1. req'[p] = n
      BY <1>0, <2>4 DEF UploadDrop
    <3> QED BY <1>0, <3>1 DEF Request
  <2> QED BY <2>1, <2>2, <2>3, <2>4
<1>4. Idle.at = "idle" /\ Idle.by = "admin"
  BY DEF Idle
<1> QED BY <1>1, <1>2, <1>3, <1>4 DEF Quiet, DosenOK, InternInv

LEMMA QuietLetters ==
  ASSUME RequestsOK, InternInv, NEW p \in Requests,
         LetterNumber(p) \/ LetterLook(p) \/ LetterAdd(p) \/ LetterFinal(p)
  PROVE  Quiet(p)
<1> DEFINE r == req[p]
<1>0. r \in Request /\ req \in [Requests -> Request]
  BY DEF RequestsOK
<1>1. UNCHANGED <<intern, failed>>
      /\ r.at \in {"letter.number", "letter.look", "letter.add", "letter.final"}
  BY DEF LetterNumber, LetterLook, LetterAdd, LetterFinal, tables
<1>2. ASSUME NEW n, Finished(p, n)
      PROVE  /\ \A q \in Requests \ {p} : req'[q] = req[q]
             /\ \/ req'[p] = Idle
                \/ req'[p].by = "dosen" /\ r.by = "dosen" /\ req'[p].sub = r.sub
                   /\ req'[p].at = "dosen.write"
  BY <1>0, <1>2 DEF Finished, Done, Request
<1>3. \A q \in Requests \ {p} : req'[q] = req[q]
  BY <1>0, <1>2 DEF LetterNumber, LetterLook, LetterAdd, LetterFinal, Goto, Done
<1>4. \/ req'[p] = Idle
      \/ req'[p].by = "dosen" /\ r.by = "dosen" /\ req'[p].sub = r.sub
         /\ req'[p].at = "dosen.write"
      \/ req'[p].by = r.by /\ req'[p].sub = r.sub
         /\ req'[p].at \in {"letter.look", "letter.add", "letter.final"}
  <2>1. CASE LetterNumber(p)
    <3>1. PICK n \in Numbers : req' = [req EXCEPT ![p].at = "letter.look", ![p].number = n]
      BY <2>1 DEF LetterNumber
    <3> DEFINE k == [r EXCEPT !.at = "letter.look", !.number = n]
    <3>2. req'[p] = k
      BY <1>0, <3>1
    <3> QED BY <1>0, <3>2 DEF Request
  <2>2. CASE Goto(p, "letter.add") \/ Goto(p, "letter.final")
    BY <1>0, <2>2 DEF Goto, Request
  <2>3. CASE Done(p)
    BY <1>0, <2>3 DEF Done
  <2> QED
    BY <1>2, <2>1, <2>2, <2>3 DEF LetterLook, LetterAdd, LetterFinal
<1>5. Idle.at = "idle" /\ Idle.by = "admin"
  BY DEF Idle
<1> QED BY <1>1, <1>3, <1>4, <1>5 DEF Quiet, DosenOK, InternInv

(* A client's call starts a request that creates no internships; a dosen's *)
(* approval is let in for a submission past the admin, which is covered.   *)
LEMMA QuietCalls ==
  ASSUME RequestsOK, RequestsOK', InternInv, NEW p \in Requests, Call(p)
  PROVE  Quiet(p) /\ UNCHANGED sub
<1>0. req \in [Requests -> Request]
  BY DEF RequestsOK
<1>1. \A r, q : Begin(p, r) /\ q \in Requests \ {p} => req'[q] = req[q]
  BY <1>0 DEF Begin
<1>2. \A r : Begin(p, r) => req'[p] = r /\ req[p].at = "idle"
  BY <1>0 DEF Begin
<1>3. ASSUME NEW r, Begin(p, r), r.at # "intern", r.at # "dosen.write",
             r.by = "dosen" => r.sub \in Subs /\ Covered(r.sub), UNCHANGED <<intern, failed>>
      PROVE  Quiet(p)
  BY <1>1, <1>2, <1>3 DEF Quiet
<1>4. ASSUME NEW x \in Subs, DosenBegin(p, x)
      PROVE  Quiet(p) /\ UNCHANGED sub
  <2> DEFINE r == [Idle EXCEPT !.at = "letter.number", !.sub = x, !.by = "dosen"]
  <2>1. r.at = "letter.number" /\ r.sub = x
    BY DEF Idle
  <2>2. Covered(x)
    BY <1>4 DEF DosenBegin, InternInv, Past
  <2> QED BY <1>3, <1>4, <2>1, <2>2 DEF DosenBegin, tables
<1>5. ASSUME NEW x \in Subs, SubmitBegin(p, x) \/ RevertBegin(p, x)
      PROVE  Quiet(p) /\ UNCHANGED sub
  <2> DEFINE r(a) == [Idle EXCEPT !.at = a, !.sub = x]
  <2>1. \A a : r(a).at = a /\ r(a).by = "admin"
    BY DEF Idle
  <2> QED BY <1>3, <1>5, <2>1 DEF SubmitBegin, RevertBegin, tables
<1>6. ASSUME NEW x \in Subs, NEW v \in Data, EditBegin(p, x, v)
      PROVE  Quiet(p) /\ UNCHANGED sub
  <2> DEFINE r == [Idle EXCEPT !.at = "edit.write", !.sub = x, !.data = v]
  <2>1. r.at = "edit.write" /\ r.by = "admin"
    BY DEF Idle
  <2> QED BY <1>3, <1>6, <2>1 DEF EditBegin, tables
<1>7. ASSUME NEW x \in Subs, NEW s \in Slots, UploadBegin(p, x, s)
      PROVE  Quiet(p) /\ UNCHANGED sub
  <2> DEFINE r == [Idle EXCEPT !.at = "upload.look", !.sub = x, !.slot = s]
  <2>1. r.at = "upload.look" /\ r.by = "admin"
    BY DEF Idle
  <2> QED BY <1>3, <1>7, <2>1 DEF UploadBegin, tables
<1>8. ASSUME NEW x \in Subs, NEW a \in Admins, NEW ok \in BOOLEAN,
             NEW n \in Numbers \cup {None}, NEW D \in SUBSET DocsOf(x),
             ReviewBegin(p, x, a, ok, n, D)
      PROVE  Quiet(p) /\ UNCHANGED sub
  <2> DEFINE r == [Idle EXCEPT !.sub = x, !.slot = a, !.ok = ok, !.number = n,
                     !.docs = D,
                     !.at = IF D = {} THEN "reject.letters" ELSE "review.doc"]
  <2>1. r.at \in {"reject.letters", "review.doc"} /\ r.by = "admin"
    BY DEF Idle
  <2> QED BY <1>3, <1>8, <2>1 DEF ReviewBegin, tables
<1>9. ASSUME NEW x \in Subs, NEW n \in Numbers, GenerateBegin(p, x, n)
      PROVE  Quiet(p) /\ UNCHANGED sub
  <2> DEFINE r == [Idle EXCEPT !.at = "generate.check", !.sub = x, !.number = n]
  <2>1. r.at = "generate.check" /\ r.by = "admin"
    BY DEF Idle
  <2> QED BY <1>3, <1>9, <2>1 DEF GenerateBegin, tables
<1>10. ASSUME NEW x \in Subs, NEW ok \in BOOLEAN, AnswerBegin(p, x, ok)
      PROVE  Quiet(p) /\ UNCHANGED sub
  <2> DEFINE r == [Idle EXCEPT !.at = "answer.insert", !.sub = x, !.ok = ok]
  <2>1. r.at = "answer.insert" /\ r.by = "admin"
    BY DEF Idle
  <2> QED BY <1>3, <1>10, <2>1 DEF AnswerBegin, tables
<1>11. ASSUME NEW d \in DocIds, RemoveDocBegin(p, d)
      PROVE  Quiet(p) /\ UNCHANGED sub
  <2> DEFINE r == [Idle EXCEPT !.sub = doc[d].sub, !.doc = d,
                     !.at = IF doc[d].state = "REJECTED" THEN "doc.delete" ELSE "doc.check"]
  <2>1. r.at \in {"doc.delete", "doc.check"} /\ r.by = "admin"
    BY DEF Idle
  <2> QED BY <1>3, <1>11, <2>1 DEF RemoveDocBegin, tables
<1>12. ASSUME NEW k \in RespIds, RemoveBegin(p, k)
      PROVE  Quiet(p) /\ UNCHANGED sub
  <2> DEFINE r == [Idle EXCEPT !.at = "remove.row", !.resp = k, !.sub = resp[k].sub]
  <2>1. r.at = "remove.row" /\ r.by = "admin"
    BY DEF Idle
  <2> QED BY <1>3, <1>12, <2>1 DEF RemoveBegin, tables
<1>13. ASSUME NEW k \in RespIds, NEW ok \in BOOLEAN, CheckBegin(p, k, ok)
      PROVE  Quiet(p) /\ UNCHANGED sub
  <2> DEFINE r == [Idle EXCEPT !.at = "check.verify", !.resp = k, !.ok = ok,
                     !.sub = resp[k].sub, !.by = "check"]
  <2>1. r.at = "check.verify" /\ r.by = "check"
    BY DEF Idle
  <2> QED BY <1>3, <1>13, <2>1 DEF CheckBegin, tables
<1> QED
  BY <1>4, <1>5, <1>6, <1>7, <1>8, <1>9, <1>10, <1>11, <1>12, <1>13 DEF Call, FormCall, DocumentCall, AdminCall, AnswerCall, VerifyCall

(* What becomes of the stage in the quiet steps that write it.             *)
LEMMA StageKept ==
  ASSUME RequestsOK, RowsOK, InternInv, NEW p \in Requests, Step(p),
         ~ApproveWrite(p), ~CheckComplete(p)
  PROVE  \A x \in Subs : sub'[x].stage \in Past => sub[x].stage \in Past \/ Covered(x)
<1>1. CASE EditWrite(p) \/ LetterFinal(p) \/ AnswerMark(p) \/ CheckMark(p) \/ RemoveMark(p)
  <2>1. ASSUME NEW x \in Subs, NEW v, sub' = [sub EXCEPT ![x].data = v]
        PROVE  \A y \in Subs : sub'[y].stage = sub[y].stage
    BY <2>1 DEF RowsOK, SubRow
  <2>2. ASSUME NEW x \in Subs, NEW v, sub' = [sub EXCEPT ![x].final = v]
        PROVE  \A y \in Subs : sub'[y].stage = sub[y].stage
    BY <2>2 DEF RowsOK, SubRow
  <2>3. ASSUME NEW x \in Subs, NEW v, sub' = [sub EXCEPT ![x].answer = v]
        PROVE  \A y \in Subs : sub'[y].stage = sub[y].stage
    BY <2>3 DEF RowsOK, SubRow
  <2>4. req[p].sub \in Subs
    BY <1>1, SubOf DEF EditWrite, LetterFinal, AnswerMark, CheckMark, RemoveMark
  <2> QED
    BY <1>1, <2>1, <2>2, <2>3, <2>4 DEF EditWrite, LetterFinal, AnswerMark, CheckMark,
       RemoveMark, MarkAnswer
<1>2. CASE SubmitWrite(p) \/ RevertWrite(p) \/ RejectWrite(p)
  <2>1. ASSUME NEW s \in SubRow, NEW n \in {Submitted(s), Reverted(s), Rejected(s)}
        PROVE  n.stage \notin Past
    BY DEF SubRow, Submitted, Reverted, Rejected, Past
  <2>2. PICK n \in {Submitted(sub[req[p].sub]), Reverted(sub[req[p].sub]),
                    Rejected(sub[req[p].sub])} : sub' = [sub EXCEPT ![req[p].sub] = n]
    BY <1>2 DEF SubmitWrite, RevertWrite, RejectWrite
  <2>3. req[p].sub \in Subs
    BY <1>2, SubOf DEF SubmitWrite, RevertWrite, RejectWrite
  <2> QED BY <2>1, <2>2, <2>3 DEF RowsOK
<1>3. CASE DosenWrite(p)
  <2>1. Covered(req[p].sub)
    BY <1>3 DEF InternInv, DosenOK, DosenWrite
  <2> QED BY <1>3, <2>1 DEF DosenWrite, RowsOK
<1>4. CASE UNCHANGED sub
  BY <1>4
<1> QED
  BY <1>1, <1>2, <1>3, <1>4 DEF Step, tables, UploadLook, UploadDrop, UploadInsert,
     RemoveDocCheck, RemoveDocDelete, ReviewDoc, ApproveCheck, ApproveCover,
     ApproveInsert, RejectLetters, RejectLook, RejectCovers, RejectSkips, InternLook,
     InternInsert, LetterNumber, LetterLook, LetterAdd, GenerateCheck, GenerateAdd,
     AnswerInsert, CheckVerify, CheckStatus, CheckSkips, RemoveRow

(* The steps that do touch the internships.                                *)
LEMMA LoudKeeps ==
  ASSUME InternInv, NEW p \in Requests,
         \A q \in Requests \ {p} : req'[q] = req[q],
         req'[p].by = "dosen" => req[p].by = "dosen" /\ req'[p].sub = req[p].sub,
         req'[p].at # "dosen.write", ListOK(req[p])',
         \A x \in Subs, m \in Accepted : intern[x][m] > 0 => intern'[x][m] > 0,
         \A q \in Requests : req[q].at = "intern" => req[q].sub \in Subs,
         \A x \in Subs : Covered(x) => Covered(x)',
         \A x \in Subs : sub'[x].stage \in Past => sub[x].stage \in Past \/ Covered(x)'
  PROVE  InternInv'
<1>1. \A q \in Requests :
        /\ ListOK(req[q])'
        /\ DosenOK(req[q])'
        /\ (req[q].at = "dosen.write" => req[q].by = "dosen")'
  <2> TAKE q \in Requests
  <2>1. CASE q = p
    BY <2>1 DEF InternInv, DosenOK
  <2>2. CASE q # p
    BY <2>2 DEF ListOK, DosenOK, InternInv
  <2> QED BY <2>1, <2>2
<1>2. \A x \in Subs : sub'[x].stage \in Past => Covered(x)'
  BY DEF InternInv
<1> QED BY <1>1, <1>2 DEF InternInv

(* An approval and a completion start to create internships.               *)
LEMMA StartsInterns ==
  ASSUME RequestsOK, RowsOK, InternInv, NEW p \in Requests,
         \/ ApproveWrite(p) /\ ~Done(p)
         \/ CheckComplete(p)
  PROVE  InternInv'
<1> DEFINE r == req[p]
<1>0. PICK x \in Subs : x = r.sub
  BY SubOf DEF ApproveWrite, CheckComplete
<1>typed. r \in Request /\ req \in [Requests -> Request] /\ r.at # "intern"
  BY DEF RequestsOK, ApproveWrite, CheckComplete
<1>1. PICK M \in {Accepted, Members} :
        req' = [req EXCEPT ![p].at = "intern", ![p].todo = M]
  BY DEF ApproveWrite, CheckComplete
<1> DEFINE n == [r EXCEPT !.at = "intern", !.todo = M]
<1>2. req'[p] = n
  BY <1>typed, <1>1
<1>3. n.at = "intern" /\ n.todo = M /\ n.sub = x /\ n.by = r.by
  BY <1>0, <1>typed DEF Request
<1>4. \A q \in Requests \ {p} : req'[q] = req[q]
  BY <1>typed, <1>1
<1>5. UNCHANGED <<intern, failed>>
  BY DEF ApproveWrite, CheckComplete
<1>6. \A y \in Subs : Covered(y) => Covered(y)'
  BY <1>typed, <1>4, <1>5 DEF Covered, Has
<1>7. Covered(x)'
  BY <1>2, <1>3 DEF Covered
<1>8. ListOK(r)'
  BY <1>1, <1>2, <1>3, ConstantsAssumption DEF ListOK
<1>9. \A y \in Subs \ {x} : sub'[y] = sub[y]
  <2>1. CASE ApproveWrite(p)
    BY <1>0, <2>1 DEF ApproveWrite, RowsOK
  <2>2. CASE CheckComplete(p)
    <3>1. sub' = [sub EXCEPT ![x].status = "APPROVED", ![x].stage = "COMPLETED"]
      BY <1>0, <2>2 DEF CheckComplete
    <3> QED BY <3>1 DEF RowsOK
  <2> QED BY <2>1, <2>2
<1>10. \A y \in Subs : sub'[y].stage \in Past => sub[y].stage \in Past \/ Covered(y)'
  BY <1>7, <1>9
<1> QED
  BY <1>0, <1>2, <1>3, <1>4, <1>5, <1>6, <1>8, <1>10, SubOf, LoudKeeps

(* A request that creates internships and is cut short leaves a mark.      *)
LEMMA CutShort ==
  ASSUME RequestsOK, InternInv, NEW p \in Requests, req[p].at = "intern",
         CheckSkips(p) \/ Die(p)
  PROVE  InternInv'
<1> DEFINE r == req[p]
           x == r.sub
<1>0. r \in Request /\ req \in [Requests -> Request] /\ x \in Subs
  BY SubOf DEF RequestsOK
<1>1. failed' = failed \cup {x} /\ UNCHANGED <<sub, intern>>
  BY DEF CheckSkips, Die, tables
<1>2. \A q \in Requests \ {p} : req'[q] = req[q]
  BY <1>0 DEF CheckSkips, Die, Done
<1>3. /\ req'[p].by = "dosen" => r.by = "dosen" /\ req'[p].sub = x
      /\ req'[p].at \in {"idle", "letter.number"}
  <2>1. CASE Done(p)
    BY <1>0, <2>1 DEF Done, Idle
  <2>2. CASE CheckSkips(p)
    <3> DEFINE n == [r EXCEPT !.at = "letter.number", !.todo = {}, !.ins = {}]
    <3>1. req'[p] = n
      BY <1>0, <2>2 DEF CheckSkips
    <3> QED BY <1>0, <3>1 DEF Request
  <2> QED BY <2>1, <2>2 DEF Die
<1>4. \A y \in Subs : Covered(y) => Covered(y)'
  BY <1>1, <1>2 DEF Covered, Has
<1>5. ListOK(r)'
  BY <1>3 DEF ListOK
<1> QED
  BY <1>1, <1>2, <1>3, <1>4, <1>5, SubOf, LoudKeeps

(* A request that looks for an internship, or inserts one, and goes on     *)
(* with the list n.                                                        *)
LEMMA GoesOn ==
  ASSUME RequestsOK, InternInv, NEW p \in Requests, NEW n \in Request,
         req[p].at = "intern", n.at = "intern", n.sub = req[p].sub, n.by = req[p].by,
         req' = AfterInterns(p, n), failed' = Ensured(n), UNCHANGED sub,
         \A x \in Subs, m \in Accepted : intern[x][m] > 0 => intern'[x][m] > 0,
         ListOK(n)'
  PROVE  InternInv'
<1>0. PICK x \in Subs : x = req[p].sub
  BY SubOf
<1>typed. req \in [Requests -> Request]
  BY DEF RequestsOK
<1>1. \A q \in Requests \ {p} : req'[q] = req[q]
  BY <1>typed DEF AfterInterns
<1>2. CASE n.todo \cup n.ins # {}
  <2>1. req'[p] = n /\ failed' = failed
    BY <1>typed, <1>2 DEF AfterInterns, Ensured
  <2>2. \A y \in Subs : Covered(y) => Covered(y)'
    BY <1>1, <2>1 DEF Covered, Has
  <2> QED BY <1>0, <1>1, <2>1, <2>2, SubOf, LoudKeeps
<1>3. CASE n.todo \cup n.ins = {}
  <2>1. Has(x)'
    BY <1>0, <1>3 DEF ListOK, Has
  <2>2. failed' = failed \ {x}
    BY <1>0, <1>3 DEF Ensured
  <2>3. \A y \in Subs : Covered(y) => Covered(y)'
    <3> TAKE y \in Subs
    <3>1. CASE y = x
      BY <2>1, <3>1 DEF Covered
    <3>2. CASE y # x
      <4>1. Has(y) => Has(y)'
        BY DEF Has
      <4>2. y \in failed => y \in failed'
        BY <2>2, <3>2
      <4>3. ASSUME NEW q \in Requests, req[q].at = "intern", req[q].sub = y
            PROVE  req'[q].at = "intern" /\ req'[q].sub = y
        BY <1>0, <1>1, <3>2, <4>3
      <4> QED BY <4>1, <4>2, <4>3 DEF Covered
    <3> QED BY <3>1, <3>2
  <2>4. req'[p].at \in {"idle", "letter.number"} /\ (req'[p].by = "dosen" => n.by = "dosen")
        /\ (req'[p].by = "dosen" => req'[p].sub = x)
    <3>1. req'[p] = Idle \/ req'[p] = [n EXCEPT !.at = "letter.number"]
      BY <1>typed, <1>3 DEF AfterInterns
    <3>2. Idle.at = "idle" /\ Idle.by = "admin"
      BY DEF Idle
    <3> QED BY <1>0, <3>1, <3>2 DEF Request
  <2>5. ListOK(req[p])'
    BY <2>4 DEF ListOK
  <2> QED BY <1>0, <1>1, <2>3, <2>4, <2>5, SubOf, LoudKeeps
<1> QED BY <1>2, <1>3

LEMMA InternsGoOn ==
  ASSUME RequestsOK, TablesOK, InternInv, NEW p \in Requests,
         InternLook(p) \/ InternInsert(p)
  PROVE  InternInv'
<1> DEFINE r == req[p]
<1>1. r \in Request /\ r.at = "intern" /\ r.sub \in Subs
  BY SubOf DEF RequestsOK, InternLook, InternInsert
<1>2. \A m \in Accepted : m \in Members /\ (m \in r.todo \/ m \in r.ins \/ intern[r.sub][m] > 0)
  BY <1>1, ConstantsAssumption DEF InternInv, ListOK
<1>3. CASE InternLook(p)
  <2>1. PICK m \in r.todo :
          LET n == [r EXCEPT !.todo = @ \ {m},
                             !.ins = IF intern[r.sub][m] = 0 THEN @ \cup {m} ELSE @]
          IN  req' = AfterInterns(p, n) /\ failed' = Ensured(n)
    BY <1>3 DEF InternLook
  <2>2. PICK i : i = IF intern[r.sub][m] = 0 THEN r.ins \cup {m} ELSE r.ins
    OBVIOUS
  <2>3. m \in Members /\ r.todo \ {m} \in SUBSET Members /\ i \in SUBSET Members
    BY <1>1, <2>1, <2>2 DEF Request
  <2>4. PICK n : n = [r EXCEPT !.todo = r.todo \ {m}, !.ins = i]
    OBVIOUS
  <2>5. /\ n \in Request /\ n.at = "intern" /\ n.sub = r.sub /\ n.by = r.by
        /\ n.todo = r.todo \ {m} /\ n.ins = i
    BY <1>1, <2>3, <2>4 DEF Request
  <2>6. req' = AfterInterns(p, n) /\ failed' = Ensured(n)
    BY <2>1, <2>2, <2>4
  <2>7. UNCHANGED <<sub, intern>>
    BY <1>3 DEF InternLook, tables
  <2>8. intern[r.sub][m] \in Nat
    BY <1>1, <2>3 DEF TablesOK
  <2>9. ListOK(n)'
    <3>1. \A k \in Accepted : k \in n.todo \/ k \in n.ins \/ intern[n.sub][k] > 0
      BY <1>2, <2>2, <2>5, <2>8
    <3> QED BY <2>7, <3>1 DEF ListOK
  <2> QED BY <1>1, <2>5, <2>6, <2>7, <2>9, GoesOn
<1>4. CASE InternInsert(p)
  <2>1. PICK m \in r.ins :
          /\ intern' = [intern EXCEPT ![r.sub][m] = @ + 1]
          /\ LET n == [r EXCEPT !.ins = @ \ {m}]
             IN  req' = AfterInterns(p, n) /\ failed' = Ensured(n)
    BY <1>4 DEF InternInsert
  <2>2. PICK n : n = [r EXCEPT !.ins = r.ins \ {m}]
    OBVIOUS
  <2>3. /\ n \in Request /\ n.at = "intern" /\ n.sub = r.sub /\ n.by = r.by
        /\ n.todo = r.todo /\ n.ins = r.ins \ {m} /\ m \in Members
    BY <1>1, <2>1, <2>2 DEF Request
  <2>4. req' = AfterInterns(p, n) /\ failed' = Ensured(n)
    BY <2>1, <2>2
  <2>5. UNCHANGED sub
    BY <1>4 DEF InternInsert
  <2>6. intern'[r.sub][m] > 0
    BY <1>1, <2>1, <2>3 DEF TablesOK
  <2>7. \A x \in Subs, k \in Accepted : intern[x][k] > 0 => intern'[x][k] > 0
    BY <1>1, <1>2, <2>1, <2>3 DEF TablesOK
  <2>8. ListOK(n)'
    <3>1. \A k \in Accepted : k \in n.todo \/ k \in n.ins \/ intern'[n.sub][k] > 0
      BY <1>1, <1>2, <2>3, <2>6, <2>7
    <3> QED BY <3>1 DEF ListOK
  <2> QED BY <1>1, <2>3, <2>4, <2>5, <2>7, <2>8, GoesOn
<1> QED BY <1>3, <1>4

LEMMA StepInterns ==
  ASSUME Inv, Inv', InternInv, NEW p \in Requests, Step(p) \/ Die(p) \/ Call(p)
  PROVE  InternInv'
<1> USE DEF Inv
<1>1. CASE Call(p)
  BY <1>1, QuietCalls, QuietKeeps
<1>2. CASE Die(p)
  <2>1. CASE req[p].at = "intern"
    BY <1>2, <2>1, CutShort
  <2>2. CASE req[p].at # "intern"
    <3>1. UNCHANGED <<sub, intern, failed>> /\ Done(p)
      BY <1>2, <2>2 DEF Die, tables
    <3> QED BY <2>2, <3>1, QuietDone, QuietKeeps
  <2> QED BY <2>1, <2>2
<1>3. CASE InternLook(p) \/ InternInsert(p)
  BY <1>3, InternsGoOn
<1>4. CASE CheckSkips(p)
  BY <1>4, CutShort DEF CheckSkips
<1>5. CASE CheckComplete(p)
  BY <1>5, StartsInterns
<1>6. CASE ApproveWrite(p)
  <2>1. CASE Done(p)
    <3>1. UNCHANGED <<intern, failed>> /\ req[p].at # "intern"
      BY <1>6 DEF ApproveWrite
    <3>2. UNCHANGED sub
      <4>1. req'[p].at = "idle"
        BY <2>1 DEF Done, Idle, RequestsOK
      <4>2. CASE req' = [req EXCEPT ![p].at = "intern", ![p].todo = Accepted]
        <5> DEFINE n == [req[p] EXCEPT !.at = "intern", !.todo = Accepted]
        <5>1. req'[p] = n
          BY <4>2 DEF RequestsOK
        <5>2. n.at = "intern"
          BY DEF RequestsOK, Request
        <5> QED BY <4>1, <5>1, <5>2
      <4> QED BY <1>6, <4>2 DEF ApproveWrite
    <3> QED BY <2>1, <3>1, <3>2, QuietDone, QuietKeeps
  <2>2. CASE ~Done(p)
    BY <1>6, <2>2, StartsInterns
  <2> QED BY <2>1, <2>2
<1>7. CASE /\ Step(p)
           /\ ~(InternLook(p) \/ InternInsert(p)) /\ ~CheckSkips(p)
           /\ ~CheckComplete(p) /\ ~ApproveWrite(p)
  <2>1. Quiet(p)
    BY <1>7, QuietSteps, QuietNotes, QuietLetters DEF Step
  <2>2. \A x \in Subs : sub'[x].stage \in Past => sub[x].stage \in Past \/ Covered(x)
    BY <1>7, StageKept
  <2> QED BY <2>1, <2>2, QuietKeeps
<1> QED BY <1>1, <1>2, <1>3, <1>4, <1>5, <1>6, <1>7

LEMMA InternInvariance == Spec => []InternInv
<1>1. Init => InternInv
  <2> SUFFICES ASSUME Init PROVE InternInv
    OBVIOUS
  <2>1. Idle.at = "idle" /\ Idle.by = "admin" /\ Draft.stage = "DRAFT"
    BY DEF Idle, Draft
  <2> QED BY <2>1 DEF Init, InternInv, ListOK, DosenOK, Past
<1>2. Inv /\ Inv' /\ InternInv /\ [Next]_vars => InternInv'
  <2> SUFFICES ASSUME Inv, Inv', InternInv, [Next]_vars PROVE InternInv'
    OBVIOUS
  <2>1. ASSUME NEW p \in Requests, Step(p) \/ Die(p) \/ Call(p)
        PROVE  InternInv'
    BY <2>1, StepInterns
  <2>2. ASSUME NEW x \in Subs, DosenRejects(x)
        PROVE  InternInv'
    <3>1. UNCHANGED <<intern, failed, req>>
      BY <2>2 DEF DosenRejects
    <3>2. \A y \in Subs : sub'[y].stage \in Past => sub[y].stage \in Past
      <4> DEFINE n == [sub[x] EXCEPT !.stage = "REJECTED_DOSEN", !.dosen = "REJECTED"]
      <4>1. sub' = [sub EXCEPT ![x] = n]
        BY <2>2 DEF DosenRejects
      <4>2. n.stage = "REJECTED_DOSEN"
        BY DEF Inv, RowsOK, SubRow
      <4> QED BY <4>1, <4>2 DEF Inv, RowsOK, Past
    <3> QED BY <3>1, <3>2 DEF InternInv, ListOK, DosenOK, Covered, Has
  <2>3. CASE UNCHANGED vars
    BY <2>3 DEF vars, InternInv, ListOK, DosenOK, Covered, Has
  <2> QED BY <2>1, <2>2, <2>3 DEF Next
<1> QED BY <1>1, <1>2, Invariance, PTL DEF Spec

(* Past the admin, every accepted member has an internship, unless one is  *)
(* just being created or its creation was cut short.                       *)
THEOREM InternshipsAlwaysFollow == Spec => []InternshipsFollow
<1>1. InternInv => InternshipsFollow
  BY DEF InternInv, InternshipsFollow, Covered, Has, Past
<1> QED BY <1>1, InternInvariance, PTL
-----------------------------------------------------------------------------
(* Requests that do not overlap                                            *)

(* SubmittedIsImmutable and OneResponseLetter are refuted by overlapping   *)
(* requests.  Behaviours in which requests run one after the other (a      *)
(* dosen's rejection, a single statement, at any time) keep both: what a   *)
(* request has looked up is then still true when it writes (CalmOK).       *)
OneAtATime ==
  \A p, q \in Requests : req[p].at # "idle" /\ req[q].at # "idle" => p = q

Trusting == {"edit.write", "answer.insert"}

CalmOK(r) ==
  /\ r.at = "edit.write" => sub[r.sub].status = "DRAFT"
  /\ r.at = "answer.insert" => RespOf(r.sub) = {}

OneAnswer == \A x \in Subs : \A j, k \in RespOf(x) : j = k

Calm == OneAnswer /\ \A p \in Requests : CalmOK(req[p])

(* No step leads to the places that trust an earlier look; only calls do.  *)
Settles(p) ==
  /\ req'[p].at \notin Trusting
  /\ \A q \in Requests \ {p} : req'[q] = req[q]

LEMMA SettlesByReplacing ==
  ASSUME RequestsOK, NEW p \in Requests, NEW r, r.at \notin Trusting,
         req' = [req EXCEPT ![p] = r]
  PROVE  Settles(p)
BY DEF RequestsOK, Settles

LEMMA SettlesByMoving ==
  ASSUME RequestsOK, NEW p \in Requests,
         Done(p) \/ \E a : a \notin Trusting /\ (Goto(p, a) \/ \E ok : Proceed(p, ok, a))
  PROVE  Settles(p)
<1>1. CASE Done(p)
  BY <1>1, SettlesByReplacing DEF Done, Idle, Trusting
<1>2. ASSUME NEW a, a \notin Trusting, Goto(p, a) PROVE Settles(p)
  BY <1>2 DEF RequestsOK, Request, Goto, Settles
<1> QED BY <1>1, <1>2 DEF Proceed

LEMMA PlainStepsSettle ==
  ASSUME RequestsOK, NEW p \in Requests,
         \/ EditWrite(p) \/ SubmitWrite(p) \/ RevertWrite(p) \/ UploadInsert(p)
         \/ RemoveDocCheck(p) \/ RemoveDocDelete(p) \/ RejectWrite(p) \/ DosenWrite(p)
         \/ GenerateCheck(p) \/ GenerateAdd(p) \/ AnswerInsert(p) \/ AnswerMark(p)
         \/ CheckVerify(p) \/ CheckStatus(p) \/ CheckMark(p) \/ RemoveRow(p)
         \/ RemoveMark(p) \/ RejectLetters(p) \/ ApproveCheck(p) \/ ApproveCover(p)
         \/ ApproveInsert(p) \/ Die(p)
  PROVE  Settles(p)
<1>1. CASE \/ EditWrite(p) \/ SubmitWrite(p) \/ RevertWrite(p) \/ UploadInsert(p)
           \/ RemoveDocDelete(p) \/ RejectWrite(p) \/ DosenWrite(p) \/ GenerateAdd(p)
           \/ AnswerMark(p) \/ RemoveMark(p) \/ Die(p)
  BY <1>1, SettlesByMoving DEF EditWrite, SubmitWrite, RevertWrite, UploadInsert,
     RemoveDocDelete, RejectWrite, DosenWrite, GenerateAdd, AnswerMark, RemoveMark, Die
<1>2. /\ "doc.delete" \notin Trusting /\ "generate.add" \notin Trusting
      /\ "check.mark" \notin Trusting /\ "approve.cover" \notin Trusting
      /\ "approve.write" \notin Trusting /\ "answer.mark" \notin Trusting
      /\ "check.status" \notin Trusting /\ "check.complete" \notin Trusting
      /\ "remove.mark" \notin Trusting /\ "reject.look" \notin Trusting
      /\ "approve.insert" \notin Trusting
  BY DEF Trusting
<1>3. CASE \/ RemoveDocCheck(p) \/ GenerateCheck(p) \/ CheckStatus(p) \/ ApproveCheck(p)
           \/ ApproveInsert(p)
  BY <1>2, <1>3, SettlesByMoving DEF RemoveDocCheck, GenerateCheck, CheckStatus,
     ApproveCheck, ApproveInsert
<1>4. CASE \/ AnswerInsert(p) \/ CheckVerify(p) \/ CheckMark(p) \/ RemoveRow(p)
           \/ RejectLetters(p) \/ ApproveCover(p)
  BY <1>2, <1>4, SettlesByMoving DEF AnswerInsert, CheckVerify, CheckMark, RemoveRow,
     RejectLetters, ApproveCover
<1> QED BY <1>1, <1>3, <1>4

LEMMA NotingStepsSettle ==
  ASSUME RequestsOK, NEW p \in Requests,
         \/ UploadLook(p) \/ UploadDrop(p) \/ ReviewDoc(p) \/ RejectLook(p)
         \/ RejectCovers(p) \/ RejectSkips(p) \/ ApproveWrite(p) \/ CheckComplete(p)
         \/ CheckSkips(p)
  PROVE  Settles(p)
<1> DEFINE r == req[p]
<1>0. r \in Request /\ req \in [Requests -> Request]
  BY DEF RequestsOK
<1>1. \A q \in Requests \ {p} : req'[q] = req[q]
  BY <1>0 DEF UploadLook, UploadDrop, ReviewDoc, RejectLook, RejectCovers, RejectSkips,
     ApproveWrite, CheckComplete, CheckSkips, Goto, Done
<1>2. CASE UploadLook(p)
  <2>1. "upload.insert" \notin Trusting
    BY DEF Trusting
  <2>2. ASSUME NEW d, req' = [req EXCEPT ![p].at = "upload.drop", ![p].doc = d]
        PROVE  Settles(p)
    <3> DEFINE n == [r EXCEPT !.at = "upload.drop", !.doc = d]
    <3>1. req'[p] = n
      BY <1>0, <2>2
    <3> QED BY <1>0, <1>1, <3>1 DEF Request, Settles, Trusting
  <2> QED BY <1>2, <2>1, <2>2, SettlesByMoving DEF UploadLook
<1>3. CASE ReviewDoc(p) \/ RejectCovers(p)
  <2>1. PICK d \in r.docs, a \in {"review.doc", "approve.check", "reject.letters",
                                 "reject.covers", "reject.write"} :
          req' = [req EXCEPT ![p].docs = r.docs \ {d}, ![p].at = a]
    BY <1>3 DEF ReviewDoc, RejectCovers
  <2> DEFINE n == [r EXCEPT !.docs = r.docs \ {d}, !.at = a]
  <2>2. req'[p] = n
    BY <1>0, <2>1
  <2> QED BY <1>0, <1>1, <2>2 DEF Request, Settles, Trusting
<1>4. CASE RejectLook(p) \/ RejectSkips(p)
  BY <1>0, <1>1, <1>4 DEF RejectLook, RejectSkips, Request, Settles, Trusting
<1>5. CASE UploadDrop(p)
  <2> DEFINE n == [r EXCEPT !.at = "upload.insert", !.doc = None]
  <2>1. req'[p] = n
    BY <1>0, <1>5 DEF UploadDrop
  <2> QED BY <1>0, <1>1, <2>1 DEF Request, Settles, Trusting
<1>6. CASE ApproveWrite(p) \/ CheckComplete(p)
  <2>1. ASSUME NEW M, req' = [req EXCEPT ![p].at = "intern", ![p].todo = M]
        PROVE  Settles(p)
    <3> DEFINE n == [r EXCEPT !.at = "intern", !.todo = M]
    <3>1. req'[p] = n
      BY <1>0, <2>1
    <3> QED BY <1>0, <1>1, <3>1 DEF Request, Settles, Trusting
  <2> QED BY <1>6, <2>1, SettlesByMoving DEF ApproveWrite, CheckComplete
<1>7. CASE CheckSkips(p)
  <2> DEFINE n == [r EXCEPT !.at = "letter.number", !.todo = {}, !.ins = {}]
  <2>1. req'[p] = n
    BY <1>0, <1>7 DEF CheckSkips
  <2> QED BY <1>0, <1>1, <2>1 DEF Request, Settles, Trusting
<1> QED BY <1>2, <1>3, <1>4, <1>5, <1>6, <1>7

LEMMA LateStepsSettle ==
  ASSUME RequestsOK, NEW p \in Requests,
         \/ InternLook(p) \/ InternInsert(p)
         \/ LetterNumber(p) \/ LetterLook(p) \/ LetterAdd(p) \/ LetterFinal(p)
  PROVE  Settles(p)
<1> DEFINE r == req[p]
<1>0. r \in Request /\ req \in [Requests -> Request]
  BY DEF RequestsOK
<1>1. ASSUME NEW n \in Request, n.at = "intern", req' = AfterInterns(p, n) PROVE Settles(p)
  <2> DEFINE k == [n EXCEPT !.at = "letter.number"]
  <2>1. k.at \notin Trusting /\ n.at \notin Trusting /\ Idle.at \notin Trusting
    BY <1>1 DEF Request, Trusting, Idle
  <2> QED BY <1>1, <2>1, SettlesByReplacing DEF AfterInterns
<1>2. CASE InternLook(p)
  <2>1. PICK m \in r.todo :
          req' = AfterInterns(p, [r EXCEPT !.todo = @ \ {m},
                                   !.ins = IF intern[r.sub][m] = 0 THEN @ \cup {m} ELSE @])
    BY <1>2 DEF InternLook
  <2> DEFINE n == [r EXCEPT !.todo = @ \ {m},
                            !.ins = IF intern[r.sub][m] = 0 THEN @ \cup {m} ELSE @]
  <2>2. n \in Request /\ n.at = r.at
    BY <1>0 DEF Request
  <2> QED BY <1>1, <1>2, <2>1, <2>2 DEF InternLook
<1>3. CASE InternInsert(p)
  <2>1. PICK m \in r.ins : req' = AfterInterns(p, [r EXCEPT !.ins = @ \ {m}])
    BY <1>3 DEF InternInsert
  <2> DEFINE n == [r EXCEPT !.ins = @ \ {m}]
  <2>2. n \in Request /\ n.at = r.at
    BY <1>0 DEF Request
  <2> QED BY <1>1, <1>3, <2>1, <2>2 DEF InternInsert
<1>4. ASSUME NEW a, NEW n, a \notin Trusting,
             req' = [req EXCEPT ![p].at = a, ![p].number = n]
      PROVE  Settles(p)
  <2> DEFINE k == [r EXCEPT !.at = a, !.number = n]
  <2>1. req' = [req EXCEPT ![p] = k]
    BY <1>0, <1>4
  <2>2. k.at = a
    BY <1>0 DEF Request
  <2> QED BY <1>4, <2>1, <2>2, SettlesByReplacing
<1>5. /\ "letter.look" \notin Trusting /\ "letter.add" \notin Trusting
      /\ "letter.final" \notin Trusting /\ "dosen.write" \notin Trusting
  BY DEF Trusting
<1>6. \A n : Finished(p, n) => Settles(p)
  BY <1>4, <1>5, SettlesByMoving DEF Finished
<1>7. CASE LetterNumber(p) \/ LetterLook(p) \/ LetterAdd(p) \/ LetterFinal(p)
  BY <1>4, <1>5, <1>6, <1>7, SettlesByMoving DEF LetterNumber, LetterLook, LetterAdd,
     LetterFinal
<1> QED BY <1>2, <1>3, <1>7

LEMMA StepsSettle ==
  ASSUME RequestsOK, NEW p \in Requests, Step(p) \/ Die(p)
  PROVE  Settles(p) /\ req[p].at # "idle"
<1>1. Settles(p)
  BY PlainStepsSettle, NotingStepsSettle, LateStepsSettle DEF Step
<1>2. req[p].at # "idle"
  BY DEF Step, Die, EditWrite, SubmitWrite, RevertWrite, UploadLook, UploadDrop, UploadInsert,
     RemoveDocCheck, RemoveDocDelete, ReviewDoc, ApproveCheck, ApproveCover, ApproveInsert,
     ApproveWrite, RejectLetters, RejectLook, RejectCovers, RejectSkips, RejectWrite,
     InternLook, InternInsert, LetterNumber, LetterLook, LetterAdd, LetterFinal, DosenWrite,
     GenerateCheck, GenerateAdd, AnswerInsert, AnswerMark, CheckVerify, CheckStatus,
     CheckMark, CheckComplete, CheckSkips, RemoveRow, RemoveMark
<1> QED BY <1>1, <1>2

(* Only a hand-in adds a response letter.                                  *)
LEMMA AnswersStayOne ==
  ASSUME Inv, Calm, NEW p \in Requests, Step(p) \/ Die(p)
  PROVE  OneAnswer'
<1>0. resp \in [RespIds -> RespRow]
  BY DEF Inv, TablesOK, RespsOK
<1>1. ASSUME \A k \in RespIds : \/ resp'[k].state = "none"
                                \/ /\ resp[k].state # "none"
                                   /\ resp'[k].sub = resp[k].sub
      PROVE  OneAnswer'
  <2>1. \A x : RespOf(x)' \subseteq RespOf(x)
    BY <1>1 DEF RespOf
  <2> QED BY <2>1 DEF Calm, OneAnswer
<1>2. CASE UNCHANGED resp
  BY <1>2 DEF Calm, OneAnswer, RespOf
<1>3. CASE CheckVerify(p) \/ CheckStatus(p) \/ RemoveRow(p)
  BY <1>0, <1>1, <1>3 DEF CheckVerify, CheckStatus, RemoveRow, NoResp, RespRow
<1>4. CASE AnswerInsert(p)
  <2>1. PICK x : x = req[p].sub
    OBVIOUS
  <2>2. RespOf(x) = {}
    BY <1>4, <2>1 DEF AnswerInsert, Calm, CalmOK
  <2>3. PICK k \in RespIds : \A j \in RespIds \ {k} : resp'[j] = resp[j]
    BY <1>0, <1>4 DEF AnswerInsert, FreshResp
  <2>4. resp'[k].sub = x \/ resp'[k] = resp[k]
    BY <1>0, <1>4, <2>1, <2>3 DEF AnswerInsert, FreshResp
  <2>5. ASSUME NEW y \in Subs, NEW i \in RespOf(y)', NEW j \in RespOf(y)' PROVE i = j
    <3>1. \A n \in RespIds \ {k} : n \in RespOf(y)' => n \in RespOf(y)
      BY <2>3 DEF RespOf
    <3>2. k \in RespOf(y)' => y = x \/ k \in RespOf(y)
      BY <2>4 DEF RespOf
    <3>3. i \in RespIds /\ j \in RespIds
      BY DEF RespOf
    <3> QED BY <2>2, <3>1, <3>2, <3>3 DEF Calm, OneAnswer
  <2> QED BY <2>5 DEF OneAnswer
<1> QED BY <1>2, <1>3, <1>4 DEF Step, Die, EditWrite, SubmitWrite, RevertWrite, UploadLook,
     UploadDrop, UploadInsert, RemoveDocCheck, RemoveDocDelete, ReviewDoc, ApproveCheck,
     ApproveCover, ApproveInsert, ApproveWrite, RejectLetters, RejectLook, RejectCovers,
     RejectSkips, RejectWrite, InternLook, InternInsert, LetterNumber, LetterLook, LetterAdd,
     LetterFinal, DosenWrite, GenerateCheck, GenerateAdd, AnswerMark, CheckMark,
     CheckComplete, CheckSkips, RemoveMark, tables

LEMMA StepsKeepCalm ==
  ASSUME Inv, Calm, OneAtATime, NEW p \in Requests, Step(p) \/ Die(p)
  PROVE  Calm'
<1>1. Settles(p) /\ req[p].at # "idle"
  BY StepsSettle DEF Inv
<1>2. \A q \in Requests : req'[q].at \notin Trusting
  BY <1>1 DEF Settles, OneAtATime, Trusting
<1>3. \A q \in Requests : CalmOK(req[q])'
  BY <1>2 DEF CalmOK, Trusting
<1> QED BY <1>3, AnswersStayOne DEF Calm

(* A call changes no table; an edit and a hand-in start with what they     *)
(* looked for.                                                             *)
LEMMA CallsKeepCalm ==
  ASSUME RequestsOK, Calm, NEW p \in Requests, Call(p)
  PROVE  Calm' /\ UNCHANGED tables
<1>1. ASSUME NEW r, Begin(p, r), CalmOK(r), UNCHANGED tables PROVE Calm'
  <2>1. req'[p] = r /\ \A q \in Requests \ {p} : req'[q] = req[q]
    BY <1>1 DEF Begin, RequestsOK
  <2>2. \A q \in Requests : CalmOK(req'[q])
    BY <1>1, <2>1 DEF Calm
  <2>3. \A q \in Requests : CalmOK(req[q])'
    BY <1>1, <2>2 DEF CalmOK, RespOf, tables
  <2>4. OneAnswer'
    BY <1>1 DEF Calm, OneAnswer, RespOf, tables
  <2> QED BY <2>3, <2>4 DEF Calm
<1>2. \A r : r.at \notin Trusting => CalmOK(r)
  BY DEF Trusting, CalmOK
<1>3. ASSUME NEW x, SubmitBegin(p, x) \/ RevertBegin(p, x) \/ DosenBegin(p, x)
      PROVE  Calm' /\ UNCHANGED tables
  BY <1>1, <1>2, <1>3 DEF SubmitBegin, RevertBegin, DosenBegin, Idle, Trusting
<1>4. ASSUME NEW x, NEW v, EditBegin(p, x, v) PROVE Calm' /\ UNCHANGED tables
  <2>1. CalmOK([Idle EXCEPT !.at = "edit.write", !.sub = x, !.data = v])
    BY <1>4 DEF EditBegin, CalmOK, Idle
  <2> QED BY <1>1, <1>4, <2>1 DEF EditBegin
<1>5. ASSUME NEW x, NEW ok, AnswerBegin(p, x, ok) PROVE Calm' /\ UNCHANGED tables
  <2>1. CalmOK([Idle EXCEPT !.at = "answer.insert", !.sub = x, !.ok = ok])
    BY <1>5 DEF AnswerBegin, CalmOK, Idle
  <2> QED BY <1>1, <1>5, <2>1 DEF AnswerBegin
<1>6. ASSUME NEW x, NEW s, UploadBegin(p, x, s) PROVE Calm' /\ UNCHANGED tables
  BY <1>1, <1>2, <1>6 DEF UploadBegin, Idle, Trusting
<1>7. ASSUME NEW d, RemoveDocBegin(p, d) PROVE Calm' /\ UNCHANGED tables
  <2> DEFINE r == [Idle EXCEPT !.sub = doc[d].sub, !.doc = d,
                     !.at = IF doc[d].state = "REJECTED" THEN "doc.delete" ELSE "doc.check"]
  <2>1. r.at \notin Trusting
    BY DEF Idle, Trusting
  <2> QED BY <1>1, <1>2, <1>7, <2>1 DEF RemoveDocBegin
<1>8. ASSUME NEW x, NEW a, NEW ok, NEW n, NEW D, ReviewBegin(p, x, a, ok, n, D)
      PROVE  Calm' /\ UNCHANGED tables
  <2> DEFINE r == [Idle EXCEPT !.sub = x, !.slot = a, !.ok = ok, !.number = n,
                     !.docs = D,
                     !.at = IF D = {} THEN "reject.letters" ELSE "review.doc"]
  <2>1. r.at \notin Trusting
    BY DEF Idle, Trusting
  <2> QED BY <1>1, <1>2, <1>8, <2>1 DEF ReviewBegin
<1>9. ASSUME NEW x, NEW n, GenerateBegin(p, x, n) PROVE Calm' /\ UNCHANGED tables
  BY <1>1, <1>2, <1>9 DEF GenerateBegin, Idle, Trusting
<1>10. ASSUME NEW k, RemoveBegin(p, k) PROVE Calm' /\ UNCHANGED tables
  BY <1>1, <1>2, <1>10 DEF RemoveBegin, Idle, Trusting
<1>11. ASSUME NEW k, NEW ok, CheckBegin(p, k, ok) PROVE Calm' /\ UNCHANGED tables
  BY <1>1, <1>2, <1>11 DEF CheckBegin, Idle, Trusting
<1> QED BY <1>3, <1>4, <1>5, <1>6, <1>7, <1>8, <1>9, <1>10, <1>11 DEF Call, FormCall,
     DocumentCall, AdminCall, AnswerCall, VerifyCall

(* The dosen's rejection leaves the legacy status and the letters alone.   *)
LEMMA RefusingKeepsCalm ==
  ASSUME Inv, Calm, NEW x \in Subs, DosenRejects(x)
  PROVE  /\ Calm'
         /\ \A y \in Subs : sub'[y].status = sub[y].status /\ sub'[y].data = sub[y].data
<1>1. PICK n : n = [sub[x] EXCEPT !.stage = "REJECTED_DOSEN", !.dosen = "REJECTED"]
  OBVIOUS
<1>2. sub' = [sub EXCEPT ![x] = n] /\ n.status = sub[x].status /\ n.data = sub[x].data
  BY <1>1 DEF DosenRejects, Inv, RowsOK, SubRow
<1>3. \A y \in Subs : sub'[y].status = sub[y].status /\ sub'[y].data = sub[y].data
  BY <1>2 DEF Inv, RowsOK
<1>4. UNCHANGED <<req, resp>>
  BY DEF DosenRejects
<1>5. \A q \in Requests : req[q].at # "idle" => req[q].sub \in Subs
  BY DEF Inv, RequestsOK, RequestOK
<1> QED BY <1>3, <1>4, <1>5 DEF Calm, CalmOK, OneAnswer, RespOf

LEMMA CalmHolds == Spec /\ []OneAtATime => []Calm
<1>1. Init => Calm
  BY DEF Init, Calm, CalmOK, OneAnswer, RespOf, Idle, NoResp
<1>2. Inv /\ Calm /\ OneAtATime /\ [Next]_vars => Calm'
  <2>1. UNCHANGED vars => (Calm => Calm')
    BY DEF vars, tables, Calm, CalmOK, OneAnswer, RespOf
  <2> QED BY <2>1, StepsKeepCalm, CallsKeepCalm, RefusingKeepsCalm DEF Next, Inv
<1> QED BY <1>1, <1>2, Invariance, PTL DEF Spec
(* The form is written by an edit only.                                    *)
LEMMA DataKept ==
  ASSUME Inv, NEW p \in Requests, Step(p) \/ Die(p), ~EditWrite(p), NEW x \in Subs
  PROVE  sub'[x].data = sub[x].data
<1>0. sub \in [Subs -> SubRow] /\ sub[x] \in SubRow
  BY DEF Inv, RowsOK
<1>1. ASSUME NEW y, NEW s, sub' = [sub EXCEPT ![y] = s], y = x => s.data = sub[x].data
      PROVE  sub'[x].data = sub[x].data
  BY <1>0, <1>1
<1>2. CASE SubmitWrite(p) \/ RevertWrite(p) \/ RejectWrite(p)
  BY <1>0, <1>1, <1>2, WritesKeepData DEF SubmitWrite, RevertWrite, RejectWrite
<1>3. CASE ApproveWrite(p) \/ DosenWrite(p)
  BY <1>0, <1>1, <1>3, WritesKeepData DEF ApproveWrite, DosenWrite
<1>4. CASE LetterFinal(p)
  <2>1. \A n : [sub[x] EXCEPT !.final = n].data = sub[x].data
    BY <1>0 DEF SubRow
  <2> QED BY <1>0, <1>4, <2>1 DEF LetterFinal
<1>5. CASE AnswerMark(p) \/ CheckMark(p) \/ RemoveMark(p)
  <2>1. \A n : [sub[x] EXCEPT !.answer = n].data = sub[x].data
    BY <1>0 DEF SubRow
  <2>2. ASSUME NEW n, MarkAnswer(p, n) PROVE sub'[x].data = sub[x].data
    BY <1>0, <2>1, <2>2 DEF MarkAnswer
  <2> QED BY <1>5, <2>2 DEF AnswerMark, CheckMark, RemoveMark
<1>6. CASE CheckComplete(p)
  <2>1. PICK y : y = req[p].sub
    OBVIOUS
  <2>2. PICK s : s = [sub[y] EXCEPT !.status = "APPROVED", !.stage = "COMPLETED"]
    OBVIOUS
  <2>3. sub' = [sub EXCEPT ![y] = s]
    BY <1>6, <2>1, <2>2 DEF CheckComplete
  <2>4. y = x => s.data = sub[x].data
    BY <1>0, <2>2 DEF SubRow
  <2> QED BY <1>1, <2>3, <2>4
<1> QED BY <1>2, <1>3, <1>4, <1>5, <1>6 DEF Step, Die, UploadLook, UploadDrop, UploadInsert,
     RemoveDocCheck, RemoveDocDelete, ReviewDoc, ApproveCheck, ApproveCover, ApproveInsert,
     RejectLetters, RejectLook, RejectCovers, RejectSkips, InternLook, InternInsert,
     LetterNumber, LetterLook, LetterAdd, GenerateCheck, GenerateAdd, AnswerInsert,
     CheckVerify, CheckStatus, CheckSkips, RemoveRow, tables

(* "Pengajuan sudah diajukan dan tidak dapat diubah": the form of a        *)
(* submission that was submitted stays, unless requests overlap.           *)
THEOREM SubmittedStaysOneAtATime == Spec /\ []OneAtATime => SubmittedIsImmutable
<1> DEFINE Stays ==
      \A x \in Subs : sub[x].status # "DRAFT" => sub'[x].data = sub[x].data
<1>1. Inv /\ Calm /\ [Next]_vars => [Stays]_vars
  <2> SUFFICES ASSUME Inv, Calm, Next, NEW x \in Subs, sub[x].status # "DRAFT"
               PROVE  sub'[x].data = sub[x].data
    OBVIOUS
  <2>1. ASSUME NEW p \in Requests, EditWrite(p) PROVE sub'[x].data = sub[x].data
    <3>1. req[p].sub # x
      BY <2>1 DEF EditWrite, Calm, CalmOK
    <3> QED BY <2>1, <3>1 DEF EditWrite, Inv, RowsOK
  <2>2. ASSUME NEW p \in Requests, Call(p) PROVE sub'[x].data = sub[x].data
    BY <2>2, CallsKeepCalm DEF Inv, tables
  <2> QED BY <2>1, <2>2, DataKept, RefusingKeepsCalm DEF Next
<1>2. Spec /\ []OneAtATime => [][Stays]_vars
  BY <1>1, Invariance, CalmHolds, PTL DEF Spec
<1> QED BY <1>2 DEF SubmittedIsImmutable

(* "Surat balasan sudah pernah disubmit": a submission has one response    *)
(* letter, unless requests overlap.                                        *)
THEOREM OneLetterOneAtATime == Spec /\ []OneAtATime => []OneResponseLetter
<1>1. Calm => OneResponseLetter
  <2> SUFFICES ASSUME Calm, NEW x \in Subs PROVE Cardinality(RespOf(x)) <= 1
    BY DEF OneResponseLetter
  <2>1. PICK S : S = RespOf(x)
    OBVIOUS
  <2>2. CASE S = {}
    BY <2>1, <2>2, FS_EmptySet
  <2>3. CASE S # {}
    <3>1. PICK k : k \in S
      BY <2>3
    <3>2. S = {k}
      BY <2>1, <3>1 DEF Calm, OneAnswer
    <3>3. Cardinality(S) = 1
      BY <3>2, FS_Singleton
    <3> QED BY <2>1, <3>3
  <2> QED BY <2>2, <2>3
<1> QED BY <1>1, CalmHolds, PTL
=============================================================================
