-------------------------------- MODULE Views --------------------------------
(***************************************************************************)
(* What the services show of a submission: the student's list and          *)
(* dashboard, the admin's list, the dosen's queue and dashboard, the       *)
(* response letter's page and the archive.  Each of them reads the columns *)
(* its own way (the legacy status, the workflow stage, the verdicts and    *)
(* the files), so what overlapping requests leave in a row of Workflow     *)
(* decides whether they agree.                                             *)
(***************************************************************************)
EXTENDS Workflow

(* toStudentSubmissionView *)

AdminSeen(s) ==
  IF s.admin # "PENDING" THEN s.admin
  ELSE IF s.status \in {"APPROVED", "REJECTED"} THEN s.status ELSE "PENDING"

StageSeen(s) ==
  IF s.stage # "DRAFT" \/ AdminSeen(s) = "PENDING" THEN s.stage
  ELSE IF AdminSeen(s) = "APPROVED" THEN "PENDING_DOSEN_VERIFICATION" ELSE "REJECTED_ADMIN"

StudentFile(s) ==
  IF StageSeen(s) = "COMPLETED" /\ s.dosen = "APPROVED" THEN s.final ELSE None

(* resolveStatusPengajuan: the card of the student's dashboard             *)

(* Mutant: the card looks at the legacy column only.                       *)
StatusPengajuan_Legacy(s) ==
  IF s.status = "DRAFT" THEN "draft"
  ELSE IF s.status = "REJECTED" THEN "rejected"
  ELSE IF s.status = "APPROVED" THEN "approved"
  ELSE "pending_review"

StatusPengajuan(s) ==
  IF s.status = "DRAFT" THEN "draft"
  ELSE IF s.status = "REJECTED" \/ s.stage \in {"REJECTED_ADMIN", "REJECTED_DOSEN"}
       THEN "rejected"
  ELSE IF s.status = "APPROVED" \/ s.stage = "COMPLETED" THEN "approved"
  ELSE "pending_review"

(* resolveTahapBerikutnya, for a student of a fixed team; r: the response  *)
(* letter that is found, or NoResp                                         *)
TahapBerikutnya(s, r) ==
  IF s.status = "DRAFT" THEN "fill in"
  ELSE IF \/ s.status = "PENDING_REVIEW"
          \/ s.stage \in {"PENDING_ADMIN_REVIEW", "PENDING_DOSEN_VERIFICATION"}
       THEN "wait for review"
  ELSE IF r.state = "verified" THEN IF r.ok THEN "work" ELSE "start again"
  ELSE IF r.state = "none" /\ (s.stage = "COMPLETED" \/ s.status = "APPROVED")
       THEN "hand in answer"
  ELSE IF r.state = "new" \/ s.answer = "submitted" THEN "wait for check"
  ELSE "work"

Found(x) == IF RespOf(x) = {} THEN {NoResp} ELSE {resp[k] : k \in RespOf(x)}

(* getResponseLetterBySubmissionId: the final letter beside the answer     *)
AnswerFile(r, s) == IF r.state = "verified" /\ r.ok THEN s.final ELSE None

-----------------------------------------------------------------------------
(* matchesStatusBucket: the admin's tabs                                   *)
Bucket(s) ==
  CASE s.stage = "DRAFT" -> "DRAFT"
    [] s.stage \in {"PENDING_ADMIN_REVIEW", "PENDING_DOSEN_VERIFICATION"} -> "PENDING_REVIEW"
    [] s.stage = "COMPLETED" -> "APPROVED"
    [] s.stage \in {"REJECTED_ADMIN", "REJECTED_DOSEN"} -> "REJECTED"

(* buildAdminSubmissionEntry: the file of the admin's entry, one of these  *)
AdminFiles(x) == IF sub[x].final # None THEN {sub[x].final} ELSE Covers(x)

(* getRequestsForVerifier: what waits for a dosen, and the file with it.   *)
(* The verifier's own history is left out: Workflow has no verifier ids.   *)
Queue == {x \in Subs : sub[x].stage = "PENDING_DOSEN_VERIFICATION"}

VerifierFiles(x) ==
  IF sub[x].final # None THEN {sub[x].final}
  ELSE IF LettersOf(x) # {} THEN LettersOf(x) ELSE Covers(x)

QueueFields ==
  {"id", "teamCode", "nim", "namaMahasiswa", "status", "companyName",
   "letterPurpose", "companyAddress", "division", "startDate", "endDate",
   "signedFileUrl", "letterNumber", "academic_supervisor", "team_members",
   "createdAt", "tanggal"}

(* countTotalSuratPengantarMasuk: only entries that one of the fields      *)
(* isAdminApprovedForVerifierQueue looks at says are approved              *)
ApprovalFields ==
  {"isAdminApproved", "adminVerificationStatus", "admin_status", "adminStatus",
   "submissionStatus", "submission_status"}

DashboardCount ==
  IF QueueFields \cap ApprovalFields = {} THEN 0
  ELSE Cardinality({x \in Queue : sub[x].admin = "APPROVED"})

(* getAllSubmissionArchive, getStudentSubmissionsArchive                   *)
Archive == {x \in Subs : sub[x].stage \in {"COMPLETED", "REJECTED_ADMIN", "REJECTED_DOSEN"}}

-----------------------------------------------------------------------------
(* What the student's card says is the tab the admin finds the submission  *)
(* under, whichever writes overlapped, except that a draft may sit among   *)
(* the rejected ones (a dosen may reject a draft); what waits in the       *)
(* dosen's queue is under review for the student and approved by the admin *)
(* for everybody; and a final letter the student sees is in the archive.   *)
ViewsAgree ==
  \A x \in Subs :
    LET s == sub[x]
        card == StatusPengajuan(s)
    IN /\ card = "draft" => Bucket(s) \in {"DRAFT", "REJECTED"}
       /\ card = "pending_review" <=> Bucket(s) = "PENDING_REVIEW"
       /\ card = "approved" <=> Bucket(s) = "APPROVED"
       /\ card = "rejected" => Bucket(s) = "REJECTED"
       /\ x \in Queue => card = "pending_review" /\ AdminSeen(s) = "APPROVED"
       /\ StudentFile(s) # None => x \in Archive /\ card = "approved"

-----------------------------------------------------------------------------
(* What readers would expect and the code does not keep.                   *)

(* mahasiswa.service.ts:400: the next step fits the card beside it.  The   *)
(* legacy status stays PENDING_REVIEW in a rejection: "wait for review".   *)
NextStepFitsCard ==
  \A x \in Subs : \A r \in Found(x) :
    StatusPengajuan(sub[x]) = "rejected" =>
      TahapBerikutnya(sub[x], r) \notin {"wait for review", "hand in answer", "work"}

(* response-letter.service.ts:166: the final letter is shown beside an     *)
(* accepted answer only when the student's own view of it shows one.       *)
OneFinalLetter ==
  \A x \in Subs : \A r \in Found(x) :
    AnswerFile(r, sub[x]) \in {None, StudentFile(sub[x])}

(* surat-pengantar-dosen.service.ts:232: what waits for a dosen has a file *)
(* to look at, the cover letter that the admin's approval made sure of.    *)
QueueHasFile == \A x \in Queue : VerifierFiles(x) # {}

(* dosen.service.ts:124: the dosen's dashboard counts the queue.           *)
DashboardCountsQueue == DashboardCount = Cardinality(Queue)
=============================================================================
