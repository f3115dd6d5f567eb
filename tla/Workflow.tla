------------------------------ MODULE Workflow ------------------------------
(***************************************************************************)
(* The life of a submission after its draft exists: the leader edits and   *)
(* submits it, an admin reviews it, a dosen verifies it, the company's     *)
(* response letter is handed in and checked, and letters and internships   *)
(* come out (submission, admin, surat-pengantar-dosen, response-letter and *)
(* letter services).  A request takes one step per SQL statement; no       *)
(* transaction spans two statements, so what a request has read may be     *)
(* stale when it writes.  Every write is an UPDATE by id.                  *)
(***************************************************************************)
EXTENDS Naturals, FiniteSets

CONSTANTS
  Subs,      \* submissions, each of a team of its own
  Members,   \* team_members rows of the team of each of them
  Accepted,  \* the accepted ones
  Slots,     \* (document type, member) pairs a student may upload for
  Admins,    \* admins; the cover letter of a submission has a slot per admin
  DocIds,    \* bound on the documents that exist or are remembered
  Numbers,   \* letter numbers
  RespIds,   \* bound on the response letters that exist or are remembered
  Requests,  \* bound on the requests in flight at the same time
  Ops,       \* the endpoints the clients call
  Crashes,   \* whether a request may die before its last step
  None

ASSUME ConstantsAssumption ==
  /\ Accepted \subseteq Members /\ Accepted # {}
  /\ Slots \cap Admins = {}
  /\ Crashes \in BOOLEAN
  /\ None \notin Subs \cup Slots \cup Admins \cup DocIds \cup Numbers \cup RespIds

VARIABLES
  sub,     \* submissions table
  doc,     \* submission_documents table
  letter,  \* generated_letters table, by its unique letter number
  resp,    \* response_letters table
  intern,  \* internships table: rows per submission and member
  req,     \* the requests in flight and what they remember
  failed   \* history: submissions whose internships were cut short

tables == <<sub, doc, letter, resp, intern>>
vars == <<sub, doc, letter, resp, intern, req, failed>>

Verdict == {"PENDING", "APPROVED", "REJECTED"}
Status == {"DRAFT", "PENDING_REVIEW", "APPROVED", "REJECTED"}
Stage == {"DRAFT", "PENDING_ADMIN_REVIEW", "PENDING_DOSEN_VERIFICATION",
          "COMPLETED", "REJECTED_ADMIN", "REJECTED_DOSEN"}
Data == {"filled", "blank"}

Places ==
  {"idle", "edit.write", "submit.write", "revert.write",
   "upload.look", "upload.drop", "upload.insert", "doc.check", "doc.delete",
   "review.doc", "approve.check", "approve.cover", "approve.insert",
   "approve.write", "reject.letters", "reject.look", "reject.covers",
   "reject.write", "intern", "letter.number", "letter.look", "letter.add",
   "letter.final", "dosen.write", "generate.check", "generate.add",
   "answer.insert", "answer.mark", "check.verify", "check.status",
   "check.mark", "check.complete", "remove.row", "remove.mark"}

SubRow == [status : Status, stage : Stage, admin : Verdict, dosen : Verdict,
           number : Numbers \cup {None}, final : Numbers \cup {None},
           answer : {"pending", "submitted", "verified"}, data : Data]

DocRow == [state : Verdict \cup {"none"}, sub : Subs \cup {None},
           slot : Slots \cup Admins \cup {None}]

LetterRow == [sub : Subs \cup {None}, signed : BOOLEAN]

RespRow == [state : {"none", "new", "verified"}, sub : Subs \cup {None},
            ok : BOOLEAN]

Request == [at : Places, sub : Subs \cup {None}, ok : BOOLEAN, data : Data,
            by : {"dosen", "check", "admin"}, slot : Slots \cup Admins \cup {None},
            doc : DocIds \cup {None}, docs : SUBSET DocIds,
            number : Numbers \cup {None}, resp : RespIds \cup {None},
            todo : SUBSET Members, ins : SUBSET Members]

Idle == [at |-> "idle", sub |-> None, ok |-> FALSE, data |-> "filled",
         by |-> "admin", slot |-> None, doc |-> None, docs |-> {},
         number |-> None, resp |-> None, todo |-> {}, ins |-> {}]

NoDoc == [state |-> "none", sub |-> None, slot |-> None]
NoLetter == [sub |-> None, signed |-> FALSE]
NoResp == [state |-> "none", sub |-> None, ok |-> FALSE]

TypeOK ==
  /\ sub \in [Subs -> SubRow]
  /\ doc \in [DocIds -> DocRow]
  /\ letter \in [Numbers -> LetterRow]
  /\ resp \in [RespIds -> RespRow]
  /\ intern \in [Subs -> [Members -> Nat]]
  /\ req \in [Requests -> Request]
  /\ failed \in SUBSET Subs

(* A draft starts with placeholder values in every field.                  *)
Draft == [status |-> "DRAFT", stage |-> "DRAFT", admin |-> "PENDING",
          dosen |-> "PENDING", number |-> None, final |-> None,
          answer |-> "pending", data |-> "filled"]

Init ==
  /\ sub = [x \in Subs |-> Draft]
  /\ doc = [d \in DocIds |-> NoDoc]
  /\ letter = [n \in Numbers |-> NoLetter]
  /\ resp = [r \in RespIds |-> NoResp]
  /\ intern = [x \in Subs |-> [m \in Members |-> 0]]
  /\ req = [p \in Requests |-> Idle]
  /\ failed = {}

-----------------------------------------------------------------------------
DocsOf(x) == {d \in DocIds : doc[d].state # "none" /\ doc[d].sub = x}
DocIn(x, s) == {d \in DocsOf(x) : doc[d].slot = s}
Covers(x) == {d \in DocsOf(x) : doc[d].slot \in Admins}
LettersOf(x) == {n \in Numbers : letter[n].sub = x}
SignedOf(x) == {n \in LettersOf(x) : letter[n].signed}
RespOf(x) == {r \in RespIds : resp[r].state # "none" /\ resp[r].sub = x}

(* Ids are random: a new row gets one that neither a row has nor a request *)
(* remembers.                                                              *)
FreshDocs == {d \in DocIds : /\ doc[d].state = "none"
                             /\ \A q \in Requests : d # req[q].doc /\ d \notin req[q].docs}
FreshResp == {r \in RespIds : /\ resp[r].state = "none"
                              /\ \A q \in Requests : r # req[q].resp}

Begin(p, r) == req[p].at = "idle" /\ req' = [req EXCEPT ![p] = r]
Goto(p, place) == req' = [req EXCEPT ![p].at = place]
Done(p) == req' = [req EXCEPT ![p] = Idle]
Proceed(p, ok, place) == IF ok THEN Goto(p, place) ELSE Done(p)

InsertDoc(x, s) ==
  \E d \in FreshDocs :
    doc' = [doc EXCEPT ![d] = [state |-> "PENDING", sub |-> x, slot |-> s]]

-----------------------------------------------------------------------------
(* updateSubmission: the leader's PUT and PATCH of the form                *)

EditBegin(p, x, v) ==
  /\ "edit" \in Ops
  /\ sub[x].status = "DRAFT"
  /\ Begin(p, [Idle EXCEPT !.at = "edit.write", !.sub = x, !.data = v])
  /\ UNCHANGED <<tables, failed>>

EditWrite(p) ==
  LET r == req[p] IN
  /\ r.at = "edit.write"
  /\ sub' = [sub EXCEPT ![r.sub].data = r.data]
  /\ Done(p)
  /\ UNCHANGED <<doc, letter, resp, intern, failed>>

(* submitForReview *)

SubmitBegin(p, x) ==
  /\ "submit" \in Ops
  /\ sub[x].status = "DRAFT" /\ sub[x].data = "filled"
  /\ Begin(p, [Idle EXCEPT !.at = "submit.write", !.sub = x])
  /\ UNCHANGED <<tables, failed>>

(* Mutant: the verdicts of the round before stay.                          *)
Submitted_OldVerdicts(s) ==
  [s EXCEPT !.status = "PENDING_REVIEW", !.stage = "PENDING_ADMIN_REVIEW",
            !.final = None]

Submitted(s) ==
  [s EXCEPT !.status = "PENDING_REVIEW", !.stage = "PENDING_ADMIN_REVIEW",
            !.admin = "PENDING", !.dosen = "PENDING", !.final = None]

SubmitWrite(p) ==
  /\ req[p].at = "submit.write"
  /\ sub' = [sub EXCEPT ![req[p].sub] = Submitted(@)]
  /\ Done(p)
  /\ UNCHANGED <<doc, letter, resp, intern, failed>>

(* resetToDraft *)

RevertBegin(p, x) ==
  /\ "revert" \in Ops
  /\ sub[x].status = "REJECTED" \/ sub[x].stage \in {"REJECTED_ADMIN", "REJECTED_DOSEN"}
  /\ Begin(p, [Idle EXCEPT !.at = "revert.write", !.sub = x])
  /\ UNCHANGED <<tables, failed>>

Reverted(s) ==
  [s EXCEPT !.status = "DRAFT", !.stage = "DRAFT", !.admin = "PENDING",
            !.dosen = "PENDING", !.final = None]

RevertWrite(p) ==
  /\ req[p].at = "revert.write"
  /\ sub' = [sub EXCEPT ![req[p].sub] = Reverted(@)]
  /\ Done(p)
  /\ UNCHANGED <<doc, letter, resp, intern, failed>>

-----------------------------------------------------------------------------
(* uploadDocument: a rejected document is replaced, any other one kept     *)

UploadBegin(p, x, s) ==
  /\ "upload" \in Ops
  /\ sub[x].status = "DRAFT"
  /\ Begin(p, [Idle EXCEPT !.at = "upload.look", !.sub = x, !.slot = s])
  /\ UNCHANGED <<tables, failed>>

UploadLook(p) ==
  LET r == req[p] IN
  /\ r.at = "upload.look"
  /\ \/ DocIn(r.sub, r.slot) = {} /\ Goto(p, "upload.insert")
     \/ \E d \in DocIn(r.sub, r.slot) :
          IF doc[d].state = "REJECTED"
          THEN req' = [req EXCEPT ![p].at = "upload.drop", ![p].doc = d]
          ELSE Done(p)
  /\ UNCHANGED <<tables, failed>>

UploadDrop(p) ==
  /\ req[p].at = "upload.drop"
  /\ doc' = [doc EXCEPT ![req[p].doc] = NoDoc]
  /\ req' = [req EXCEPT ![p].at = "upload.insert", ![p].doc = None]
  /\ UNCHANGED <<sub, letter, resp, intern, failed>>

(* The unique index refuses a second document of the slot.                 *)
UploadInsert(p) ==
  LET r == req[p] IN
  /\ r.at = "upload.insert"
  /\ IF DocIn(r.sub, r.slot) = {} THEN InsertDoc(r.sub, r.slot) ELSE UNCHANGED doc
  /\ Done(p)
  /\ UNCHANGED <<sub, letter, resp, intern, failed>>

(* deleteDocument *)

RemoveDocBegin(p, d) ==
  /\ "removeDoc" \in Ops
  /\ doc[d].state # "none"
  /\ Begin(p, [Idle EXCEPT !.sub = doc[d].sub, !.doc = d,
       !.at = IF doc[d].state = "REJECTED" THEN "doc.delete" ELSE "doc.check"])
  /\ UNCHANGED <<tables, failed>>

RemoveDocCheck(p) ==
  /\ req[p].at = "doc.check"
  /\ Proceed(p, sub[req[p].sub].status = "DRAFT", "doc.delete")
  /\ UNCHANGED <<tables, failed>>

RemoveDocDelete(p) ==
  /\ req[p].at = "doc.delete"
  /\ doc' = [doc EXCEPT ![req[p].doc] = NoDoc]
  /\ Done(p)
  /\ UNCHANGED <<sub, letter, resp, intern, failed>>

-----------------------------------------------------------------------------
(* updateSubmissionStatus, called directly or by approveSubmission and     *)
(* rejectSubmission.  D: the documents the admin gives a verdict on.       *)

ReviewBegin(p, x, a, ok, n, D) ==
  /\ "review" \in Ops
  /\ sub[x].stage = "PENDING_ADMIN_REVIEW"
  /\ ok => D # {}
  /\ n = None <=> ~ok
  /\ Begin(p, [Idle EXCEPT !.sub = x, !.slot = a, !.ok = ok, !.number = n,
       !.docs = D, !.at = IF D = {} THEN "reject.letters" ELSE "review.doc"])
  /\ UNCHANGED <<tables, failed>>

ReviewDoc(p) ==
  LET r == req[p] IN
  /\ r.at = "review.doc"
  /\ \E d \in r.docs, v \in {"APPROVED", "REJECTED"} :
       /\ r.ok => v = "APPROVED"
       /\ doc' = IF doc[d].state = "none" THEN doc ELSE [doc EXCEPT ![d].state = v]
       /\ req' = [req EXCEPT ![p].docs = @ \ {d},
            ![p].at = IF r.docs # {d} THEN @
                      ELSE IF r.ok THEN "approve.check" ELSE "reject.letters"]
  /\ UNCHANGED <<sub, letter, resp, intern, failed>>

(* generateCoverLetterDocument: only for a submission under or past the    *)
(* admin's review, and only when there is no cover letter yet.             *)
ApproveCheck(p) ==
  LET s == sub[req[p].sub] IN
  /\ req[p].at = "approve.check"
  /\ Proceed(p, s.admin = "APPROVED" \/ s.status = "APPROVED"
                  \/ s.stage = "PENDING_ADMIN_REVIEW", "approve.cover")
  /\ UNCHANGED <<tables, failed>>

ApproveCover(p) ==
  /\ req[p].at = "approve.cover"
  /\ Goto(p, IF Covers(req[p].sub) = {} THEN "approve.insert" ELSE "approve.write")
  /\ UNCHANGED <<tables, failed>>

ApproveInsert(p) ==
  LET r == req[p] IN
  /\ r.at = "approve.insert"
  /\ Proceed(p, DocIn(r.sub, r.slot) = {}, "approve.write")
  /\ IF DocIn(r.sub, r.slot) = {} THEN InsertDoc(r.sub, r.slot) ELSE UNCHANGED doc
  /\ UNCHANGED <<sub, letter, resp, intern, failed>>

(* The unique index refuses a letter number another submission has.        *)
NumberTaken(x, n) == \E y \in Subs \ {x} : sub[y].number = n

Approved(s, n) ==
  [s EXCEPT !.status = "PENDING_REVIEW", !.stage = "PENDING_DOSEN_VERIFICATION",
            !.admin = "APPROVED", !.dosen = "PENDING", !.number = n, !.final = None]

(* Mutant: the approval creates no internships.                            *)
ApproveWrite_NoInterns(p) ==
  LET r == req[p] IN
  /\ r.at = "approve.write"
  /\ sub' = IF NumberTaken(r.sub, r.number) THEN sub
            ELSE [sub EXCEPT ![r.sub] = Approved(@, r.number)]
  /\ Done(p)
  /\ UNCHANGED <<doc, letter, resp, intern, failed>>

ApproveWrite(p) ==
  LET r == req[p] IN
  /\ r.at = "approve.write"
  /\ IF NumberTaken(r.sub, r.number)
     THEN Done(p) /\ UNCHANGED sub
     ELSE /\ sub' = [sub EXCEPT ![r.sub] = Approved(@, r.number)]
          /\ req' = [req EXCEPT ![p].at = "intern", ![p].todo = Accepted]
  /\ UNCHANGED <<doc, letter, resp, intern, failed>>

(* The clean-up of a rejection                                             *)
RejectLetters(p) ==
  LET x == req[p].sub IN
  /\ req[p].at = "reject.letters"
  /\ letter' = [n \in Numbers |-> IF n \in LettersOf(x) THEN NoLetter ELSE letter[n]]
  /\ Goto(p, "reject.look")
  /\ UNCHANGED <<sub, doc, resp, intern, failed>>

RejectLook(p) ==
  LET found == Covers(req[p].sub) IN
  /\ req[p].at = "reject.look"
  /\ req' = [req EXCEPT ![p].docs = found,
       ![p].at = IF found = {} THEN "reject.write" ELSE "reject.covers"]
  /\ UNCHANGED <<tables, failed>>

RejectCovers(p) ==
  LET r == req[p] IN
  /\ r.at = "reject.covers"
  /\ \E d \in r.docs :
       /\ doc' = [doc EXCEPT ![d] = NoDoc]
       /\ req' = [req EXCEPT ![p].docs = @ \ {d},
            ![p].at = IF r.docs = {d} THEN "reject.write" ELSE @]
  /\ UNCHANGED <<sub, letter, resp, intern, failed>>

(* Whatever fails in the clean-up ends it, not the rejection.              *)
RejectSkips(p) ==
  /\ req[p].at \in {"reject.letters", "reject.look", "reject.covers"}
  /\ req' = [req EXCEPT ![p].at = "reject.write", ![p].docs = {}]
  /\ UNCHANGED <<tables, failed>>

(* Mutant: the dosen's verdict survives the admin's rejection.             *)
Rejected_KeepsDosen(s) ==
  [s EXCEPT !.status = "PENDING_REVIEW", !.stage = "REJECTED_ADMIN",
            !.admin = "REJECTED", !.number = None, !.final = None]

Rejected(s) ==
  [s EXCEPT !.status = "PENDING_REVIEW", !.stage = "REJECTED_ADMIN",
            !.admin = "REJECTED", !.dosen = "PENDING", !.number = None,
            !.final = None]

RejectWrite(p) ==
  /\ req[p].at = "reject.write"
  /\ sub' = [sub EXCEPT ![req[p].sub] = Rejected(@)]
  /\ Done(p)
  /\ UNCHANGED <<doc, letter, resp, intern, failed>>

-----------------------------------------------------------------------------
(* ensureInternshipsForSubmission (members side by side) and               *)
(* createInternshipRecords (one after the other): a row is looked for and, *)
(* when there was none, inserted.                                          *)

(* Mutant: the inserts of the internships are not awaited.                 *)
AfterInterns_NotAwaited(p, r) ==
  IF r.todo # {} THEN [req EXCEPT ![p] = r]
  ELSE IF r.by = "check" THEN [req EXCEPT ![p] = [r EXCEPT !.at = "letter.number"]]
  ELSE [req EXCEPT ![p] = Idle]

AfterInterns(p, r) ==
  IF r.todo \cup r.ins # {} THEN [req EXCEPT ![p] = r]
  ELSE IF r.by = "check" THEN [req EXCEPT ![p] = [r EXCEPT !.at = "letter.number"]]
  ELSE [req EXCEPT ![p] = Idle]

Ensured(r) == IF r.todo \cup r.ins = {} THEN failed \ {r.sub} ELSE failed

InternLook(p) ==
  LET r == req[p] IN
  /\ r.at = "intern"
  /\ r.by = "check" => r.ins = {}
  /\ \E m \in r.todo :
       LET next == [r EXCEPT !.todo = @ \ {m},
                      !.ins = IF intern[r.sub][m] = 0 THEN @ \cup {m} ELSE @]
       IN req' = AfterInterns(p, next) /\ failed' = Ensured(next)
  /\ UNCHANGED tables

InternInsert(p) ==
  LET r == req[p] IN
  /\ r.at = "intern"
  /\ \E m \in r.ins :
       LET next == [r EXCEPT !.ins = @ \ {m}]
       IN /\ intern' = [intern EXCEPT ![r.sub][m] = @ + 1]
          /\ req' = AfterInterns(p, next) /\ failed' = Ensured(next)
  /\ UNCHANGED <<sub, doc, letter, resp>>

-----------------------------------------------------------------------------
(* generateFinalSignedLetter, for a dosen's approval or a response letter  *)
(* that was accepted; a signed letter that exists is used again.           *)

LetterNumber(p) ==
  /\ req[p].at = "letter.number"
  /\ \E n \in Numbers :
       /\ sub[req[p].sub].number # None => n = sub[req[p].sub].number
       /\ req' = [req EXCEPT ![p].at = "letter.look", ![p].number = n]
  /\ UNCHANGED <<tables, failed>>

Finished(p, n) ==
  IF req[p].by = "dosen"
  THEN req' = [req EXCEPT ![p].at = "dosen.write", ![p].number = n]
  ELSE Done(p)

LetterLook(p) ==
  LET found == SignedOf(req[p].sub) IN
  /\ req[p].at = "letter.look"
  /\ \/ found = {} /\ Goto(p, "letter.add")
     \/ \E n \in found : Finished(p, n)
  /\ UNCHANGED <<tables, failed>>

LetterAdd(p) ==
  LET r == req[p] IN
  /\ r.at = "letter.add"
  /\ IF letter[r.number].sub = None
     THEN /\ letter' = [letter EXCEPT ![r.number] = [sub |-> r.sub, signed |-> TRUE]]
          /\ Goto(p, "letter.final")
     ELSE Done(p) /\ UNCHANGED letter
  /\ UNCHANGED <<sub, doc, resp, intern, failed>>

LetterFinal(p) ==
  LET r == req[p] IN
  /\ r.at = "letter.final"
  /\ sub' = [sub EXCEPT ![r.sub].final = r.number]
  /\ Finished(p, r.number)
  /\ UNCHANGED <<doc, letter, resp, intern, failed>>

(* approveRequest of the dosen; the SSO is asked for the verifier and for  *)
(* a signature before the letter is generated.                             *)
DosenBegin(p, x) ==
  /\ "verify" \in Ops
  /\ \/ sub[x].stage = "PENDING_DOSEN_VERIFICATION"
     \/ sub[x].stage = "COMPLETED" /\ sub[x].dosen = "APPROVED"
  /\ sub[x].admin = "APPROVED"
  /\ Begin(p, [Idle EXCEPT !.at = "letter.number", !.sub = x, !.by = "dosen"])
  /\ UNCHANGED <<tables, failed>>

(* Both halves of the verdict and the file of the letter in one UPDATE.    *)
Completed(s, n) ==
  [s EXCEPT !.status = "APPROVED", !.stage = "COMPLETED",
            !.dosen = "APPROVED", !.final = n]

DosenWrite(p) ==
  /\ req[p].at = "dosen.write"
  /\ sub' = [sub EXCEPT ![req[p].sub] = Completed(@, req[p].number)]
  /\ Done(p)
  /\ UNCHANGED <<doc, letter, resp, intern, failed>>

(* Mutant: the verdict's word is stored as the stage.                      *)
DosenRejects_Word(x) ==
  /\ "refuse" \in Ops
  /\ sub' = [sub EXCEPT ![x].stage = "REJECTED", ![x].dosen = "REJECTED"]
  /\ UNCHANGED <<doc, letter, resp, intern, req, failed>>

(* rejectRequest looks at nothing but the submission's existence.          *)
DosenRejects(x) ==
  /\ "refuse" \in Ops
  /\ sub' = [sub EXCEPT ![x].stage = "REJECTED_DOSEN", ![x].dosen = "REJECTED"]
  /\ UNCHANGED <<doc, letter, resp, intern, req, failed>>

(* generateLetterForSubmission: an unsigned letter under a random number   *)
GenerateBegin(p, x, n) ==
  /\ "generate" \in Ops
  /\ sub[x].stage = "COMPLETED" /\ sub[x].dosen = "APPROVED"
  /\ Begin(p, [Idle EXCEPT !.at = "generate.check", !.sub = x, !.number = n])
  /\ UNCHANGED <<tables, failed>>

GenerateCheck(p) ==
  LET s == sub[req[p].sub] IN
  /\ req[p].at = "generate.check"
  /\ Proceed(p, s.admin = "APPROVED" \/ s.status = "APPROVED", "generate.add")
  /\ UNCHANGED <<tables, failed>>

GenerateAdd(p) ==
  LET r == req[p] IN
  /\ r.at = "generate.add"
  /\ letter' = IF letter[r.number].sub = None
               THEN [letter EXCEPT ![r.number] = [sub |-> r.sub, signed |-> FALSE]]
               ELSE letter
  /\ Done(p)
  /\ UNCHANGED <<sub, doc, resp, intern, failed>>

-----------------------------------------------------------------------------
(* submitResponseLetter *)

AnswerBegin(p, x, ok) ==
  /\ "answer" \in Ops
  /\ RespOf(x) = {}
  /\ Begin(p, [Idle EXCEPT !.at = "answer.insert", !.sub = x, !.ok = ok])
  /\ UNCHANGED <<tables, failed>>

AnswerInsert(p) ==
  LET r == req[p] IN
  /\ r.at = "answer.insert"
  /\ \E k \in FreshResp :
       resp' = [resp EXCEPT ![k] = [state |-> "new", sub |-> r.sub, ok |-> r.ok]]
  /\ Goto(p, "answer.mark")
  /\ UNCHANGED <<sub, doc, letter, intern, failed>>

MarkAnswer(p, answer) == sub' = [sub EXCEPT ![req[p].sub].answer = answer]

AnswerMark(p) ==
  /\ req[p].at = "answer.mark"
  /\ MarkAnswer(p, "submitted")
  /\ Done(p)
  /\ UNCHANGED <<doc, letter, resp, intern, failed>>

(* verifyResponseLetter *)

CheckBegin(p, k, ok) ==
  /\ "check" \in Ops
  /\ resp[k].state = "new"
  /\ Begin(p, [Idle EXCEPT !.at = "check.verify", !.resp = k, !.ok = ok,
                           !.sub = resp[k].sub, !.by = "check"])
  /\ UNCHANGED <<tables, failed>>

CheckVerify(p) ==
  LET k == req[p].resp IN
  /\ req[p].at = "check.verify"
  /\ resp' = IF resp[k].state = "none" THEN resp ELSE [resp EXCEPT ![k].state = "verified"]
  /\ Goto(p, "check.status")
  /\ UNCHANGED <<sub, doc, letter, intern, failed>>

CheckStatus(p) ==
  LET r == req[p] IN
  /\ r.at = "check.status"
  /\ resp' = IF resp[r.resp].state = "none" THEN resp ELSE [resp EXCEPT ![r.resp].ok = r.ok]
  /\ Proceed(p, r.ok, "check.mark")
  /\ UNCHANGED <<sub, doc, letter, intern, failed>>

CheckMark(p) ==
  /\ req[p].at = "check.mark"
  /\ MarkAnswer(p, "verified")
  /\ Goto(p, "check.complete")
  /\ UNCHANGED <<doc, letter, resp, intern, failed>>

(* Mutants: the letter is generated without the internships; the legacy    *)
(* status is forgotten.                                                    *)
CheckComplete_NoStatus(p) ==
  LET x == req[p].sub IN
  /\ req[p].at = "check.complete"
  /\ sub' = [sub EXCEPT ![x].stage = "COMPLETED"]
  /\ req' = [req EXCEPT ![p].at = "intern", ![p].todo = Members]
  /\ UNCHANGED <<doc, letter, resp, intern, failed>>

CheckComplete(p) ==
  LET x == req[p].sub IN
  /\ req[p].at = "check.complete"
  /\ sub' = [sub EXCEPT ![x].status = "APPROVED", ![x].stage = "COMPLETED"]
  /\ req' = [req EXCEPT ![p].at = "intern", ![p].todo = Members]
  /\ UNCHANGED <<doc, letter, resp, intern, failed>>

(* Internship records that cannot be created are skipped.                  *)
CheckSkips(p) ==
  LET r == req[p] IN
  /\ r.at = "intern" /\ r.by = "check"
  /\ req' = [req EXCEPT ![p].at = "letter.number", ![p].todo = {}, ![p].ins = {}]
  /\ failed' = failed \cup {r.sub}
  /\ UNCHANGED tables

(* deleteResponseLetter *)

RemoveBegin(p, k) ==
  /\ "removeAnswer" \in Ops
  /\ resp[k].state # "none"
  /\ Begin(p, [Idle EXCEPT !.at = "remove.row", !.resp = k, !.sub = resp[k].sub])
  /\ UNCHANGED <<tables, failed>>

RemoveRow(p) ==
  /\ req[p].at = "remove.row"
  /\ resp' = [resp EXCEPT ![req[p].resp] = NoResp]
  /\ Goto(p, "remove.mark")
  /\ UNCHANGED <<sub, doc, letter, intern, failed>>

RemoveMark(p) ==
  /\ req[p].at = "remove.mark"
  /\ MarkAnswer(p, "pending")
  /\ Done(p)
  /\ UNCHANGED <<doc, letter, resp, intern, failed>>

-----------------------------------------------------------------------------
(* A request ends early: its Worker dies, or an awaited call outside a try *)
(* block fails.                                                            *)
Die(p) ==
  /\ Crashes
  /\ req[p].at # "idle"
  /\ failed' = IF req[p].at = "intern" THEN failed \cup {req[p].sub} ELSE failed
  /\ Done(p)
  /\ UNCHANGED tables

Step(p) ==
  \/ EditWrite(p) \/ SubmitWrite(p) \/ RevertWrite(p)
  \/ UploadLook(p) \/ UploadDrop(p) \/ UploadInsert(p)
  \/ RemoveDocCheck(p) \/ RemoveDocDelete(p)
  \/ ReviewDoc(p) \/ ApproveCheck(p) \/ ApproveCover(p) \/ ApproveInsert(p)
  \/ ApproveWrite(p) \/ RejectLetters(p) \/ RejectLook(p) \/ RejectCovers(p)
  \/ RejectSkips(p) \/ RejectWrite(p) \/ InternLook(p) \/ InternInsert(p)
  \/ LetterNumber(p) \/ LetterLook(p) \/ LetterAdd(p) \/ LetterFinal(p)
  \/ DosenWrite(p) \/ GenerateCheck(p) \/ GenerateAdd(p)
  \/ AnswerInsert(p) \/ AnswerMark(p) \/ CheckVerify(p) \/ CheckStatus(p)
  \/ CheckMark(p) \/ CheckComplete(p) \/ CheckSkips(p)
  \/ RemoveRow(p) \/ RemoveMark(p)

(* The controllers: who may send what.                                     *)
FormCall(p) ==
  \E x \in Subs : SubmitBegin(p, x) \/ \E v \in Data : EditBegin(p, x, v)

DocumentCall(p) ==
  \/ \E x \in Subs : RevertBegin(p, x) \/ \E s \in Slots : UploadBegin(p, x, s)
  \/ \E d \in DocIds : RemoveDocBegin(p, d)

AdminCall(p) ==
  \E x \in Subs :
    \/ \E a \in Admins, ok \in BOOLEAN, n \in Numbers \cup {None}, D \in SUBSET DocsOf(x) :
         ReviewBegin(p, x, a, ok, n, D)
    \/ \E n \in Numbers : GenerateBegin(p, x, n)

AnswerCall(p) == \E x \in Subs, ok \in BOOLEAN : AnswerBegin(p, x, ok)

VerifyCall(p) ==
  \E k \in RespIds : RemoveBegin(p, k) \/ \E ok \in BOOLEAN : CheckBegin(p, k, ok)

Call(p) ==
  \/ FormCall(p) \/ DocumentCall(p) \/ AdminCall(p) \/ AnswerCall(p) \/ VerifyCall(p)
  \/ \E x \in Subs : DosenBegin(p, x)

Next ==
  \/ \E p \in Requests : Step(p) \/ Die(p) \/ Call(p)
  \/ \E x \in Subs : DosenRejects(x)

Spec == Init /\ [][Next]_vars

(* Workers that are not killed finish what they started; clients owe       *)
(* nothing.                                                                *)
FairSpec == Spec /\ \A p \in Requests : WF_vars(Step(p))

-----------------------------------------------------------------------------
(* The four columns that tell where a submission stands (the legacy        *)
(* status, the workflow stage and the two verdicts) are written by seven   *)
(* services that do not look at each other's preconditions again before    *)
(* their blind UPDATE.  Whatever overlaps, they still tell one story.      *)
VerdictsAgree ==
  \A x \in Subs :
    LET s == sub[x] IN
    /\ s.stage \in {"DRAFT", "PENDING_ADMIN_REVIEW"} =>
         s.admin = "PENDING" /\ s.dosen = "PENDING"
    /\ s.stage = "DRAFT" => s.status = "DRAFT"
    /\ s.status = "DRAFT" => s.stage \in {"DRAFT", "REJECTED_DOSEN"}
    /\ s.stage = "PENDING_DOSEN_VERIFICATION" =>
         s.admin = "APPROVED" /\ s.dosen = "PENDING" /\ s.number # None
    /\ s.stage = "REJECTED_ADMIN" =>
         s.admin = "REJECTED" /\ s.dosen = "PENDING" /\ s.number = None
    /\ s.stage = "REJECTED_DOSEN" => s.dosen = "REJECTED"
    /\ s.stage = "COMPLETED" => s.status = "APPROVED"

(* What toStudentSubmissionView relies on: a submission the dosen approved *)
(* is completed and has a final letter to show, also when the approval was *)
(* in flight while somebody rejected, reverted or resubmitted it.          *)
DosenApprovalHasLetter ==
  \A x \in Subs :
    sub[x].dosen = "APPROVED" =>
      sub[x].stage = "COMPLETED" /\ sub[x].final # None

(* Past the admin, every accepted member has an internship; one is missing *)
(* only while a request is still creating them or after one was cut short  *)
(* there (and the next approval of the submission makes up for it).        *)
InternshipsFollow ==
  \A x \in Subs :
    sub[x].stage \in {"PENDING_DOSEN_VERIFICATION", "COMPLETED"} =>
      \/ \A m \in Accepted : intern[x][m] > 0
      \/ x \in failed
      \/ \E p \in Requests : req[p].at = "intern" /\ req[p].sub = x

(* And they do get created, unless a Worker is killed or a call fails just *)
(* there.                                                                  *)
InternshipsCreated ==
  \A x \in Subs :
    sub[x].stage \in {"PENDING_DOSEN_VERIFICATION", "COMPLETED"} ~>
      (x \in failed \/ \A m \in Accepted : intern[x][m] > 0)

-----------------------------------------------------------------------------
(* What the code's messages and comments say and the interleavings break.  *)

(* submission.service.ts:269: a submission that was submitted cannot be    *)
(* changed ("Pengajuan sudah diajukan dan tidak dapat diubah.").           *)
SubmittedIsImmutable ==
  [][\A x \in Subs : sub[x].status # "DRAFT" => sub'[x].data = sub[x].data]_vars

(* response-letter.service.ts:68: there is one response letter per         *)
(* submission ("Surat balasan sudah pernah disubmit ...").                 *)
OneResponseLetter == \A x \in Subs : Cardinality(RespOf(x)) <= 1

(* admin.service.ts:538: an admin's verdict only falls on a submission in  *)
(* PENDING_ADMIN_REVIEW.                                                   *)
AdminDecidesPending ==
  [][\A x \in Subs :
       sub'[x].admin # sub[x].admin /\ sub'[x].admin # "PENDING" =>
         sub[x].stage = "PENDING_ADMIN_REVIEW"]_vars

(* surat-pengantar-dosen.service.ts:259: without the admin's approval      *)
(* there is no final signed letter ("Pengajuan belum disetujui admin.").   *)
SignedLetterAfterAdmin ==
  [][\A n \in Numbers :
       letter[n].sub = None /\ letter'[n].signed =>
         sub[letter'[n].sub].admin = "APPROVED"]_vars

(* admin.service.ts:608: what an earlier round left of letters never makes *)
(* a re-approval run into a unique-index conflict: the number a submission *)
(* waits with for its final letter is not on another one's letter.         *)
NumberNotTaken ==
  \A x \in Subs, n \in Numbers :
    sub[x].stage = "PENDING_DOSEN_VERIFICATION" /\ sub[x].number = n =>
      letter[n].sub \in {None, x}
=============================================================================
