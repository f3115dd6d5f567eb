--------------------------- MODULE MentorRequests ---------------------------
(***************************************************************************)
(* The mentor requests of one student: the student names a company mentor  *)
(* by e-mail, the dosen approves or rejects, and an approval finds or      *)
(* creates the mentor's account in SSO, assigns it to the student's active *)
(* internship, makes sure that a mentor_signatures row exists and marks    *)
(* the request APPROVED: four systems' worth of writes, no transaction.    *)
(*                                                                         *)
(* Every query here names one student.  SSO's accounts and its knowledge   *)
(* of the student's Dosen PA are external.  An account stands for both of  *)
(* its ids, the profile's (internships, mentor_signatures) and the         *)
(* mentor's own (sso_mentor_id).  audit_logs is left out: nothing reads it.*)
(***************************************************************************)
EXTENDS FiniteSets, Naturals

CONSTANTS
  Dosens,    \* lecturers who review requests
  AskIds,    \* bound on the rows of mentor_approval_requests
  Emails,    \* addresses the student may name
  Accounts,  \* bound on the mentor accounts of SSO
  Requests,  \* bound on the HTTP requests in flight
  Ops,       \* what happens besides approvals, among "reject", "advisor"
  Crashes,   \* whether a Worker may die and an awaited call may fail
  None

ASSUME ConstantsAssumption ==
  /\ Dosens # {}
  /\ Crashes \in BOOLEAN
  /\ None \notin Dosens \cup AskIds \cup Emails \cup Accounts

VARIABLES
  ask,        \* mentor_approval_requests table
  account,    \* SSO: the e-mail of each mentor account
  pa,         \* SSO: the student's Dosen PA, if the profile names one
  knownPa,    \* the PAs that some cached profile snapshot names
  internship, \* the student's internships row
  signature,  \* accounts with a mentor_signatures row
  req,        \* the requests in flight and what they remember
  mentored,   \* history: the accounts that were ever assigned
  overlapped, \* history: rows that two requests worked on at a time
  cut         \* history: accounts whose approval ended before it assigned

sso == <<account, pa, knownPa>>
history == <<mentored, overlapped, cut>>
vars == <<ask, sso, internship, signature, req, history>>

-----------------------------------------------------------------------------
AskRow == [status : {"PENDING", "APPROVED", "REJECTED"}, email : Emails,
           mentor : Accounts \cup {None}, reason : BOOLEAN]

ASSUME NoneIsNoRow == None \notin AskRow

Internship == [status : {"AKTIF", "SELESAI"}, mentor : Accounts \cup {None},
               supervisor : Dosens \cup {None}, pa : Dosens \cup {None}]

Places == {"idle", "approve.student", "approve.advisor", "approve.internship",
           "approve.find", "approve.create", "approve.assign",
           "approve.signature", "approve.write", "reject.write",
           "resubmit.write", "sync.student", "sync.write"}

Request == [at : Places, ask : AskIds \cup {None}, who : Dosens \cup {None},
            email : Emails \cup {None}, mentor : Accounts \cup {None},
            heal : BOOLEAN]

Idle == [at |-> "idle", ask |-> None, who |-> None, email |-> None,
         mentor |-> None, heal |-> FALSE]

MentorTypeOK ==
  /\ ask \in [AskIds -> AskRow \cup {None}]
  /\ account \in [Accounts -> Emails \cup {None}]
  /\ pa \in Dosens \cup {None}
  /\ knownPa \in SUBSET (Dosens \cup {None})
  /\ internship \in Internship
  /\ signature \in SUBSET Accounts
  /\ req \in [Requests -> Request]
  /\ mentored \in SUBSET Accounts
  /\ overlapped \in SUBSET AskIds
  /\ cut \in SUBSET Accounts

MentorInit ==
  /\ ask = [a \in AskIds |-> None]
  /\ account = [c \in Accounts |-> None]
  /\ pa \in Dosens \cup {None}
  /\ knownPa = {pa}
  /\ \E d \in Dosens \cup {None}, c \in {pa, None} :
       /\ c # None => d # None
       /\ internship = [status |-> "AKTIF", mentor |-> None, supervisor |-> d, pa |-> c]
  /\ signature = {}
  /\ req = [p \in Requests |-> Idle]
  /\ mentored = {}
  /\ overlapped = {}
  /\ cut = {}

-----------------------------------------------------------------------------
Begin(p, r) == req[p].at = "idle" /\ req' = [req EXCEPT ![p] = r]
Goto(p, place) == req' = [req EXCEPT ![p].at = place]
Done(p) == req' = [req EXCEPT ![p] = Idle]

Asks == {a \in AskIds : ask[a] # None}
Active == internship.status = "AKTIF"

(* A request that starts to work on a row while another one does.          *)
Meets(a) ==
  overlapped' = IF \E q \in Requests : req[q].ask = a THEN overlapped \cup {a}
                                                      ELSE overlapped

(* getMahasiswaById: what SSO says now, or what a cached snapshot says;    *)
(* None when the profile names no PA.                                      *)
PaSeen == {pa} \cup knownPa

-----------------------------------------------------------------------------
(* submitMentorApprovalRequest: one INSERT, whatever the student asked     *)
(* before.                                                                 *)
Submit(a, e) ==
  /\ ask[a] = None
  /\ ask' = [ask EXCEPT ![a] = [status |-> "PENDING", email |-> e,
                                mentor |-> None, reason |-> FALSE]]
  /\ UNCHANGED <<sso, internship, signature, req, history>>

(* Mutant: a request may be sent in again whatever became of it.           *)
ResubmitBegin_AnyStatus(p, a, e) ==
  /\ a \in Asks
  /\ Begin(p, [Idle EXCEPT !.at = "resubmit.write", !.ask = a, !.email = e])
  /\ Meets(a)
  /\ UNCHANGED <<ask, sso, internship, signature, mentored, cut>>

(* resubmitMentorApprovalRequest: the UPDATE names the id only and leaves  *)
(* sso_mentor_id alone.                                                    *)
ResubmitBegin(p, a, e) ==
  /\ a \in Asks
  /\ ask[a].status = "REJECTED"
  /\ Begin(p, [Idle EXCEPT !.at = "resubmit.write", !.ask = a, !.email = e])
  /\ Meets(a)
  /\ UNCHANGED <<ask, sso, internship, signature, mentored, cut>>

ResubmitWrite(p) ==
  LET r == req[p] IN
  /\ r.at = "resubmit.write"
  /\ ask' = [ask EXCEPT ![r.ask].status = "PENDING", ![r.ask].email = r.email,
                        ![r.ask].reason = FALSE]
  /\ Done(p)
  /\ UNCHANGED <<sso, internship, signature, history>>

(* rejectMentorApprovalRequest: any reviewer may.                          *)
RejectBegin(p, a) ==
  /\ a \in Asks
  /\ ask[a].status = "PENDING"
  /\ Begin(p, [Idle EXCEPT !.at = "reject.write", !.ask = a])
  /\ Meets(a)
  /\ UNCHANGED <<ask, sso, internship, signature, mentored, cut>>

RejectWrite(p) ==
  LET a == req[p].ask IN
  /\ req[p].at = "reject.write"
  /\ ask' = [ask EXCEPT ![a].status = "REJECTED", ![a].reason = TRUE]
  /\ Done(p)
  /\ UNCHANGED <<sso, internship, signature, history>>

-----------------------------------------------------------------------------
(* approveMentorApprovalRequest.                                           *)

ApproveBegin(p, a, d) ==
  /\ a \in Asks
  /\ ask[a].status = "PENDING"
  /\ Begin(p, [Idle EXCEPT !.at = "approve.student", !.ask = a, !.who = d,
                           !.email = ask[a].email])
  /\ Meets(a)
  /\ UNCHANGED <<ask, sso, internship, signature, mentored, cut>>

(* No profile anywhere ends it.                                            *)
ApproveStudent(p) ==
  /\ req[p].at = "approve.student"
  /\ \/ Done(p)
     \/ \E d \in PaSeen :
          Goto(p, IF d = req[p].who THEN "approve.internship" ELSE "approve.advisor")
  /\ UNCHANGED <<ask, sso, internship, signature, history>>

ApproveAdvisor(p) ==
  /\ req[p].at = "approve.advisor"
  /\ IF Active /\ req[p].who \in {internship.supervisor, internship.pa}
       THEN Goto(p, "approve.internship") ELSE Done(p)
  /\ UNCHANGED <<ask, sso, internship, signature, history>>

ApproveInternship(p) ==
  /\ req[p].at = "approve.internship"
  /\ IF Active THEN Goto(p, "approve.find") ELSE Done(p)
  /\ UNCHANGED <<ask, sso, internship, signature, history>>

(* Mutant: the lookup takes an account of another address.                 *)
ApproveFind_AnyMentor(p) ==
  /\ req[p].at = "approve.find"
  /\ \/ Done(p)
     \/ Goto(p, "approve.create")
     \/ \E c \in Accounts :
          /\ account[c] # None
          /\ req' = [req EXCEPT ![p].at = "approve.assign", ![p].mentor = c]
  /\ UNCHANGED <<ask, sso, internship, signature, history>>

(* No access token ends it.  fetchSsoMentorByEmail takes every failure for *)
(* "not found".                                                            *)
ApproveFind(p) ==
  /\ req[p].at = "approve.find"
  /\ \/ Done(p)
     \/ Goto(p, "approve.create")
     \/ \E c \in Accounts :
          /\ account[c] = req[p].email
          /\ req' = [req EXCEPT ![p].at = "approve.assign", ![p].mentor = c]
  /\ UNCHANGED <<ask, sso, internship, signature, history>>

(* Mutant: the answer of SSO is read without the new id.                   *)
ApproveCreate_NoId(p) ==
  /\ req[p].at = "approve.create"
  /\ \/ UNCHANGED account
     \/ \E c \in Accounts :
          /\ account[c] = None
          /\ account' = [account EXCEPT ![c] = req[p].email]
  /\ Done(p)
  /\ UNCHANGED <<ask, pa, knownPa, internship, signature, history>>

(* createSsoMentor: SSO refuses, or creates an account (whether it accepts *)
(* an address twice is not for this code to say).                          *)
ApproveCreate(p) ==
  /\ req[p].at = "approve.create"
  /\ \/ Done(p) /\ UNCHANGED account
     \/ \E c \in Accounts :
          /\ account[c] = None
          /\ account' = [account EXCEPT ![c] = req[p].email]
          /\ req' = [req EXCEPT ![p].at = "approve.assign", ![p].mentor = c]
  /\ UNCHANGED <<ask, pa, knownPa, internship, signature, history>>

(* By the id that approve.internship read, whatever became of it.          *)
ApproveAssign(p) ==
  /\ req[p].at = "approve.assign"
  /\ internship' = [internship EXCEPT !.mentor = req[p].mentor]
  /\ mentored' = mentored \cup {req[p].mentor}
  /\ Goto(p, "approve.signature")
  /\ UNCHANGED <<ask, sso, signature, overlapped, cut>>

(* Mutant: no mentor_signatures row is made sure of.                       *)
ApproveSignature_Skips(p) ==
  /\ req[p].at = "approve.signature"
  /\ Goto(p, "approve.write")
  /\ UNCHANGED <<ask, sso, internship, signature, history>>

ApproveSignature(p) ==
  /\ req[p].at = "approve.signature"
  /\ signature' = signature \cup {req[p].mentor}
  /\ Goto(p, "approve.write")
  /\ UNCHANGED <<ask, sso, internship, history>>

ApproveWrite(p) ==
  LET r == req[p] IN
  /\ r.at = "approve.write"
  /\ ask' = [ask EXCEPT ![r.ask].status = "APPROVED", ![r.ask].mentor = r.mentor,
                        ![r.ask].reason = FALSE]
  /\ Done(p)
  /\ UNCHANGED <<sso, internship, signature, history>>

-----------------------------------------------------------------------------
(* The dosen_pa_id column.  getMenteesProgress fills it in when it is      *)
(* missing ("self-healing"), syncMenteesProgress when SSO names the        *)
(* lecturer who asks; nothing clears it.                                   *)

HealBegin(p, d) ==
  /\ d = internship.supervisor /\ internship.pa = None
  /\ Begin(p, [Idle EXCEPT !.at = "sync.student", !.who = d, !.heal = TRUE])
  /\ UNCHANGED <<ask, sso, internship, signature, history>>

SyncBegin(p, d) ==
  /\ Active
  /\ d \notin {internship.supervisor, internship.pa}
  /\ Begin(p, [Idle EXCEPT !.at = "sync.student", !.who = d])
  /\ UNCHANGED <<ask, sso, internship, signature, history>>

SyncStudent(p) ==
  /\ req[p].at = "sync.student"
  /\ \/ Done(p)
     \/ \E d \in PaSeen \ {None} :
          /\ req[p].heal \/ d = req[p].who
          /\ req' = [req EXCEPT ![p].at = "sync.write", ![p].who = d]
  /\ UNCHANGED <<ask, sso, internship, signature, history>>

SyncWrite(p) ==
  /\ req[p].at = "sync.write"
  /\ internship' = [internship EXCEPT !.pa = req[p].who]
  /\ Done(p)
  /\ UNCHANGED <<ask, sso, signature, history>>

-----------------------------------------------------------------------------
(* SSO gives the student another Dosen PA; older snapshots keep the old    *)
(* one.                                                                    *)
ChangePa(d) ==
  /\ pa' = d
  /\ knownPa' = knownPa \cup {d}
  /\ UNCHANGED <<ask, account, internship, signature, req, history>>

(* calculateCombinedGrade ends the internship (module Grading).            *)
Finish ==
  /\ Active
  /\ internship' = [internship EXCEPT !.status = "SELESAI"]
  /\ UNCHANGED <<ask, sso, signature, req, history>>

(* The Worker is killed, or an awaited call throws: nothing is undone.     *)
Die(p) ==
  /\ Crashes
  /\ req[p].at # "idle"
  /\ cut' = IF req[p].at = "approve.assign" THEN cut \cup {req[p].mentor} ELSE cut
  /\ Done(p)
  /\ UNCHANGED <<ask, sso, internship, signature, mentored, overlapped>>

MentorStep(p) ==
  \/ ResubmitWrite(p) \/ RejectWrite(p)
  \/ ApproveStudent(p) \/ ApproveAdvisor(p) \/ ApproveInternship(p)
  \/ ApproveFind(p) \/ ApproveCreate(p) \/ ApproveAssign(p)
  \/ ApproveSignature(p) \/ ApproveWrite(p)
  \/ SyncStudent(p) \/ SyncWrite(p)

MentorCall(p) ==
  \/ \E a \in AskIds, d \in Dosens : ApproveBegin(p, a, d)
  \/ /\ "reject" \in Ops
     /\ \E a \in AskIds : \/ RejectBegin(p, a)
                          \/ \E e \in Emails : ResubmitBegin(p, a, e)
  \/ "advisor" \in Ops /\ \E d \in Dosens : HealBegin(p, d) \/ SyncBegin(p, d)

MentorOthers ==
  \/ \E a \in AskIds, e \in Emails : Submit(a, e)
  \/ "advisor" \in Ops /\ \E d \in Dosens : ChangePa(d)
  \/ Finish

MentorNext ==
  \/ \E p \in Requests : MentorStep(p) \/ MentorCall(p) \/ Die(p)
  \/ MentorOthers

MentorSpec == MentorInit /\ [][MentorNext]_vars

-----------------------------------------------------------------------------
(* An approved request is approved all the way: it names an account that   *)
(* exists in SSO and has its mentor_signatures row, and the internship has *)
(* a mentor.  The UPDATE of the request comes last, so this survives a     *)
(* Worker that dies after any of the four writes, two approvals at once,   *)
(* and rejections and resubmissions in between.                            *)
ApprovalComesLast ==
  \A a \in Asks : ask[a].status = "APPROVED" =>
    /\ ask[a].mentor \in signature
    /\ account[ask[a].mentor] # None
    /\ internship.mentor # None

(* A row that no two requests worked on at a time is approved for the      *)
(* mentor whose e-mail it shows, also when an earlier approval of it was   *)
(* cut anywhere and retried.                                               *)
ApprovedNamesItsMentor ==
  \A a \in Asks \ overlapped :
    ask[a].status = "APPROVED" => account[ask[a].mentor] = ask[a].email

(* The account that an approval creates in SSO is the internship's mentor  *)
(* at some time, or about to be, unless the Worker is killed just then: a  *)
(* rejection, a resubmission, another approval or the end of the           *)
(* internship does not strand it.                                          *)
AccountIsUsed ==
  \A c \in Accounts : account[c] # None =>
    \/ c \in mentored \cup cut
    \/ \E p \in Requests : req[p].at = "approve.assign" /\ req[p].mentor = c

(* mentor-workflow.service.ts:206, 307, 389: only pending requests are     *)
(* approved or rejected and only rejected ones sent in again, although the *)
(* UPDATE that does it comes up to eight steps after the look and names    *)
(* the id only: it takes a second request on the same row, in flight with  *)
(* the first, to break this; one that failed half way does not.            *)
StatusesInTurn ==
  [][\A a \in Asks \ overlapped : ask'[a].status # ask[a].status =>
       <<ask[a].status, ask'[a].status>> \in
          {<<"PENDING", "APPROVED">>, <<"PENDING", "REJECTED">>,
           <<"REJECTED", "PENDING">>}]_vars

-----------------------------------------------------------------------------
(* What messages of the code say and the interleavings break.              *)

(* mentor-workflow.service.ts:307 "Only pending requests can be approved": *)
(* a rejected one becomes approved by an approval that read it before.     *)
RejectedIsNotApproved ==
  [][\A a \in Asks : ask[a].status = "REJECTED" => ask'[a].status # "APPROVED"]_vars

(* mentor-workflow.service.ts:322 "Only the assigned Dosen PA/Pembimbing   *)
(* can approve this request": the dosen_pa_id column outlives the office.  *)
ColumnIsCurrentPa == internship.pa # None => internship.pa = pa

(* mentor-workflow.service.ts:329 "Check first, then create if missing":   *)
(* approvals that overlap, and a lookup that fails, create a second one.   *)
OneAccountPerEmail ==
  \A c, d \in Accounts : account[c] = account[d] /\ account[c] # None => c = d

(* When no request is in flight, an approved row names the internship's    *)
(* mentor: two approvals of one row may assign in one order and write in   *)
(* the other.                                                              *)
ApprovedIsAssigned ==
  (\A p \in Requests : req[p].at = "idle")
    /\ (\E a \in Asks : ask[a].status = "APPROVED") =>
    \E a \in Asks : ask[a].status = "APPROVED" /\ ask[a].mentor = internship.mentor
=============================================================================
