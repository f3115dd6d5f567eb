------------------------- MODULE MentorRequestsProofs -------------------------
(***************************************************************************)
(* Proofs about MentorRequests, for any number of dosens, request rows,    *)
(* addresses, accounts and HTTP requests.                                  *)
(*                                                                         *)
(* An approval is four writes in four places, each of which relies on what *)
(* the ones before it did.  MentorInv says of every HTTP request how far   *)
(* it got (ReqOK).  That stays true of it while others write because       *)
(* accounts, signatures and the history only grow, the internship never    *)
(* loses its mentor, and the address in a row changes only by a request    *)
(* that works on that row (Grows).                                         *)
(***************************************************************************)
EXTENDS MentorRequests, TLAPS

Approving == {"approve.student", "approve.advisor", "approve.internship",
              "approve.find", "approve.create", "approve.assign",
              "approve.signature", "approve.write"}

OnRow == Approving \cup {"reject.write", "resubmit.write"}

ReqOK(r) ==
  /\ r.at \in OnRow => r.ask \in Asks
  /\ r.at \in Approving \cup {"resubmit.write"} => r.email \in Emails
  /\ r.at \in Approving /\ r.ask \notin overlapped => r.email = ask[r.ask].email
  /\ r.at \in {"approve.assign", "approve.signature", "approve.write"} =>
       r.mentor \in Accounts /\ account[r.mentor] = r.email
  /\ r.at \in {"approve.signature", "approve.write"} =>
       r.mentor \in mentored /\ internship.mentor # None
  /\ r.at = "approve.write" => r.mentor \in signature

RowOK(a) ==
  /\ ask[a].reason <=> ask[a].status = "REJECTED"
  /\ ask[a].status = "APPROVED" =>
       /\ ask[a].mentor \in signature \cap mentored
       /\ account[ask[a].mentor] # None
       /\ internship.mentor # None
       /\ a \notin overlapped => account[ask[a].mentor] = ask[a].email

RowsOK == \A a \in Asks : RowOK(a)
ReqsOK == \A p \in Requests : ReqOK(req[p])

(* A row that was never worked on by two requests at a time is worked on   *)
(* by one at most.                                                         *)
Alone ==
  \A p, q \in Requests :
    req[p].ask = req[q].ask /\ req[p].ask \in AskIds \ overlapped => p = q

AssignedIsMentored == internship.mentor # None => internship.mentor \in mentored

MentorInv ==
  /\ MentorTypeOK /\ RowsOK /\ ReqsOK /\ Alone /\ AssignedIsMentored
  /\ AccountIsUsed

(* What a step of request p may do to what other requests rely on.         *)
Grows(p) ==
  /\ \A c \in Accounts : account[c] # None => account'[c] = account[c]
  /\ signature \subseteq signature' /\ mentored \subseteq mentored'
  /\ overlapped \subseteq overlapped'
  /\ internship.mentor # None => internship'.mentor # None
  /\ \A a \in Asks : /\ a \in Asks'
                     /\ ask'[a].email = ask[a].email \/ req[p].ask = a

-----------------------------------------------------------------------------
LEMMA MentorInitially == MentorInit => MentorInv
<1> SUFFICES ASSUME MentorInit PROVE MentorInv
  OBVIOUS
<1>0. PICK d \in Dosens \cup {None}, c \in {pa, None} :
        internship = [status |-> "AKTIF", mentor |-> None, supervisor |-> d, pa |-> c]
  BY DEF MentorInit
<1>1. MentorTypeOK
  <2>1. Idle \in Request
    BY DEF Idle, Request, Places
  <2>2. internship \in Internship
    BY <1>0 DEF MentorInit, Internship
  <2> QED BY <2>1, <2>2 DEF MentorInit, MentorTypeOK
<1>2. RowsOK
  BY DEF MentorInit, RowsOK, Asks
<1>3. ReqsOK
  BY DEF MentorInit, ReqsOK, ReqOK, Idle, OnRow, Approving
<1>4. Alone
  BY ConstantsAssumption DEF MentorInit, Alone, Idle
<1>5. AssignedIsMentored
  BY <1>0 DEF AssignedIsMentored
<1>6. AccountIsUsed
  BY DEF MentorInit, AccountIsUsed
<1> QED BY <1>1, <1>2, <1>3, <1>4, <1>5, <1>6 DEF MentorInv

(* What p does leaves what another request knows true.                     *)
LEMMA OthersKnow ==
  ASSUME MentorInv, NEW p \in Requests, NEW q \in Requests, p # q,
         Grows(p), req'[q] = req[q]
  PROVE  ReqOK(req[q])'
<1> DEFINE r == req[q]
<1>1. ReqOK(r) /\ r \in Request
  BY DEF MentorInv, ReqsOK, MentorTypeOK
<1>2. r.at \in OnRow => r.ask \in Asks'
  BY <1>1 DEF ReqOK, Grows
<1>3. r.at \in Approving /\ r.ask \notin overlapped' => r.email = ask'[r.ask].email
  <2> SUFFICES ASSUME r.at \in Approving, r.ask \notin overlapped'
               PROVE  r.email = ask'[r.ask].email
    OBVIOUS
  <2>1. r.ask \in Asks /\ r.ask \notin overlapped /\ r.email = ask[r.ask].email
    BY <1>1 DEF ReqOK, OnRow, Grows
  <2>2. req[p].ask # r.ask
    BY <2>1 DEF MentorInv, Alone, Asks
  <2> QED BY <2>1, <2>2 DEF Grows
<1>4. r.at \in {"approve.assign", "approve.signature", "approve.write"} =>
        r.mentor \in Accounts /\ account'[r.mentor] = r.email
  BY <1>1, ConstantsAssumption DEF ReqOK, Grows, Approving
<1>5. r.at \in {"approve.signature", "approve.write"} =>
        r.mentor \in mentored' /\ internship'.mentor # None
  BY <1>1 DEF ReqOK, Grows
<1>6. r.at = "approve.write" => r.mentor \in signature'
  BY <1>1 DEF ReqOK, Grows
<1>7. r.at \in Approving \cup {"resubmit.write"} => r.email \in Emails
  BY <1>1 DEF ReqOK
<1> QED BY <1>2, <1>3, <1>4, <1>5, <1>6, <1>7 DEF ReqOK

(* A row that p does not write keeps what the row invariant says.          *)
LEMMA RowStays ==
  ASSUME MentorInv, NEW p \in Requests, Grows(p), MentorTypeOK',
         NEW a \in Asks, ask'[a] = ask[a]
  PROVE  RowOK(a)'
<1>1. RowOK(a) /\ ask[a] \in AskRow
  BY DEF MentorInv, RowsOK, MentorTypeOK, Asks
<1>2. ask[a].status = "APPROVED" => ask[a].mentor \in Accounts
  BY <1>1 DEF RowOK, MentorInv, MentorTypeOK
<1> QED BY <1>1, <1>2 DEF RowOK, Grows

(* Nothing is added to account here: what strands no account.              *)
LEMMA UsedStays ==
  ASSUME MentorInv, NEW p \in Requests, NEW r, req' = [req EXCEPT ![p] = r],
         mentored \subseteq mentored', cut \subseteq cut',
         account' = account,
         req[p].at = "approve.assign" => req[p].mentor \in mentored' \cup cut'
  PROVE  AccountIsUsed'
<1> SUFFICES ASSUME NEW c \in Accounts, account[c] # None
             PROVE  \/ c \in mentored' \cup cut'
                    \/ \E q \in Requests : req'[q].at = "approve.assign" /\ req'[q].mentor = c
  BY DEF AccountIsUsed
<1>1. CASE c \in mentored \cup cut
  BY <1>1
<1>2. ASSUME NEW q \in Requests, req[q].at = "approve.assign", req[q].mentor = c
      PROVE  \/ c \in mentored' \cup cut'
             \/ req'[q].at = "approve.assign" /\ req'[q].mentor = c
  BY <1>2 DEF MentorInv, MentorTypeOK
<1> QED BY <1>1, <1>2 DEF MentorInv, AccountIsUsed

(* A step of p: it need only be shown what p knows and wrote.              *)
LEMMA Advances ==
  ASSUME MentorInv, NEW p \in Requests, NEW r \in Request,
         req' = [req EXCEPT ![p] = r],
         MentorTypeOK', Grows(p),
         r.ask \in {req[p].ask, None},
         ReqOK(r)',
         \A a \in Asks' : RowOK(a)' \/ (a \in Asks /\ ask'[a] = ask[a]),
         AssignedIsMentored', AccountIsUsed'
  PROVE  MentorInv'
<1>1. ReqsOK'
  <2> SUFFICES ASSUME NEW q \in Requests PROVE ReqOK(req[q])'
    BY DEF ReqsOK
  <2>1. CASE q = p
    <3>1. req'[p] = r BY DEF MentorInv, MentorTypeOK
    <3> QED BY <2>1, <3>1 DEF ReqOK
  <2>2. CASE q # p
    BY <2>2, OthersKnow DEF MentorInv, MentorTypeOK
  <2> QED BY <2>1, <2>2
<1>2. RowsOK'
  BY RowStays DEF RowsOK
<1>3. Alone'
  <2> SUFFICES ASSUME NEW s \in Requests, NEW q \in Requests,
                      req'[s].ask = req'[q].ask, req'[s].ask \in AskIds \ overlapped'
               PROVE  s = q
    BY DEF Alone
  <2>1. req'[p] = r /\ \A x \in Requests \ {p} : req'[x] = req[x]
    BY DEF MentorInv, MentorTypeOK
  <2>2. req[s].ask = req'[s].ask /\ req[q].ask = req'[q].ask
    BY <2>1, ConstantsAssumption
  <2> QED BY <2>2 DEF MentorInv, Alone, Grows
<1> QED BY <1>1, <1>2, <1>3 DEF MentorInv
-----------------------------------------------------------------------------
(* Steps that write to nothing but what p remembers.                       *)

LEMMA IdleOK == Idle \in Request /\ ReqOK(Idle)'
BY DEF Idle, Request, Places, ReqOK, OnRow, Approving

LEMMA Waits ==
  ASSUME MentorInv, NEW p \in Requests, NEW r \in Request,
         req' = [req EXCEPT ![p] = r],
         UNCHANGED <<ask, sso, internship, signature, history>>,
         r.ask \in {req[p].ask, None}, ReqOK(r),
         req[p].at # "approve.assign"
  PROVE  MentorInv'
<1> USE DEF sso, history
<1>1. MentorTypeOK'
  BY DEF MentorInv, MentorTypeOK
<1>2. Grows(p) /\ Asks' = Asks
  BY DEF Grows, Asks
<1>3. ReqOK(r)'
  BY <1>2 DEF ReqOK
<1>4. AssignedIsMentored'
  BY DEF MentorInv, AssignedIsMentored
<1>5. AccountIsUsed'
  BY UsedStays
<1> QED BY <1>1, <1>2, <1>3, <1>4, <1>5, Advances

LEMMA Ends ==
  ASSUME MentorInv, NEW p \in Requests, Done(p),
         UNCHANGED <<ask, sso, internship, signature, history>>,
         req[p].at # "approve.assign"
  PROVE  MentorInv'
<1>1. ReqOK(Idle)
  BY DEF Idle, ReqOK, OnRow, Approving
<1>2. Idle.ask = None
  BY DEF Idle
<1> QED BY <1>1, <1>2, IdleOK, Waits DEF Done

(* A request goes on to a place where no more has to be known.             *)
LEMMA GoesOn ==
  ASSUME MentorInv, NEW p \in Requests, NEW place \in Places, Goto(p, place),
         UNCHANGED <<ask, sso, internship, signature, history>>,
         req[p].at \in Approving \ {"approve.assign"},
         place \in Approving \ {"approve.assign", "approve.signature", "approve.write"}
  PROVE  MentorInv'
<1> DEFINE r == [req[p] EXCEPT !.at = place]
<1>0. req[p] \in Request /\ ReqOK(req[p])
  BY DEF MentorInv, MentorTypeOK, ReqsOK
<1>1. r \in Request
  BY <1>0 DEF Request
<1>2. ReqOK(r)
  BY <1>0 DEF ReqOK, Request, OnRow, Approving
<1>3. req' = [req EXCEPT ![p] = r] /\ r.ask = req[p].ask
  BY <1>0 DEF Goto, Request
<1> QED BY <1>1, <1>2, <1>3, Waits

LEMMA ReadsKeepInv ==
  ASSUME MentorInv, NEW p \in Requests,
         \/ ApproveStudent(p) \/ ApproveAdvisor(p) \/ ApproveInternship(p)
         \/ ApproveFind(p) \/ SyncStudent(p)
  PROVE  MentorInv'
<1>0. req[p] \in Request /\ ReqOK(req[p])
  BY DEF MentorInv, MentorTypeOK, ReqsOK
<1>1. CASE Done(p)
  BY <1>1, Ends DEF ApproveStudent, ApproveAdvisor, ApproveInternship, ApproveFind,
     SyncStudent
<1>2. CASE ApproveStudent(p) /\ ~Done(p)
  <2>1. PICK place \in {"approve.internship", "approve.advisor"} : Goto(p, place)
    BY <1>2 DEF ApproveStudent
  <2>2. place \in Places
    BY DEF Places
  <2>3. /\ req[p].at \in Approving \ {"approve.assign"}
        /\ place \in Approving \ {"approve.assign", "approve.signature", "approve.write"}
    BY <1>2 DEF ApproveStudent, Approving
  <2> QED BY <1>2, <2>1, <2>2, <2>3, GoesOn DEF ApproveStudent
<1>3. CASE ApproveAdvisor(p) /\ ~Done(p)
  BY <1>3, GoesOn DEF ApproveAdvisor, Approving, Places
<1>4. CASE ApproveInternship(p) /\ ~Done(p)
  BY <1>4, GoesOn DEF ApproveInternship, Approving, Places
<1>5. CASE ApproveFind(p) /\ ~Done(p)
  <2>1. CASE Goto(p, "approve.create")
    BY <1>5, <2>1, GoesOn DEF ApproveFind, Approving, Places
  <2>2. ASSUME NEW c \in Accounts, account[c] = req[p].email,
               req' = [req EXCEPT ![p].at = "approve.assign", ![p].mentor = c]
        PROVE  MentorInv'
    <3> DEFINE r == [req[p] EXCEPT !.at = "approve.assign", !.mentor = c]
    <3>1. r \in Request
      BY <1>0 DEF Request, Places
    <3>2. ReqOK(r)
      BY <1>0, <1>5, <2>2 DEF ApproveFind, ReqOK, Request, OnRow, Approving
    <3>3. r.ask = req[p].ask /\ req[p].at # "approve.assign"
      BY <1>0, <1>5 DEF ApproveFind, Request
    <3>4. /\ req' = [req EXCEPT ![p] = r]
          /\ UNCHANGED <<ask, sso, internship, signature, history>>
      BY <1>5, <2>2 DEF ApproveFind
    <3> HIDE DEF r
    <3> QED BY <3>1, <3>2, <3>3, <3>4, Waits
  <2> QED BY <1>5, <2>1, <2>2 DEF ApproveFind
<1>6. CASE SyncStudent(p) /\ ~Done(p)
  <2>1. PICK d \in PaSeen \ {None} :
          req' = [req EXCEPT ![p].at = "sync.write", ![p].who = d]
    BY <1>6 DEF SyncStudent
  <2>2. d \in Dosens
    BY DEF PaSeen, MentorInv, MentorTypeOK
  <2> DEFINE r == [req[p] EXCEPT !.at = "sync.write", !.who = d]
  <2>3. r \in Request
    BY <1>0, <2>2 DEF Request, Places
  <2>4. ReqOK(r)
    BY <1>0 DEF ReqOK, Request, OnRow, Approving
  <2>5. r.ask = req[p].ask /\ req[p].at # "approve.assign"
    BY <1>0, <1>6 DEF SyncStudent, Request
  <2>6. /\ req' = [req EXCEPT ![p] = r]
        /\ UNCHANGED <<ask, sso, internship, signature, history>>
    BY <1>6, <2>1 DEF SyncStudent
  <2> HIDE DEF r
  <2> QED BY <2>3, <2>4, <2>5, <2>6, Waits
<1> QED BY <1>1, <1>2, <1>3, <1>4, <1>5, <1>6

-----------------------------------------------------------------------------
(* Calls                                                                   *)

(* A request that starts on a row meets those that are on it already.      *)
LEMMA StartsOnRow ==
  ASSUME MentorInv, NEW p \in Requests, NEW r \in Request, Begin(p, r),
         r.ask \in Asks, Meets(r.ask), ReqOK(r),
         UNCHANGED <<ask, sso, internship, signature, mentored, cut>>
  PROVE  MentorInv'
<1> USE DEF sso
<1>1. req' = [req EXCEPT ![p] = r] /\ req[p].at = "idle"
  BY DEF Begin
<1>2. overlapped \subseteq overlapped' /\ overlapped' \in SUBSET AskIds
  BY DEF Meets, Asks, MentorInv, MentorTypeOK
<1>3. MentorTypeOK'
  BY <1>1, <1>2 DEF MentorInv, MentorTypeOK
<1>4. Grows(p) /\ Asks' = Asks
  BY <1>2 DEF Grows, Asks
<1>5. ReqsOK'
  <2> SUFFICES ASSUME NEW q \in Requests PROVE ReqOK(req[q])'
    BY DEF ReqsOK
  <2>1. CASE q = p
    <3>1. req'[p] = r
      BY <1>1 DEF MentorInv, MentorTypeOK
    <3> QED BY <1>2, <1>4, <2>1, <3>1 DEF ReqOK
  <2>2. CASE q # p
    BY <1>1, <1>4, <2>2, OthersKnow DEF MentorInv, MentorTypeOK
  <2> QED BY <2>1, <2>2
<1>6. RowsOK'
  BY <1>3, <1>4, RowStays DEF RowsOK
<1>7. Alone'
  <2> SUFFICES ASSUME NEW s \in Requests, NEW q \in Requests,
                      req'[s].ask = req'[q].ask, req'[s].ask \in AskIds \ overlapped'
               PROVE  s = q
    BY DEF Alone
  <2>1. req'[p] = r /\ \A x \in Requests \ {p} : req'[x] = req[x]
    BY <1>1 DEF MentorInv, MentorTypeOK
  <2>2. \A x \in Requests : req[x].ask = r.ask => r.ask \in overlapped'
    BY DEF Meets
  <2> QED BY <1>2, <2>1, <2>2 DEF MentorInv, Alone
<1>8. AssignedIsMentored'
  BY DEF MentorInv, AssignedIsMentored
<1>9. AccountIsUsed'
  BY <1>1, UsedStays
<1> QED BY <1>3, <1>5, <1>6, <1>7, <1>8, <1>9 DEF MentorInv

LEMMA CallsKeepInv ==
  ASSUME MentorInv, NEW p \in Requests, MentorCall(p)
  PROVE  MentorInv'
<1>0. \A a \in Asks : ask[a].email \in Emails
  BY DEF Asks, MentorInv, MentorTypeOK, AskRow
<1>1. ASSUME NEW a \in AskIds, NEW d \in Dosens, ApproveBegin(p, a, d)
      PROVE  MentorInv'
  <2> DEFINE r == [Idle EXCEPT !.at = "approve.student", !.ask = a, !.who = d,
                               !.email = ask[a].email]
  <2>1. a \in Asks /\ ask[a].email \in Emails
    BY <1>0, <1>1 DEF ApproveBegin
  <2>2. r \in Request
    BY <2>1 DEF Request, Idle, Places
  <2>3. ReqOK(r) /\ r.ask = a
    BY <2>1 DEF ReqOK, Idle, OnRow, Approving
  <2> QED BY <1>1, <2>1, <2>2, <2>3, StartsOnRow DEF ApproveBegin
<1>2. ASSUME NEW a \in AskIds, RejectBegin(p, a) PROVE MentorInv'
  <2> DEFINE r == [Idle EXCEPT !.at = "reject.write", !.ask = a]
  <2>1. r \in Request
    BY DEF Request, Idle, Places
  <2>2. ReqOK(r) /\ r.ask = a /\ a \in Asks
    BY <1>2 DEF ReqOK, Idle, OnRow, Approving, RejectBegin
  <2> QED BY <1>2, <2>1, <2>2, StartsOnRow DEF RejectBegin
<1>3. ASSUME NEW a \in AskIds, NEW e \in Emails, ResubmitBegin(p, a, e)
      PROVE  MentorInv'
  <2> DEFINE r == [Idle EXCEPT !.at = "resubmit.write", !.ask = a, !.email = e]
  <2>1. r \in Request
    BY DEF Request, Idle, Places
  <2>2. ReqOK(r) /\ r.ask = a /\ a \in Asks
    BY <1>3 DEF ReqOK, Idle, OnRow, Approving, ResubmitBegin
  <2> QED BY <1>3, <2>1, <2>2, StartsOnRow DEF ResubmitBegin
<1>4. ASSUME NEW r \in Request, Begin(p, r), r.at = "sync.student", r.ask = None,
             UNCHANGED <<ask, sso, internship, signature, history>>
      PROVE  MentorInv'
  <2>1. ReqOK(r)
    BY <1>4 DEF ReqOK, OnRow, Approving
  <2>2. req' = [req EXCEPT ![p] = r] /\ req[p].at # "approve.assign"
    BY <1>4 DEF Begin
  <2> QED BY <1>4, <2>1, <2>2, Waits
<1>5. ASSUME NEW d \in Dosens, HealBegin(p, d) PROVE MentorInv'
  <2> DEFINE r == [Idle EXCEPT !.at = "sync.student", !.who = d, !.heal = TRUE]
  <2>1. r \in Request /\ r.at = "sync.student" /\ r.ask = None
    BY DEF Request, Idle, Places
  <2> QED BY <1>4, <1>5, <2>1 DEF HealBegin
<1>6. ASSUME NEW d \in Dosens, SyncBegin(p, d) PROVE MentorInv'
  <2> DEFINE r == [Idle EXCEPT !.at = "sync.student", !.who = d]
  <2>1. r \in Request /\ r.at = "sync.student" /\ r.ask = None
    BY DEF Request, Idle, Places
  <2> QED BY <1>4, <1>6, <2>1 DEF SyncBegin
<1> QED BY <1>1, <1>2, <1>3, <1>5, <1>6 DEF MentorCall

-----------------------------------------------------------------------------
(* Writes                                                                  *)

(* Resubmission, rejection and approval of the row that p works on.        *)
LEMMA RowWritesKeepInv ==
  ASSUME MentorInv, NEW p \in Requests,
         ResubmitWrite(p) \/ RejectWrite(p) \/ ApproveWrite(p)
  PROVE  MentorInv'
<1> USE DEF sso, history
<1> PICK a : a = req[p].ask
  OBVIOUS
<1>0. req[p] \in Request /\ ReqOK(req[p])
  BY DEF MentorInv, MentorTypeOK, ReqsOK
<1>1. a \in Asks /\ a \in AskIds /\ ask[a] \in AskRow /\ RowOK(a)
  BY <1>0 DEF ResubmitWrite, RejectWrite, ApproveWrite, ReqOK, OnRow, Approving, Asks,
     MentorInv, MentorTypeOK, RowsOK
<1>2. /\ UNCHANGED <<sso, internship, signature, history>> /\ Done(p)
      /\ req[p].at # "approve.assign"
  BY DEF ResubmitWrite, RejectWrite, ApproveWrite
<1>3. \E row \in AskRow :
        /\ ask' = [ask EXCEPT ![a] = row]
        /\ row.reason <=> row.status = "REJECTED"
        /\ row.status = "APPROVED" =>
             /\ row.mentor \in signature \cap mentored
             /\ account[row.mentor] # None
             /\ internship.mentor # None
             /\ a \notin overlapped => account[row.mentor] = row.email
  <2>1. CASE ResubmitWrite(p)
    <3> DEFINE row == [ask[a] EXCEPT !.status = "PENDING", !.email = req[p].email,
                                     !.reason = FALSE]
    <3>1. row \in AskRow
      BY <1>0, <1>1, <2>1 DEF ResubmitWrite, ReqOK, AskRow
    <3>2. ask' = [ask EXCEPT ![a] = row]
      BY <2>1 DEF ResubmitWrite
    <3>3. row.reason = FALSE /\ row.status = "PENDING"
      BY <1>1 DEF AskRow
    <3> QED BY <3>1, <3>2, <3>3
  <2>2. CASE RejectWrite(p)
    <3> DEFINE row == [ask[a] EXCEPT !.status = "REJECTED", !.reason = TRUE]
    <3>1. row \in AskRow
      BY <1>1 DEF AskRow
    <3>2. ask' = [ask EXCEPT ![a] = row]
      BY <2>2 DEF RejectWrite
    <3>3. row.reason = TRUE /\ row.status = "REJECTED"
      BY <1>1 DEF AskRow
    <3> QED BY <3>1, <3>2, <3>3
  <2>3. CASE ApproveWrite(p)
    <3> DEFINE c == req[p].mentor
               row == [ask[a] EXCEPT !.status = "APPROVED", !.mentor = c,
                                     !.reason = FALSE]
    <3>1. /\ c \in Accounts /\ account[c] = req[p].email /\ req[p].email \in Emails
          /\ c \in signature \cap mentored /\ internship.mentor # None
          /\ a \notin overlapped => req[p].email = ask[a].email
      BY <1>0, <2>3 DEF ApproveWrite, ReqOK, Approving
    <3>2. row \in AskRow
      BY <1>1, <3>1 DEF AskRow
    <3>3. ask' = [ask EXCEPT ![a] = row]
      BY <2>3 DEF ApproveWrite
    <3>4. /\ row.reason = FALSE /\ row.status = "APPROVED" /\ row.mentor = c
          /\ row.email = ask[a].email
      BY <1>1 DEF AskRow
    <3>5. account[c] # None
      BY <3>1, ConstantsAssumption
    <3> QED BY <3>1, <3>2, <3>3, <3>4, <3>5
  <2> QED BY <2>1, <2>2, <2>3
<1>4. PICK row \in AskRow :
        /\ ask' = [ask EXCEPT ![a] = row]
        /\ row.reason <=> row.status = "REJECTED"
        /\ row.status = "APPROVED" =>
             /\ row.mentor \in signature \cap mentored
             /\ account[row.mentor] # None
             /\ internship.mentor # None
             /\ a \notin overlapped => account[row.mentor] = row.email
  BY <1>3
<1>5. ask'[a] = row /\ \A b \in AskIds \ {a} : ask'[b] = ask[b]
  BY <1>1, <1>4 DEF MentorInv, MentorTypeOK
<1>6. MentorTypeOK'
  BY <1>1, <1>2, <1>4, IdleOK DEF Done, MentorInv, MentorTypeOK
<1>7. Asks' = Asks
  BY <1>1, <1>5, NoneIsNoRow DEF Asks
<1>8. Grows(p)
  BY <1>2, <1>5, <1>7 DEF Grows, Asks
<1>9. RowOK(a)'
  BY <1>2, <1>4, <1>5 DEF RowOK
<1>10. \A b \in Asks' : RowOK(b)' \/ (b \in Asks /\ ask'[b] = ask[b])
  BY <1>5, <1>7, <1>9 DEF Asks
<1>11. AssignedIsMentored'
  BY <1>2 DEF MentorInv, AssignedIsMentored
<1>12. req' = [req EXCEPT ![p] = Idle] /\ Idle.ask = None
  BY <1>2 DEF Done, Idle
<1>13. AccountIsUsed'
  BY <1>2, <1>12, UsedStays
<1> QED BY <1>6, <1>8, <1>10, <1>11, <1>12, <1>13, IdleOK, Advances

(* SSO creates an account, which p is about to assign.                     *)
LEMMA CreateKeepsInv ==
  ASSUME MentorInv, NEW p \in Requests, ApproveCreate(p)
  PROVE  MentorInv'
<1> USE DEF sso, history
<1>0. req[p] \in Request /\ ReqOK(req[p])
  BY DEF MentorInv, MentorTypeOK, ReqsOK
<1>1. CASE Done(p) /\ UNCHANGED account
  BY <1>1, Ends DEF ApproveCreate
<1>2. ASSUME NEW c \in Accounts, account[c] = None,
             account' = [account EXCEPT ![c] = req[p].email],
             req' = [req EXCEPT ![p].at = "approve.assign", ![p].mentor = c]
      PROVE  MentorInv'
  <2> PICK r : r = [req[p] EXCEPT !.at = "approve.assign", !.mentor = c]
    OBVIOUS
  <2>1. /\ req[p].email \in Emails /\ req[p].ask \in Asks
        /\ req[p].ask \notin overlapped => req[p].email = ask[req[p].ask].email
    BY <1>0 DEF ApproveCreate, ReqOK, OnRow, Approving
  <2>2. r \in Request /\ req' = [req EXCEPT ![p] = r]
    BY <1>0, <1>2 DEF Request, Places
  <2>3. /\ r.at = "approve.assign" /\ r.ask = req[p].ask /\ r.email = req[p].email
        /\ r.mentor = c
    BY <1>0 DEF Request
  <2>4. account'[c] = req[p].email /\ \A d \in Accounts \ {c} : account'[d] = account[d]
    BY <1>2 DEF MentorInv, MentorTypeOK
  <2>5. MentorTypeOK'
    <3>1. MentorTypeOK
      BY DEF MentorInv
    <3>2. account' \in [Accounts -> Emails \cup {None}] /\ req' \in [Requests -> Request]
      BY <1>2, <2>1, <2>2, <3>1 DEF MentorTypeOK
    <3>3. UNCHANGED <<ask, pa, knownPa, internship, signature, mentored, overlapped, cut>>
      BY DEF ApproveCreate
    <3> QED BY <3>1, <3>2, <3>3 DEF MentorTypeOK
  <2>6. Grows(p) /\ Asks' = Asks
    BY <1>2, <2>4 DEF ApproveCreate, Grows, Asks
  <2>7. ReqOK(r)'
    BY <2>1, <2>3, <2>4, <2>6 DEF ApproveCreate, ReqOK, OnRow, Approving
  <2>8. AssignedIsMentored'
    BY DEF ApproveCreate, MentorInv, AssignedIsMentored
  <2>9. AccountIsUsed'
    <3> SUFFICES ASSUME NEW d \in Accounts, account'[d] # None
                 PROVE  \/ d \in mentored' \cup cut'
                        \/ \E q \in Requests :
                             req'[q].at = "approve.assign" /\ req'[q].mentor = d
      BY DEF AccountIsUsed
    <3>1. req'[p] = r /\ \A q \in Requests \ {p} : req'[q] = req[q]
      BY <2>2 DEF MentorInv, MentorTypeOK
    <3>2. CASE d = c
      BY <2>3, <3>1, <3>2
    <3>3. CASE d # c
      BY <2>4, <3>1, <3>3 DEF ApproveCreate, MentorInv, AccountIsUsed
    <3> QED BY <3>2, <3>3
  <2>10. \A a \in Asks' : a \in Asks /\ ask'[a] = ask[a]
    BY <2>6 DEF ApproveCreate
  <2> QED BY <2>2, <2>3, <2>5, <2>6, <2>7, <2>8, <2>9, <2>10, Advances
<1> QED BY <1>1, <1>2 DEF ApproveCreate

(* The internship gets its mentor, then the mentor its signatures row.     *)
LEMMA AssignKeepsInv ==
  ASSUME MentorInv, NEW p \in Requests, ApproveAssign(p) \/ ApproveSignature(p)
  PROVE  MentorInv'
<1> USE DEF sso, history
<1>0. req[p] \in Request /\ ReqOK(req[p])
  BY DEF MentorInv, MentorTypeOK, ReqsOK
<1>1. PICK place \in {"approve.signature", "approve.write"} : Goto(p, place)
  BY DEF ApproveAssign, ApproveSignature
<1>2. PICK r : r = [req[p] EXCEPT !.at = place]
  OBVIOUS
<1>3. /\ r \in Request /\ req' = [req EXCEPT ![p] = r]
      /\ r.at = place /\ r.ask = req[p].ask /\ r.email = req[p].email
      /\ r.mentor = req[p].mentor
  BY <1>0, <1>1, <1>2 DEF Goto, Request, Places
<1>4. /\ req[p].at \in {"approve.assign", "approve.signature"}
      /\ r.ask \in Asks /\ r.email \in Emails
      /\ r.ask \notin overlapped => r.email = ask[r.ask].email
      /\ r.mentor \in Accounts /\ account[r.mentor] = r.email
  BY <1>0, <1>3 DEF ApproveAssign, ApproveSignature, ReqOK, OnRow, Approving
<1>5. /\ UNCHANGED <<ask, account, pa, knownPa, overlapped, cut>> /\ Asks' = Asks
  BY DEF ApproveAssign, ApproveSignature, Asks
<1>6. /\ internship' \in Internship /\ internship'.mentor # None
      /\ internship'.mentor \in mentored' /\ mentored' \in SUBSET Accounts
      /\ signature' \in SUBSET Accounts /\ r.mentor \in mentored'
      /\ signature \subseteq signature' /\ mentored \subseteq mentored'
      /\ place = "approve.write" => r.mentor \in signature'
  <2>1. CASE ApproveAssign(p)
    <3>1. /\ internship' = [internship EXCEPT !.mentor = r.mentor]
          /\ mentored' = mentored \cup {r.mentor} /\ signature' = signature
      BY <1>3, <2>1 DEF ApproveAssign
    <3>2. internship \in Internship /\ place = "approve.signature"
      <4>1. req'[p].at = "approve.signature"
        BY <1>0, <2>1 DEF ApproveAssign, Goto, Request, MentorInv, MentorTypeOK
      <4> QED BY <1>3, <4>1 DEF MentorInv, MentorTypeOK
    <3> QED BY <1>4, <3>1, <3>2, ConstantsAssumption DEF MentorInv, MentorTypeOK, Internship
  <2>2. CASE ApproveSignature(p)
    <3>1. /\ req[p].mentor \in mentored /\ internship.mentor # None
      BY <1>0, <2>2 DEF ApproveSignature, ReqOK
    <3> QED BY <1>3, <1>4, <2>2, <3>1 DEF ApproveSignature, MentorInv, MentorTypeOK,
        AssignedIsMentored
  <2> QED BY <2>1, <2>2
<1>7. MentorTypeOK'
  BY <1>3, <1>5, <1>6 DEF MentorInv, MentorTypeOK
<1>8. Grows(p)
  BY <1>5, <1>6 DEF Grows
<1>9. ReqOK(r)'
  BY <1>3, <1>4, <1>5, <1>6 DEF ReqOK
<1>10. AssignedIsMentored'
  BY <1>6 DEF AssignedIsMentored
<1>11. AccountIsUsed'
  BY <1>3, <1>5, <1>6, UsedStays
<1>12. \A a \in Asks' : a \in Asks /\ ask'[a] = ask[a]
  BY <1>5
<1> QED BY <1>3, <1>7, <1>8, <1>9, <1>10, <1>11, <1>12, Advances

LEMMA SyncKeepsInv ==
  ASSUME MentorInv, NEW p \in Requests, SyncWrite(p)
  PROVE  MentorInv'
<1> USE DEF sso, history
<1>1. /\ internship' = [internship EXCEPT !.pa = req[p].who]
      /\ req' = [req EXCEPT ![p] = Idle] /\ Asks' = Asks
  BY DEF SyncWrite, Done, Asks
<1>2. req[p].who \in Dosens \cup {None} /\ internship \in Internship
  BY DEF MentorInv, MentorTypeOK, Request
<1>3. internship' \in Internship /\ internship'.mentor = internship.mentor
  BY <1>1, <1>2 DEF Internship
<1>4. MentorTypeOK'
  BY <1>1, <1>3, IdleOK DEF SyncWrite, MentorInv, MentorTypeOK
<1>5. Grows(p)
  BY <1>1, <1>3 DEF SyncWrite, Grows
<1>6. AssignedIsMentored'
  BY <1>3 DEF SyncWrite, MentorInv, AssignedIsMentored
<1>7. AccountIsUsed'
  BY <1>1, UsedStays DEF SyncWrite
<1>8. Idle.ask = None
  BY DEF Idle
<1>9. \A a \in Asks' : a \in Asks /\ ask'[a] = ask[a]
  BY <1>1 DEF SyncWrite
<1> QED BY <1>1, <1>4, <1>5, <1>6, <1>7, <1>8, <1>9, IdleOK, Advances

LEMMA DeathKeepsInv ==
  ASSUME MentorInv, NEW p \in Requests, Die(p)
  PROVE  MentorInv'
<1> USE DEF sso, history
<1>1. req' = [req EXCEPT ![p] = Idle] /\ Asks' = Asks /\ Idle.ask = None
  BY DEF Die, Done, Asks, Idle
<1>2. req[p] \in Request /\ ReqOK(req[p])
  BY DEF MentorInv, MentorTypeOK, ReqsOK
<1>3. /\ cut \subseteq cut' /\ cut' \in SUBSET Accounts
      /\ req[p].at = "approve.assign" => req[p].mentor \in cut'
  BY <1>2 DEF Die, ReqOK, MentorInv, MentorTypeOK
<1>4. MentorTypeOK'
  BY <1>1, <1>3, IdleOK DEF Die, MentorInv, MentorTypeOK
<1>5. Grows(p)
  BY <1>1 DEF Die, Grows
<1>6. AssignedIsMentored'
  BY DEF Die, MentorInv, AssignedIsMentored
<1>7. AccountIsUsed'
  BY <1>1, <1>3, UsedStays DEF Die
<1>8. \A a \in Asks' : a \in Asks /\ ask'[a] = ask[a]
  BY <1>1 DEF Die
<1> QED BY <1>1, <1>4, <1>5, <1>6, <1>7, <1>8, IdleOK, Advances

-----------------------------------------------------------------------------
(* What is not a request of this module: a new row of the student, SSO,    *)
(* the end of the internship.  No request relies on what they write.       *)

LEMMA OthersKeepInv ==
  ASSUME MentorInv, MentorOthers
  PROVE  MentorInv'
<1> USE DEF sso, history
<1>0. internship \in Internship /\ \A p \in Requests : ReqOK(req[p])
  BY DEF MentorInv, MentorTypeOK, ReqsOK
<1>1. ASSUME NEW a \in AskIds, NEW e \in Emails, Submit(a, e) PROVE MentorInv'
  <2> PICK row : row = [status |-> "PENDING", email |-> e, mentor |-> None, reason |-> FALSE]
    OBVIOUS
  <2>1. /\ row \in AskRow /\ row.status = "PENDING" /\ row.reason = FALSE
        /\ ask' = [ask EXCEPT ![a] = row] /\ ask[a] = None
    BY <1>1 DEF Submit, AskRow
  <2>2. ask'[a] = row /\ \A b \in AskIds \ {a} : ask'[b] = ask[b]
    BY <2>1 DEF MentorInv, MentorTypeOK
  <2>3. MentorTypeOK'
    BY <1>1, <2>1 DEF Submit, MentorInv, MentorTypeOK
  <2>4. Asks' = Asks \cup {a} /\ a \notin Asks
    BY <2>1, <2>2, NoneIsNoRow DEF Asks
  <2>5. RowsOK'
    <3> SUFFICES ASSUME NEW b \in Asks' PROVE RowOK(b)'
      BY DEF RowsOK
    <3>1. CASE b = a
      BY <2>1, <2>2, <3>1 DEF RowOK
    <3>2. CASE b # a
      BY <1>1, <2>2, <2>4, <3>2 DEF Submit, MentorInv, RowsOK, RowOK, Asks
    <3> QED BY <3>1, <3>2
  <2>6. ReqsOK'
    <3> SUFFICES ASSUME NEW p \in Requests PROVE ReqOK(req[p])'
      BY DEF ReqsOK
    <3>1. req[p].at \in OnRow => ask'[req[p].ask] = ask[req[p].ask]
      BY <1>0, <2>2, <2>4 DEF ReqOK, Asks
    <3> QED BY <1>0, <1>1, <2>4, <3>1 DEF Submit, ReqOK, OnRow
  <2>7. Alone' /\ AssignedIsMentored' /\ AccountIsUsed'
    BY <1>1 DEF Submit, MentorInv, Alone, AssignedIsMentored, AccountIsUsed
  <2> QED BY <2>3, <2>5, <2>6, <2>7 DEF MentorInv
<1>2. ASSUME NEW d \in Dosens, ChangePa(d) PROVE MentorInv'
  <2>1. UNCHANGED <<ask, account, internship, signature, req, history>> /\ Asks' = Asks
    BY <1>2 DEF ChangePa, Asks
  <2>2. MentorTypeOK'
    BY <1>2 DEF ChangePa, MentorInv, MentorTypeOK
  <2>3. RowsOK' /\ ReqsOK'
    BY <2>1 DEF MentorInv, RowsOK, RowOK, ReqsOK, ReqOK
  <2>4. Alone' /\ AssignedIsMentored' /\ AccountIsUsed'
    BY <2>1 DEF MentorInv, Alone, AssignedIsMentored, AccountIsUsed
  <2> QED BY <2>2, <2>3, <2>4 DEF MentorInv
<1>3. CASE Finish
  <2>1. /\ UNCHANGED <<ask, account, pa, knownPa, signature, req, mentored, overlapped, cut>>
        /\ Asks' = Asks
    BY <1>3 DEF Finish, Asks
  <2>2. internship' \in Internship /\ internship'.mentor = internship.mentor
    BY <1>0, <1>3 DEF Finish, Internship
  <2>3. MentorTypeOK'
    BY <2>1, <2>2 DEF MentorInv, MentorTypeOK
  <2>4. RowsOK' /\ ReqsOK'
    BY <2>1, <2>2 DEF MentorInv, RowsOK, RowOK, ReqsOK, ReqOK
  <2>5. Alone' /\ AssignedIsMentored' /\ AccountIsUsed'
    BY <2>1, <2>2 DEF MentorInv, Alone, AssignedIsMentored, AccountIsUsed
  <2> QED BY <2>3, <2>4, <2>5 DEF MentorInv
<1> QED BY <1>1, <1>2, <1>3 DEF MentorOthers

-----------------------------------------------------------------------------
LEMMA NothingKeepsInv ==
  ASSUME MentorInv, UNCHANGED vars
  PROVE  MentorInv'
<1>1. UNCHANGED <<ask, account, pa, knownPa, internship, signature, req, mentored,
                  overlapped, cut>> /\ Asks' = Asks
  BY DEF vars, sso, history, Asks
<1> QED BY <1>1 DEF MentorInv, MentorTypeOK, RowsOK, RowOK, ReqsOK, ReqOK, Alone,
    AssignedIsMentored, AccountIsUsed

LEMMA MentorKeepsInv ==
  ASSUME MentorInv, [MentorNext]_vars
  PROVE  MentorInv'
<1>1. ASSUME NEW p \in Requests, MentorStep(p) PROVE MentorInv'
  BY <1>1, ReadsKeepInv, RowWritesKeepInv, CreateKeepsInv, AssignKeepsInv, SyncKeepsInv
     DEF MentorStep
<1> QED BY <1>1, CallsKeepInv, DeathKeepsInv, OthersKeepInv, NothingKeepsInv DEF MentorNext

(* An account that was assigned once is remembered.                        *)
LEMMA MentoredGrows ==
  ASSUME [MentorNext]_vars
  PROVE  mentored \subseteq mentored'
<1> USE DEF vars, sso, history
<1>1. ASSUME NEW p \in Requests, MentorStep(p) PROVE mentored \subseteq mentored'
  BY <1>1 DEF MentorStep, ResubmitWrite, RejectWrite, ApproveStudent, ApproveAdvisor,
     ApproveInternship, ApproveFind, ApproveCreate, ApproveAssign, ApproveSignature,
     ApproveWrite, SyncStudent, SyncWrite
<1>2. ASSUME NEW p \in Requests, MentorCall(p) PROVE mentored \subseteq mentored'
  BY <1>2 DEF MentorCall, ApproveBegin, RejectBegin, ResubmitBegin, HealBegin, SyncBegin
<1>3. ASSUME NEW p \in Requests, Die(p) PROVE mentored \subseteq mentored'
  BY <1>3 DEF Die
<1>4. CASE MentorOthers
  BY <1>4 DEF MentorOthers, Submit, ChangePa, Finish
<1> QED BY <1>1, <1>2, <1>3, <1>4 DEF MentorNext

LEMMA MentorInvariance == MentorSpec => []MentorInv
BY MentorInitially, MentorKeepsInv, PTL DEF MentorSpec

(* Every variable keeps its type; no row of SSO or of the tables is lost.  *)
THEOREM MentorTypesHold == MentorSpec => []MentorTypeOK
BY MentorInvariance, PTL DEF MentorInv

(* An approved request names an account that exists, with its signatures   *)
(* row, and the internship has a mentor: whatever dies, overlaps or is     *)
(* rejected on the way, because the UPDATE of the request comes last.      *)
THEOREM ApprovalAlwaysComesLast == MentorSpec => []ApprovalComesLast
<1>1. MentorInv => ApprovalComesLast
  BY DEF MentorInv, RowsOK, RowOK, ApprovalComesLast
<1> QED BY <1>1, MentorInvariance, PTL

(* A row that no two requests worked on at a time is approved for the      *)
(* mentor whose address it shows, after any number of retries.             *)
THEOREM ApprovedAlwaysNamesItsMentor == MentorSpec => []ApprovedNamesItsMentor
<1>1. MentorInv => ApprovedNamesItsMentor
  BY DEF MentorInv, RowsOK, RowOK, ApprovedNamesItsMentor
<1> QED BY <1>1, MentorInvariance, PTL

(* Only a Worker that is killed just before the assignment strands the     *)
(* account an approval created in SSO.                                     *)
THEOREM AccountIsAlwaysUsed == MentorSpec => []AccountIsUsed
BY MentorInvariance, PTL DEF MentorInv
-----------------------------------------------------------------------------
(* Statuses                                                                *)

(* What a request has looked up of a row that it is alone on stays true    *)
(* until it writes.                                                        *)
TurnOK(r) ==
  r.ask \notin overlapped =>
    /\ r.at \in Approving \cup {"reject.write"} => ask[r.ask].status = "PENDING"
    /\ r.at = "resubmit.write" => ask[r.ask].status = "REJECTED"

Turns == \A p \in Requests : TurnOK(req[p])

(* Steps after which request p waits with what it knew, or with no row.    *)
LEMMA WaitingKeepsTurns ==
  ASSUME Turns, NEW p \in Requests, UNCHANGED <<ask, overlapped>>,
         \A q \in Requests \ {p} : req'[q] = req[q],
         \/ req'[p].at \notin OnRow
         \/ /\ {req'[p].at, req[p].at} \subseteq Approving
            /\ req'[p].ask = req[p].ask
  PROVE  Turns'
<1> SUFFICES ASSUME NEW q \in Requests PROVE TurnOK(req[q])'
  BY DEF Turns
<1>1. TurnOK(req[p]) /\ TurnOK(req[q])
  BY DEF Turns
<1>2. CASE q = p
  BY <1>1, <1>2 DEF TurnOK, OnRow, Approving
<1>3. CASE q # p
  BY <1>1, <1>3 DEF TurnOK
<1> QED BY <1>2, <1>3

LEMMA StepsKeepTurns ==
  ASSUME MentorInv, Turns, NEW p \in Requests,
         \/ ApproveStudent(p) \/ ApproveAdvisor(p) \/ ApproveInternship(p)
         \/ ApproveFind(p) \/ ApproveCreate(p) \/ ApproveAssign(p)
         \/ ApproveSignature(p) \/ SyncStudent(p) \/ SyncWrite(p) \/ Die(p)
         \/ \E d \in Dosens : HealBegin(p, d) \/ SyncBegin(p, d)
  PROVE  Turns' /\ UNCHANGED ask
<1>0. req \in [Requests -> Request] /\ req[p] \in Request
  BY DEF MentorInv, MentorTypeOK
<1>1. UNCHANGED <<ask, overlapped>>
  BY DEF ApproveStudent, ApproveAdvisor, ApproveInternship, ApproveFind, ApproveCreate,
     ApproveAssign, ApproveSignature, SyncStudent, SyncWrite, Die, HealBegin, SyncBegin,
     history
<1>2. ASSUME NEW place \in Approving, Goto(p, place), req[p].at \in Approving PROVE Turns'
  BY <1>0, <1>1, <1>2, WaitingKeepsTurns DEF Goto, Request
<1>3. ASSUME Done(p) PROVE Turns'
  BY <1>0, <1>1, <1>3, WaitingKeepsTurns DEF Done, Idle, OnRow, Approving
<1>4. CASE ApproveStudent(p) \/ ApproveAdvisor(p) \/ ApproveInternship(p)
           \/ ApproveAssign(p) \/ ApproveSignature(p)
  BY <1>2, <1>3, <1>4 DEF ApproveStudent, ApproveAdvisor, ApproveInternship,
     ApproveAssign, ApproveSignature, Approving
<1>5. CASE ApproveFind(p) \/ ApproveCreate(p)
  <2>1. ASSUME NEW c,
               req' = [req EXCEPT ![p].at = "approve.assign", ![p].mentor = c]
        PROVE  Turns'
    <3>1. req[p].at \in Approving
      BY <1>5 DEF ApproveFind, ApproveCreate, Approving
    <3>2. req'[p].at = "approve.assign" /\ req'[p].ask = req[p].ask
      BY <1>0, <2>1 DEF Request
    <3> QED BY <1>0, <1>1, <2>1, <3>1, <3>2, WaitingKeepsTurns DEF Approving
  <2>2. "approve.create" \in Approving /\ (ApproveFind(p) => req[p].at \in Approving)
    BY DEF ApproveFind, Approving
  <2> QED BY <1>2, <1>3, <1>5, <2>1, <2>2 DEF ApproveFind, ApproveCreate
<1>6. CASE SyncStudent(p) \/ SyncWrite(p) \/ Die(p)
  <2>1. ASSUME NEW d,
               req' = [req EXCEPT ![p].at = "sync.write", ![p].who = d]
        PROVE  Turns'
    <3>1. req'[p].at = "sync.write"
      BY <1>0, <2>1 DEF Request
    <3> QED BY <1>0, <1>1, <2>1, <3>1, WaitingKeepsTurns DEF OnRow, Approving
  <2> QED BY <1>3, <1>6, <2>1 DEF SyncStudent, SyncWrite, Die
<1>7. ASSUME NEW d \in Dosens, HealBegin(p, d) \/ SyncBegin(p, d) PROVE Turns'
  <2>1. ASSUME NEW r, Begin(p, r), r.at = "sync.student" PROVE Turns'
    BY <1>0, <1>1, <2>1, WaitingKeepsTurns DEF Begin, OnRow, Approving
  <2>2. /\ [Idle EXCEPT !.at = "sync.student", !.who = d, !.heal = TRUE].at = "sync.student"
        /\ [Idle EXCEPT !.at = "sync.student", !.who = d].at = "sync.student"
    BY DEF Idle
  <2> QED BY <1>7, <2>1, <2>2 DEF HealBegin, SyncBegin
<1> QED BY <1>1, <1>4, <1>5, <1>6, <1>7

(* The row that a request starts on has the status that it looked for.     *)
LEMMA StartsKeepTurns ==
  ASSUME MentorInv, Turns, NEW p \in Requests, NEW a \in AskIds,
         \/ \E d \in Dosens : ApproveBegin(p, a, d)
         \/ RejectBegin(p, a)
         \/ \E e \in Emails : ResubmitBegin(p, a, e)
  PROVE  Turns' /\ UNCHANGED ask
<1>0. req \in [Requests -> Request]
  BY DEF MentorInv, MentorTypeOK
<1>1. UNCHANGED ask /\ Meets(a)
  BY DEF ApproveBegin, RejectBegin, ResubmitBegin
<1>2. overlapped \subseteq overlapped'
  BY <1>1 DEF Meets
<1> DEFINE Looked(r) ==
      /\ Begin(p, r) /\ r.ask = a
      /\ \/ /\ r.at \in {"approve.student", "reject.write"}
            /\ ask[a].status = "PENDING"
         \/ r.at = "resubmit.write" /\ ask[a].status = "REJECTED"
<1>3. PICK r : Looked(r)
  <2>1. ASSUME NEW d \in Dosens, ApproveBegin(p, a, d) PROVE \E r : Looked(r)
    <3> DEFINE s == [Idle EXCEPT !.at = "approve.student", !.ask = a, !.who = d,
                                 !.email = ask[a].email]
    <3>1. s.at = "approve.student" /\ s.ask = a
      BY DEF Idle
    <3>2. Looked(s)
      BY <2>1, <3>1 DEF ApproveBegin
    <3> QED BY <3>2
  <2>2. ASSUME RejectBegin(p, a) PROVE \E r : Looked(r)
    <3> DEFINE s == [Idle EXCEPT !.at = "reject.write", !.ask = a]
    <3>1. s.at = "reject.write" /\ s.ask = a
      BY DEF Idle
    <3>2. Looked(s)
      BY <2>2, <3>1 DEF RejectBegin
    <3> QED BY <3>2
  <2>3. ASSUME NEW e \in Emails, ResubmitBegin(p, a, e) PROVE \E r : Looked(r)
    <3> DEFINE s == [Idle EXCEPT !.at = "resubmit.write", !.ask = a, !.email = e]
    <3>1. s.at = "resubmit.write" /\ s.ask = a
      BY DEF Idle
    <3>2. Looked(s)
      BY <2>3, <3>1 DEF ResubmitBegin
    <3> QED BY <3>2
  <2> QED BY <2>1, <2>2, <2>3
<1>4. req'[p] = r /\ \A q \in Requests \ {p} : req'[q] = req[q]
  BY <1>0, <1>3 DEF Begin
<1>5. ASSUME NEW q \in Requests PROVE TurnOK(req[q])'
  <2>1. CASE q = p
    BY <1>1, <1>3, <1>4, <2>1 DEF TurnOK, Approving
  <2>2. CASE q # p
    BY <1>1, <1>2, <1>4, <2>2 DEF Turns, TurnOK
  <2> QED BY <2>1, <2>2
<1> QED BY <1>1, <1>5 DEF Turns

(* A write is the last step of its request; whoever is alone on a row is   *)
(* on another one.                                                         *)
LEMMA WritesKeepTurns ==
  ASSUME MentorInv, Turns, NEW p \in Requests,
         ResubmitWrite(p) \/ RejectWrite(p) \/ ApproveWrite(p)
  PROVE  Turns'
<1>0. req \in [Requests -> Request] /\ ask \in [AskIds -> AskRow \cup {None}]
  BY DEF MentorInv, MentorTypeOK
<1>1. UNCHANGED overlapped /\ Done(p)
  BY DEF ResubmitWrite, RejectWrite, ApproveWrite, history
<1>2. \A a \in AskIds \ {req[p].ask} : ask'[a] = ask[a]
  BY <1>0 DEF ResubmitWrite, RejectWrite, ApproveWrite
<1>3. req'[p].at = "idle" /\ \A q \in Requests \ {p} : req'[q] = req[q]
  BY <1>0, <1>1 DEF Done, Idle
<1>4. ReqOK(req[p]) /\ req[p].at \in OnRow
  BY DEF MentorInv, ReqsOK, ResubmitWrite, RejectWrite, ApproveWrite, OnRow, Approving
<1>5. ASSUME NEW q \in Requests PROVE TurnOK(req[q])'
  <2>1. CASE q = p
    BY <1>3, <2>1 DEF TurnOK, Approving
  <2>2. CASE q # p /\ (req[q].at \notin OnRow \/ req[q].ask \in overlapped)
    BY <1>1, <1>3, <2>2 DEF TurnOK, OnRow
  <2>3. CASE q # p /\ req[q].at \in OnRow /\ req[q].ask \notin overlapped
    <3>1. req[q].ask \in AskIds
      BY <2>3 DEF MentorInv, ReqsOK, ReqOK, Asks
    <3>2. req[q].ask # req[p].ask
      BY <2>3, <3>1 DEF MentorInv, Alone
    <3> QED BY <1>1, <1>2, <1>3, <2>3, <3>1, <3>2 DEF Turns, TurnOK
  <2> QED BY <2>1, <2>2, <2>3
<1> QED BY <1>5 DEF Turns

LEMMA OthersKeepTurns ==
  ASSUME MentorInv, Turns, MentorOthers
  PROVE  Turns' /\ \A a \in Asks : ask'[a] = ask[a]
<1>1. UNCHANGED <<req, overlapped>>
  BY DEF MentorOthers, Submit, ChangePa, Finish, history
<1>2. \A a \in Asks : ask'[a] = ask[a]
  BY DEF MentorOthers, Submit, ChangePa, Finish, Asks, MentorInv, MentorTypeOK
<1>3. ASSUME NEW q \in Requests PROVE TurnOK(req[q])'
  <2>1. req[q].at \in OnRow => req[q].ask \in Asks
    BY DEF MentorInv, ReqsOK, ReqOK
  <2> QED BY <1>1, <1>2, <2>1 DEF Turns, TurnOK, OnRow
<1> QED BY <1>2, <1>3 DEF Turns

LEMMA MentorKeepsTurns == MentorInv /\ Turns /\ [MentorNext]_vars => Turns'
<1> SUFFICES ASSUME MentorInv, Turns, [MentorNext]_vars PROVE Turns'
  OBVIOUS
<1>1. ASSUME NEW p \in Requests, MentorStep(p) \/ Die(p) PROVE Turns'
  BY <1>1, StepsKeepTurns, WritesKeepTurns DEF MentorStep
<1>2. ASSUME NEW p \in Requests, MentorCall(p) PROVE Turns'
  BY <1>2, StepsKeepTurns, StartsKeepTurns DEF MentorCall
<1>3. CASE UNCHANGED vars
  BY <1>3 DEF vars, history, Turns, TurnOK
<1> QED BY <1>1, <1>2, <1>3, OthersKeepTurns DEF MentorNext

(* Only pending requests are approved or rejected and only rejected ones   *)
(* sent in again, on every row that two requests never worked on at a time *)
(* - whoever dies where, and however the rest overlaps.                    *)
THEOREM StatusesAlwaysInTurn == MentorSpec => StatusesInTurn
<1> DEFINE InTurn ==
      \A a \in Asks \ overlapped : ask'[a].status # ask[a].status =>
        <<ask[a].status, ask'[a].status>> \in
           {<<"PENDING", "APPROVED">>, <<"PENDING", "REJECTED">>, <<"REJECTED", "PENDING">>}
<1>1. MentorInv /\ Turns /\ [MentorNext]_vars => [InTurn]_vars
  <2> SUFFICES ASSUME MentorInv, Turns, MentorNext, NEW a \in Asks \ overlapped,
                      ask'[a].status # ask[a].status
               PROVE  <<ask[a].status, ask'[a].status>> \in
                        {<<"PENDING", "APPROVED">>, <<"PENDING", "REJECTED">>,
                         <<"REJECTED", "PENDING">>}
    OBVIOUS
  <2>0. ask \in [AskIds -> AskRow \cup {None}] /\ a \in AskIds /\ ask[a] \in AskRow
    BY DEF MentorInv, MentorTypeOK, Asks
  <2>1. PICK p \in Requests : ResubmitWrite(p) \/ RejectWrite(p) \/ ApproveWrite(p)
    <3>1. \A p \in Requests : MentorCall(p) \/ Die(p) => UNCHANGED ask
      BY StepsKeepTurns, StartsKeepTurns DEF MentorCall
    <3>2. PICK p \in Requests : MentorStep(p)
      BY <3>1, OthersKeepTurns DEF MentorNext
    <3> QED BY <3>2, StepsKeepTurns DEF MentorStep
  <2>2. a = req[p].ask
    BY <2>0, <2>1 DEF ResubmitWrite, RejectWrite, ApproveWrite
  <2>3. TurnOK(req[p])
    BY DEF Turns
  <2>4. CASE ResubmitWrite(p)
    <3>1. ask[a].status = "REJECTED"
      BY <2>2, <2>3, <2>4 DEF TurnOK, ResubmitWrite
    <3>2. ask'[a].status = "PENDING"
      BY <2>0, <2>2, <2>4 DEF ResubmitWrite, AskRow
    <3> QED BY <3>1, <3>2
  <2>5. CASE RejectWrite(p)
    <3>1. ask[a].status = "PENDING"
      BY <2>2, <2>3, <2>5 DEF TurnOK, RejectWrite
    <3>2. ask'[a].status = "REJECTED"
      BY <2>0, <2>2, <2>5 DEF RejectWrite, AskRow
    <3> QED BY <3>1, <3>2
  <2>6. CASE ApproveWrite(p)
    <3>1. ask[a].status = "PENDING"
      BY <2>2, <2>3, <2>6 DEF TurnOK, ApproveWrite, Approving
    <3>2. ask'[a].status = "APPROVED"
      BY <2>0, <2>2, <2>6 DEF ApproveWrite, AskRow
    <3> QED BY <3>1, <3>2
  <2> QED BY <2>1, <2>4, <2>5, <2>6
<1>2. MentorInit => Turns
  BY DEF MentorInit, Turns, TurnOK, Idle, Approving
<1>3. MentorSpec => [][InTurn]_vars
  BY <1>1, <1>2, MentorKeepsTurns, MentorInvariance, PTL DEF MentorSpec
<1> QED BY <1>3 DEF StatusesInTurn
=============================================================================
