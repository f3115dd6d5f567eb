------------------------------ MODULE Logbooks ------------------------------
(***************************************************************************)
(* The logbook of the same student's internship, composed with the mentor  *)
(* requests that say whose mentee the student is: the student writes,      *)
(* edits and deletes entries while they are PENDING or REJECTED, a mentor  *)
(* approves or rejects them.  Every check is a read of its own and every   *)
(* write names the entry's id only.                                        *)
(*                                                                         *)
(* submitLogbook touches updated_at and nothing else; it is left out, and  *)
(* so is a Worker that dies: each of these requests writes once, at its    *)
(* end, so a dead one leaves what one that never takes its last step does. *)
(* Photos are objects in storage (module Files); here attaching one        *)
(* changes an entry's contents.                                            *)
(***************************************************************************)
EXTENDS MentorRequests

CONSTANTS
  LogIds,    \* bound on the rows of logbooks
  Texts,     \* contents of an entry, its photo included
  MaxFlight  \* bound on requests in flight, of both kinds

ASSUME LogbooksAssumption == MaxFlight \in Nat /\ None \notin LogIds \cup Texts

VARIABLES
  entry,  \* logbooks table
  task    \* the logbook requests in flight and what they remember

logVars == <<entry, task>>
allVars == <<vars, logVars>>

-----------------------------------------------------------------------------
LogRow == [status : {"unused", "PENDING", "APPROVED", "REJECTED", "deleted"},
           text : Texts \cup {None}, by : Accounts \cup {None}, reason : BOOLEAN]

Unused == [status |-> "unused", text |-> None, by |-> None, reason |-> FALSE]

StudentOps == {"edit", "photo", "delete"}
MentorOps == {"approve", "reject"}

ASSUME NoneIsNoOp == None \notin StudentOps \cup MentorOps

(* late: history, the entry was approved after this request had read it.   *)
Task == [at : {"idle", "create", "owner", "write", "direct", "fallback", "all"},
         op : StudentOps \cup MentorOps \cup {None}, entry : LogIds \cup {None},
         text : Texts \cup {None}, who : Accounts \cup {None},
         renew : BOOLEAN, late : BOOLEAN]

NoTask == [at |-> "idle", op |-> None, entry |-> None, text |-> None,
           who |-> None, renew |-> FALSE, late |-> FALSE]

TypeOK ==
  /\ MentorTypeOK
  /\ entry \in [LogIds -> LogRow]
  /\ task \in [Requests -> Task]

Init ==
  /\ MentorInit
  /\ entry = [e \in LogIds |-> Unused]
  /\ task = [p \in Requests |-> NoTask]

-----------------------------------------------------------------------------
(* Bound: both kinds of requests share MaxFlight.                          *)
Room ==
  Cardinality({p \in Requests : req[p].at # "idle"}) +
  Cardinality({p \in Requests : task[p].at # "idle"}) < MaxFlight

Start(p, t) == task[p].at = "idle" /\ Room /\ task' = [task EXCEPT ![p] = t]
Move(p, place) == task' = [task EXCEPT ![p].at = place]
End(p) == task' = [task EXCEPT ![p] = NoTask]

Entries == {e \in LogIds : entry[e].status \in {"PENDING", "APPROVED", "REJECTED"}}

(* getMentees: the mentor of the internship, or else whoever an approved   *)
(* request of the student names.                                           *)
Direct(m) == internship.mentor = m
Fallback(m) == \E a \in Asks : ask[a].status = "APPROVED" /\ ask[a].mentor = m
Supervises(m) == Direct(m) \/ Fallback(m)

-----------------------------------------------------------------------------
(* createLogbook: the active internship is read, then the row inserted.    *)

CreateBegin(p, x) ==
  /\ Active
  /\ Start(p, [NoTask EXCEPT !.at = "create", !.text = x])
  /\ UNCHANGED <<vars, entry>>

Create(p) ==
  /\ task[p].at = "create"
  /\ \E e \in LogIds :
       /\ entry[e].status = "unused"
       /\ entry' = [entry EXCEPT ![e] = [status |-> "PENDING", text |-> task[p].text,
                                         by |-> None, reason |-> FALSE]]
  /\ End(p)
  /\ UNCHANGED vars

(* Mutant: approved entries may be changed, too.                           *)
StudentBegin_AnyStatus(p, op, e, x) ==
  /\ e \in Entries
  /\ Start(p, [NoTask EXCEPT !.at = "owner", !.op = op, !.entry = e, !.text = x,
                 !.renew = (op = "edit" /\ entry[e].status = "REJECTED")])
  /\ UNCHANGED <<vars, entry>>

(* updateLogbook, uploadPhoto, deleteLogbook: getLogbookById reads the     *)
(* entry and then the active internship; the status that decides is the    *)
(* one read here.  Only updateLogbook sends a rejected entry back to       *)
(* PENDING.                                                                *)
StudentBegin(p, op, e, x) ==
  /\ e \in Entries
  /\ entry[e].status \in {"PENDING", "REJECTED"}
  /\ Start(p, [NoTask EXCEPT !.at = "owner", !.op = op, !.entry = e, !.text = x,
                 !.renew = (op = "edit" /\ entry[e].status = "REJECTED")])
  /\ UNCHANGED <<vars, entry>>

StudentOwner(p) ==
  /\ task[p].at = "owner"
  /\ IF Active THEN Move(p, "write") ELSE End(p)
  /\ UNCHANGED <<vars, entry>>

(* A statement that names a deleted row changes nothing.                   *)
Put(e, row) == entry' = IF e \in Entries THEN [entry EXCEPT ![e] = row] ELSE entry

(* Mutant: the reason stays when the entry is sent in again.               *)
StudentWrite_KeepReason(p) ==
  LET t == task[p]
      row == entry[t.entry] IN
  /\ t.at = "write" /\ t.op \in StudentOps
  /\ Put(t.entry, IF t.op = "delete" THEN [Unused EXCEPT !.status = "deleted"]
                  ELSE [row EXCEPT !.text = t.text,
                                   !.status = IF t.renew THEN "PENDING" ELSE @])
  /\ End(p)
  /\ UNCHANGED vars

StudentWrite(p) ==
  LET t == task[p]
      row == entry[t.entry] IN
  /\ t.at = "write" /\ t.op \in StudentOps
  /\ Put(t.entry, IF t.op = "delete" THEN [Unused EXCEPT !.status = "deleted"]
                  ELSE [row EXCEPT !.text = t.text,
                                   !.status = IF t.renew THEN "PENDING" ELSE @,
                                   !.reason = @ /\ ~t.renew])
  /\ End(p)
  /\ UNCHANGED vars

-----------------------------------------------------------------------------
(* approveLogbook and rejectLogbook: the entry exists, then                *)
(* assertLogbookBelongsToMentor asks getMentees, two queries.  The status  *)
(* is not looked at.                                                       *)

DecideBegin(p, op, e, m) ==
  /\ e \in Entries
  /\ Start(p, [NoTask EXCEPT !.at = "direct", !.op = op, !.entry = e, !.who = m])
  /\ UNCHANGED <<vars, entry>>

(* approveAllLogbooks: getInternshipIdForMentee asks the same two queries. *)
AllBegin(p, m) ==
  /\ Start(p, [NoTask EXCEPT !.at = "direct", !.who = m])
  /\ UNCHANGED <<vars, entry>>

Verdict(p) == IF task[p].op = None THEN "all" ELSE "write"

(* getMentees stops at the mentees it finds directly: a mentor who has     *)
(* others never gets to the fallback.                                      *)
DecideDirect(p) ==
  /\ task[p].at = "direct"
  /\ \/ Move(p, IF Direct(task[p].who) THEN Verdict(p) ELSE "fallback")
     \/ task[p].op # None /\ ~Direct(task[p].who) /\ End(p)
  /\ UNCHANGED <<vars, entry>>

(* Mutant: whoever is not the direct mentor is let through.                *)
DecideFallback_Trusts(p) ==
  /\ task[p].at = "fallback"
  /\ Move(p, Verdict(p))
  /\ UNCHANGED <<vars, entry>>

DecideFallback(p) ==
  /\ task[p].at = "fallback"
  /\ IF Fallback(task[p].who) THEN Move(p, Verdict(p)) ELSE End(p)
  /\ UNCHANGED <<vars, entry>>

(* The requests of the student that read an entry of E before.             *)
Late(p, E) ==
  task' = [q \in Requests |->
             IF q = p THEN NoTask
             ELSE IF task[q].entry \in E /\ task[q].op \in StudentOps
                    THEN [task[q] EXCEPT !.late = TRUE]
                    ELSE task[q]]

(* Mutant: another word is stored as the status.                           *)
Approved_Word(row, m) == [row EXCEPT !.status = "VERIFIED", !.by = m]

(* Approving leaves the reason of an earlier rejection.                    *)
Approved(row, m) == [row EXCEPT !.status = "APPROVED", !.by = m]

ApproveEntry(p) ==
  LET t == task[p] IN
  /\ t.at = "write" /\ t.op = "approve"
  /\ Put(t.entry, Approved(entry[t.entry], t.who))
  /\ Late(p, {t.entry})
  /\ UNCHANGED vars

RejectEntry(p) ==
  LET t == task[p] IN
  /\ t.at = "write" /\ t.op = "reject"
  /\ Put(t.entry, [entry[t.entry] EXCEPT !.status = "REJECTED", !.by = t.who,
                                         !.reason = TRUE])
  /\ End(p)
  /\ UNCHANGED vars

(* One UPDATE of the rows that are PENDING when it runs.                   *)
ApproveAll(p) ==
  LET open == {e \in Entries : entry[e].status = "PENDING"} IN
  /\ task[p].at = "all"
  /\ entry' = [e \in LogIds |-> IF e \in open THEN Approved(entry[e], task[p].who)
                                              ELSE entry[e]]
  /\ Late(p, open)
  /\ UNCHANGED vars

LogStep(p) ==
  \/ Create(p) \/ StudentOwner(p) \/ StudentWrite(p)
  \/ DecideDirect(p) \/ DecideFallback(p)
  \/ ApproveEntry(p) \/ RejectEntry(p) \/ ApproveAll(p)

StudentCall(p) ==
  \E e \in LogIds :
    \/ \E x \in Texts, op \in {"edit", "photo"} : StudentBegin(p, op, e, x)
    \/ StudentBegin(p, "delete", e, None)

VerifierCall(p) ==
  \E m \in {c \in Accounts : account[c] # None} :
    AllBegin(p, m) \/ \E e \in LogIds, op \in MentorOps : DecideBegin(p, op, e, m)

LogCall(p) ==
  StudentCall(p) \/ VerifierCall(p) \/ \E x \in Texts : CreateBegin(p, x)

Next ==
  \/ \E p \in Requests :
       \/ (MentorStep(p) \/ Die(p)) /\ UNCHANGED logVars
       \/ MentorCall(p) /\ Room /\ UNCHANGED logVars
       \/ LogStep(p) \/ LogCall(p)
  \/ MentorOthers /\ UNCHANGED logVars

Spec == Init /\ [][Next]_allVars

-----------------------------------------------------------------------------
(* Only a mentor whom an approval had assigned to the internship ever      *)
(* decides on an entry: the authority that was checked two queries before  *)
(* the write came from an approved request, although that request may be   *)
(* rejected, replaced or half done by now.                                 *)
VerifierWasMentor ==
  \A e \in LogIds : entry[e].by # None => entry[e].by \in mentored

(* An approved entry keeps its contents and stays, except when the student *)
(* request that changes it had read it before the approval.                *)
ApprovedEntryStands ==
  [][\A e \in LogIds :
       (entry[e].status = "APPROVED" /\ entry'[e].text # entry[e].text) =>
         \E p \in Requests : task[p].entry = e /\ task[p].late]_allVars

(* The reason of a rejection is shown with what was rejected and with      *)
(* nothing that waits, whatever edits, resubmissions and decisions         *)
(* overlap: a request for a mentor has one exactly when it is REJECTED, a  *)
(* rejected entry has one and an entry that waits for the mentor has none. *)
ReasonFollowsStatus ==
  /\ \A a \in Asks : ask[a].reason <=> ask[a].status = "REJECTED"
  /\ \A e \in Entries :
       /\ entry[e].status = "REJECTED" => entry[e].reason
       /\ entry[e].status = "PENDING" => ~entry[e].reason

-----------------------------------------------------------------------------
(* What comments of the code say and the code or the interleavings break.  *)

(* mentor.service.ts:370 "The logbook's internship must have this mentor   *)
(* as pembimbingLapanganId": the fallback of getMentees also accepts the   *)
(* mentor of an earlier approval.                                          *)
SupervisorIsAssigned == \A m \in Accounts : Supervises(m) => internship.mentor = m

(* logbook.repository.ts:160 "only PENDING entries can be updated".        *)
OnlyPendingChanges ==
  [][\A e \in LogIds :
       (entry[e].status = "APPROVED" /\ entry'[e].status # "deleted") =>
         entry'[e].text = entry[e].text]_allVars

(* An approved entry shows no reason: approve leaves rejection_reason.     *)
ApprovedHasNoReason ==
  \A e \in LogIds : entry[e].status = "APPROVED" => ~entry[e].reason
=============================================================================
