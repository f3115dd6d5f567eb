---------------------------- MODULE LogbooksProofs ----------------------------
(***************************************************************************)
(* Proofs about Logbooks, for any number of entries, contents, accounts    *)
(* and requests.                                                           *)
(*                                                                         *)
(* MentorInv (module MentorRequestsProofs) is kept by the mentor requests  *)
(* and untouched by the logbook's.  What a logbook request relies on       *)
(* (TaskOK) is a history that only grows: who passed the check of          *)
(* getMentees was assigned once, and stays so.                             *)
(***************************************************************************)
EXTENDS Logbooks, MentorRequestsProofs

Deciding(t) == t.at = "all" \/ (t.at = "write" /\ t.op \in MentorOps)

TaskOK(t) ==
  /\ t.op \in StudentOps \cup MentorOps => t.entry \in LogIds
  /\ t.at = "owner" => t.op \in StudentOps
  /\ t.at \in {"direct", "fallback"} \/ Deciding(t) => t.who \in Accounts
  /\ Deciding(t) => t.who \in mentored
  /\ t.op \in StudentOps /\ entry[t.entry].status = "APPROVED" => t.late

TasksOK == \A p \in Requests : TaskOK(task[p])

ReasonOK(row) ==
  /\ row.status = "REJECTED" => row.reason
  /\ row.status = "PENDING" => ~row.reason

ReasonsOK == \A e \in LogIds : ReasonOK(entry[e])

LogInv ==
  /\ MentorInv /\ TypeOK /\ TasksOK /\ ReasonsOK /\ VerifierWasMentor

-----------------------------------------------------------------------------
LEMMA LogInitially == Init => LogInv
<1> SUFFICES ASSUME Init PROVE LogInv
  OBVIOUS
<1>1. NoTask \in Task /\ Unused \in LogRow
  BY DEF NoTask, Task, Unused, LogRow
<1>2. MentorInv
  BY MentorInitially DEF Init
<1>3. TypeOK
  BY <1>1, <1>2 DEF Init, TypeOK, MentorInv
<1>4. TasksOK
  BY NoneIsNoOp DEF Init, TasksOK, TaskOK, Deciding, NoTask
<1>5. ReasonsOK /\ VerifierWasMentor
  BY DEF Init, ReasonsOK, ReasonOK, VerifierWasMentor, Unused
<1> QED BY <1>2, <1>3, <1>4, <1>5 DEF LogInv

(* The logbook requests rely on nothing that a mentor request takes back.  *)
LEMMA MentorKeepsLog ==
  ASSUME LogInv, [MentorNext]_vars, UNCHANGED logVars
  PROVE  LogInv'
<1>1. MentorInv'
  BY MentorKeepsInv DEF LogInv
<1>2. mentored \subseteq mentored' /\ entry' = entry /\ task' = task
  BY MentoredGrows DEF logVars
<1> QED BY <1>1, <1>2 DEF LogInv, MentorInv, TypeOK, TasksOK, TaskOK, Deciding,
    ReasonsOK, ReasonOK, VerifierWasMentor

-----------------------------------------------------------------------------
(* A step of p that touches no entry.                                      *)
LEMMA OnlyMoves ==
  ASSUME LogInv, NEW p \in Requests, NEW t \in Task,
         task' = [task EXCEPT ![p] = t], UNCHANGED <<vars, entry>>, TaskOK(t)
  PROVE  LogInv'
<1>1. MentorInv'
  BY NothingKeepsInv DEF LogInv
<1>2. mentored' = mentored /\ entry' = entry
  BY DEF vars, history
<1>3. TypeOK'
  BY <1>1, <1>2 DEF LogInv, TypeOK, MentorInv
<1>4. TasksOK'
  BY <1>2 DEF LogInv, TypeOK, TasksOK, TaskOK, Deciding
<1>5. ReasonsOK' /\ VerifierWasMentor'
  BY <1>2 DEF LogInv, ReasonsOK, ReasonOK, VerifierWasMentor
<1> QED BY <1>1, <1>3, <1>4, <1>5 DEF LogInv

LEMMA NoTaskOK == NoTask \in Task /\ TaskOK(NoTask)
BY NoneIsNoOp DEF NoTask, Task, TaskOK, Deciding

LEMMA CallsKeepLog ==
  ASSUME LogInv, NEW p \in Requests, LogCall(p)
  PROVE  LogInv'
<1>1. ASSUME NEW x \in Texts, CreateBegin(p, x) PROVE LogInv'
  <2> DEFINE t == [NoTask EXCEPT !.at = "create", !.text = x]
  <2>1. t \in Task /\ TaskOK(t)
    BY NoneIsNoOp DEF NoTask, Task, TaskOK, Deciding
  <2> QED BY <1>1, <2>1, OnlyMoves DEF CreateBegin, Start
<1>2. ASSUME NEW op \in StudentOps, NEW e \in LogIds, NEW x \in Texts \cup {None},
             StudentBegin(p, op, e, x)
      PROVE  LogInv'
  <2> DEFINE t == [NoTask EXCEPT !.at = "owner", !.op = op, !.entry = e, !.text = x,
                     !.renew = (op = "edit" /\ entry[e].status = "REJECTED")]
  <2>1. t \in Task
    BY DEF NoTask, Task
  <2>2. TaskOK(t)
    BY <1>2 DEF StudentBegin, NoTask, TaskOK, Deciding
  <2> QED BY <1>2, <2>1, <2>2, OnlyMoves DEF StudentBegin, Start
<1>3. ASSUME NEW m \in Accounts, AllBegin(p, m) PROVE LogInv'
  <2> DEFINE t == [NoTask EXCEPT !.at = "direct", !.who = m]
  <2>1. t \in Task /\ TaskOK(t)
    BY NoneIsNoOp DEF NoTask, Task, TaskOK, Deciding
  <2> QED BY <1>3, <2>1, OnlyMoves DEF AllBegin, Start
<1>4. ASSUME NEW m \in Accounts, NEW e \in LogIds, NEW op \in MentorOps,
             DecideBegin(p, op, e, m)
      PROVE  LogInv'
  <2> DEFINE t == [NoTask EXCEPT !.at = "direct", !.op = op, !.entry = e, !.who = m]
  <2>1. t \in Task /\ TaskOK(t)
    BY DEF NoTask, Task, TaskOK, Deciding, StudentOps, MentorOps
  <2> QED BY <1>4, <2>1, OnlyMoves DEF DecideBegin, Start
<1>5. {"edit", "photo", "delete"} = StudentOps
  BY DEF StudentOps
<1> QED BY <1>1, <1>2, <1>3, <1>4, <1>5 DEF LogCall, StudentCall, VerifierCall

(* The checks before a write.  Whoever getMentees lets through was         *)
(* assigned by an approval.                                                *)
LEMMA ChecksKeepLog ==
  ASSUME LogInv, NEW p \in Requests,
         StudentOwner(p) \/ DecideDirect(p) \/ DecideFallback(p)
  PROVE  LogInv'
<1>0. task[p] \in Task /\ TaskOK(task[p])
  BY DEF LogInv, TypeOK, TasksOK
<1>1. CASE End(p)
  BY <1>1, NoTaskOK, OnlyMoves DEF End, StudentOwner, DecideDirect, DecideFallback
<1>2. CASE ~End(p)
  <2>1. /\ UNCHANGED <<vars, entry>>
        /\ \E place \in {"write", "fallback", "all"} : Move(p, place) /\
             \/ place = "write" /\ task[p].at = "owner"
             \/ place = "fallback" /\ task[p].at = "direct"
             \/ /\ place \in {"write", "all"} /\ task[p].at \in {"direct", "fallback"}
                /\ Supervises(task[p].who)
    BY <1>2 DEF StudentOwner, DecideDirect, DecideFallback, Verdict, Supervises
  <2>2. PICK place \in {"write", "fallback", "all"} : Move(p, place) /\
             \/ place = "write" /\ task[p].at = "owner"
             \/ place = "fallback" /\ task[p].at = "direct"
             \/ /\ place \in {"write", "all"} /\ task[p].at \in {"direct", "fallback"}
                /\ Supervises(task[p].who)
    BY <2>1
  <2> DEFINE t == [task[p] EXCEPT !.at = place]
  <2>3. t \in Task /\ task' = [task EXCEPT ![p] = t]
    BY <1>0, <2>2 DEF Move, Task
  <2>4. TaskOK(t)
    <3>1. /\ t.at = place /\ t.op = task[p].op /\ t.entry = task[p].entry
          /\ t.who = task[p].who /\ t.late = task[p].late
      BY <1>0 DEF Task
    <3>2. Supervises(t.who) /\ t.who \in Accounts => t.who \in mentored
      BY ConstantsAssumption DEF Supervises, Direct, Fallback, LogInv, MentorInv,
         AssignedIsMentored, RowsOK, RowOK
    <3>3. StudentOps \cap MentorOps = {}
      BY DEF StudentOps, MentorOps
    <3> QED BY <1>0, <2>2, <3>1, <3>2, <3>3 DEF TaskOK, Deciding
  <2> QED BY <2>1, <2>3, <2>4, OnlyMoves
<1> QED BY <1>1, <1>2

-----------------------------------------------------------------------------
(* Writes                                                                  *)

(* The entries of E change, p is done, and the student requests that read  *)
(* one of them before an approval are late.                                *)
LEMMA WritesKeepLog ==
  ASSUME LogInv, NEW p \in Requests, UNCHANGED vars, TypeOK',
         \A q \in Requests : TaskOK(task[q])',
         \A e \in LogIds : \/ entry'[e] = entry[e]
                           \/ /\ ReasonOK(entry'[e])
                              /\ entry'[e].by \in mentored \cup {None, entry[e].by}
  PROVE  LogInv'
<1>1. MentorInv' /\ mentored' = mentored
  BY NothingKeepsInv DEF LogInv, vars, history
<1>2. TasksOK'
  BY DEF TasksOK
<1>3. ReasonsOK'
  BY DEF LogInv, ReasonsOK, ReasonOK
<1>4. VerifierWasMentor'
  BY <1>1 DEF LogInv, VerifierWasMentor
<1> QED BY <1>1, <1>2, <1>3, <1>4 DEF LogInv

(* p ends: the others know what they knew unless an entry became APPROVED. *)
LEMMA OthersEnd ==
  ASSUME LogInv, NEW p \in Requests, End(p), UNCHANGED vars,
         \A e \in LogIds : entry'[e].status = "APPROVED" => entry[e].status = "APPROVED"
  PROVE  /\ task' \in [Requests -> Task]
         /\ \A q \in Requests : TaskOK(task[q])'
<1>1. mentored' = mentored /\ task' = [task EXCEPT ![p] = NoTask]
  BY DEF vars, history, End
<1>2. task' \in [Requests -> Task]
  BY <1>1, NoTaskOK DEF LogInv, TypeOK
<1>3. ASSUME NEW q \in Requests PROVE TaskOK(task[q])'
  <2>1. CASE q = p
    BY <1>1, <2>1, NoneIsNoOp DEF LogInv, TypeOK, TaskOK, Deciding, NoTask
  <2>2. CASE q # p
    BY <1>1, <2>2 DEF LogInv, TypeOK, TasksOK, TaskOK, Deciding
  <2> QED BY <2>1, <2>2
<1> QED BY <1>2, <1>3

(* The same for an approval, which makes requests late.                    *)
LEMMA OthersAreLate ==
  ASSUME LogInv, NEW p \in Requests, NEW E, Late(p, E), UNCHANGED vars,
         \A e \in LogIds \ E : entry'[e] = entry[e]
  PROVE  /\ task' \in [Requests -> Task]
         /\ \A q \in Requests : TaskOK(task[q])'
<1>1. mentored' = mentored
  BY DEF vars, history
<1>2. ASSUME NEW q \in Requests PROVE task'[q] \in Task /\ TaskOK(task[q])'
  <2>0. task[q] \in Task /\ TaskOK(task[q])
    BY DEF LogInv, TypeOK, TasksOK
  <2>1. CASE q = p
    <3>1. task'[q] = NoTask
      BY <2>1 DEF Late
    <3> QED BY <3>1, NoTaskOK, NoneIsNoOp DEF TaskOK, Deciding, NoTask
  <2>2. CASE q # p /\ task[q].entry \in E /\ task[q].op \in StudentOps
    <3>1. PICK t : t = [task[q] EXCEPT !.late = TRUE]
      OBVIOUS
    <3>2. task'[q] = t
      BY <2>2, <3>1 DEF Late
    <3>3. t \in Task /\ t.late
      BY <2>0, <3>1 DEF Task
    <3>4. t.at = task[q].at /\ t.op = task[q].op /\ t.entry = task[q].entry
          /\ t.who = task[q].who
      BY <2>0, <3>1 DEF Task
    <3>5. TaskOK(t)'
      BY <1>1, <2>0, <3>3, <3>4 DEF TaskOK, Deciding
    <3> QED BY <3>2, <3>3, <3>5 DEF TaskOK, Deciding
  <2>3. CASE q # p /\ ~(task[q].entry \in E /\ task[q].op \in StudentOps)
    <3>1. task'[q] = task[q]
      BY <2>3 DEF Late
    <3>2. task[q].op \in StudentOps => entry'[task[q].entry] = entry[task[q].entry]
      BY <2>0, <2>3 DEF TaskOK
    <3> QED BY <1>1, <2>0, <3>1, <3>2 DEF TaskOK, Deciding
  <2> QED BY <2>1, <2>2, <2>3
<1>3. task' \in [Requests -> Task]
  BY <1>2 DEF Late
<1> QED BY <1>2, <1>3

LEMMA CreateKeepsLog ==
  ASSUME LogInv, NEW p \in Requests, Create(p)
  PROVE  LogInv'
<1>0. PICK row : row = [status |-> "PENDING", text |-> task[p].text, by |-> None,
                        reason |-> FALSE]
  OBVIOUS
<1>1. PICK e \in LogIds : entry[e].status = "unused" /\ entry' = [entry EXCEPT ![e] = row]
  BY <1>0 DEF Create
<1>2. row \in LogRow /\ row.status = "PENDING" /\ ~row.reason /\ row.by = None
  BY <1>0 DEF LogRow, LogInv, TypeOK, Task
<1>3. entry'[e] = row /\ \A x \in LogIds \ {e} : entry'[x] = entry[x]
  BY <1>1 DEF LogInv, TypeOK
<1>4. UNCHANGED vars /\ End(p)
  BY DEF Create
<1>5. task' \in [Requests -> Task] /\ \A q \in Requests : TaskOK(task[q])'
  BY <1>2, <1>3, <1>4, OthersEnd
<1>6. TypeOK'
  BY <1>1, <1>2, <1>4, <1>5, NothingKeepsInv DEF LogInv, MentorInv, TypeOK
<1> QED BY <1>2, <1>3, <1>4, <1>5, <1>6, WritesKeepLog DEF ReasonOK

(* Only an edit of an entry that was REJECTED sends it in again, without   *)
(* its reason.                                                             *)
LEMMA StudentKeepsLog ==
  ASSUME LogInv, NEW p \in Requests, StudentWrite(p)
  PROVE  LogInv'
<1>0. task[p] \in Task /\ TaskOK(task[p]) /\ UNCHANGED vars /\ End(p)
  BY DEF LogInv, TypeOK, TasksOK, StudentWrite
<1>1. PICK x : x = task[p].entry
  OBVIOUS
<1>2. /\ x \in LogIds /\ entry[x] \in LogRow /\ ReasonOK(entry[x])
      /\ task[p].text \in Texts \cup {None} /\ task[p].renew \in BOOLEAN
  BY <1>0, <1>1 DEF StudentWrite, TaskOK, LogInv, TypeOK, ReasonsOK, Task
<1>3. PICK row : row = IF task[p].op = "delete" THEN [Unused EXCEPT !.status = "deleted"]
                       ELSE [entry[x] EXCEPT !.text = task[p].text,
                               !.status = IF task[p].renew THEN "PENDING" ELSE @,
                               !.reason = @ /\ ~task[p].renew]
  OBVIOUS
<1>4. Put(x, row)
  BY <1>1, <1>3 DEF StudentWrite
<1>5. row \in LogRow
  BY <1>2, <1>3 DEF LogRow, Unused
<1>6. /\ ReasonOK(row) /\ row.by \in {None, entry[x].by}
      /\ row.status = "APPROVED" => entry[x].status = "APPROVED"
  <2>1. CASE task[p].op = "delete"
    BY <1>3, <2>1 DEF Unused, ReasonOK
  <2>2. CASE task[p].op # "delete"
    <3>1. /\ row.status = IF task[p].renew THEN "PENDING" ELSE entry[x].status
          /\ row.reason = (entry[x].reason /\ ~task[p].renew) /\ row.by = entry[x].by
      BY <1>2, <1>3, <2>2 DEF LogRow
    <3> QED BY <1>2, <3>1 DEF ReasonOK
  <2> QED BY <2>1, <2>2
<1>7. \/ entry' = entry
      \/ entry' = [entry EXCEPT ![x] = row]
  BY <1>4 DEF Put
<1>8. \A e \in LogIds : entry'[e] = entry[e] \/ (e = x /\ entry'[e] = row)
  BY <1>7 DEF LogInv, TypeOK
<1>9. task' \in [Requests -> Task] /\ \A q \in Requests : TaskOK(task[q])'
  BY <1>0, <1>6, <1>8, OthersEnd
<1>10. TypeOK'
  BY <1>0, <1>5, <1>7, <1>9, NothingKeepsInv DEF LogInv, MentorInv, TypeOK
<1> QED BY <1>0, <1>6, <1>8, <1>9, <1>10, WritesKeepLog

(* The mentor's decisions on one entry.                                    *)
LEMMA DecisionKeepsLog ==
  ASSUME LogInv, NEW p \in Requests, ApproveEntry(p) \/ RejectEntry(p)
  PROVE  LogInv'
<1>0. task[p] \in Task /\ TaskOK(task[p]) /\ UNCHANGED vars
  BY DEF LogInv, TypeOK, TasksOK, ApproveEntry, RejectEntry
<1>1. PICK x : x = task[p].entry
  OBVIOUS
<1>2. PICK m \in Accounts : m = task[p].who /\ m \in mentored
  BY <1>0 DEF ApproveEntry, RejectEntry, TaskOK, Deciding, MentorOps
<1>3. x \in LogIds /\ entry[x] \in LogRow
  BY <1>0, <1>1 DEF ApproveEntry, RejectEntry, TaskOK, MentorOps, LogInv, TypeOK
<1>4. CASE ApproveEntry(p)
  <2>1. PICK row : row = [entry[x] EXCEPT !.status = "APPROVED", !.by = m]
    OBVIOUS
  <2>2. row \in LogRow /\ ReasonOK(row) /\ row.by = m
    BY <1>3, <2>1 DEF LogRow, ReasonOK
  <2>3. entry' = entry \/ entry' = [entry EXCEPT ![x] = row]
    BY <1>1, <1>2, <1>4, <2>1 DEF ApproveEntry, Put, Approved
  <2>4. \A e \in LogIds : entry'[e] = entry[e] \/ (e = x /\ entry'[e] = row)
    BY <2>3 DEF LogInv, TypeOK
  <2>5. Late(p, {x})
    BY <1>1, <1>4 DEF ApproveEntry
  <2>6. task' \in [Requests -> Task] /\ \A q \in Requests : TaskOK(task[q])'
    BY <1>0, <2>4, <2>5, OthersAreLate
  <2>7. TypeOK'
    BY <1>0, <2>2, <2>3, <2>6, NothingKeepsInv DEF LogInv, MentorInv, TypeOK
  <2> QED BY <1>0, <1>2, <2>2, <2>4, <2>6, <2>7, WritesKeepLog
<1>5. CASE RejectEntry(p)
  <2>1. PICK row : row = [entry[x] EXCEPT !.status = "REJECTED", !.by = m, !.reason = TRUE]
    OBVIOUS
  <2>2. row \in LogRow /\ ReasonOK(row) /\ row.by = m /\ row.status = "REJECTED"
    BY <1>3, <2>1 DEF LogRow, ReasonOK
  <2>3. entry' = entry \/ entry' = [entry EXCEPT ![x] = row]
    BY <1>1, <1>2, <1>5, <2>1 DEF RejectEntry, Put
  <2>4. \A e \in LogIds : entry'[e] = entry[e] \/ (e = x /\ entry'[e] = row)
    BY <2>3 DEF LogInv, TypeOK
  <2>5. End(p)
    BY <1>5 DEF RejectEntry
  <2>6. task' \in [Requests -> Task] /\ \A q \in Requests : TaskOK(task[q])'
    BY <1>0, <2>2, <2>4, <2>5, OthersEnd
  <2>7. TypeOK'
    BY <1>0, <2>2, <2>3, <2>6, NothingKeepsInv DEF LogInv, MentorInv, TypeOK
  <2> QED BY <1>0, <1>2, <2>2, <2>4, <2>6, <2>7, WritesKeepLog
<1> QED BY <1>4, <1>5

(* approveAllLogbooks                                                      *)
LEMMA AllKeepsLog ==
  ASSUME LogInv, NEW p \in Requests, ApproveAll(p)
  PROVE  LogInv'
<1>0. TaskOK(task[p]) /\ UNCHANGED vars
  BY DEF LogInv, TasksOK, ApproveAll
<1>1. PICK m \in Accounts : m = task[p].who /\ m \in mentored
  BY <1>0 DEF ApproveAll, TaskOK, Deciding
<1>2. PICK E : E = {e \in Entries : entry[e].status = "PENDING"}
  OBVIOUS
<1>3. /\ entry' = [e \in LogIds |-> IF e \in E THEN Approved(entry[e], m) ELSE entry[e]]
      /\ Late(p, E)
  BY <1>1, <1>2 DEF ApproveAll
<1>4. \A e \in LogIds : /\ Approved(entry[e], m) \in LogRow
                        /\ ReasonOK(Approved(entry[e], m))
                        /\ Approved(entry[e], m).by = m
  BY DEF LogInv, TypeOK, LogRow, Approved, ReasonOK
<1>5. task' \in [Requests -> Task] /\ \A q \in Requests : TaskOK(task[q])'
  BY <1>0, <1>3, OthersAreLate
<1>6. TypeOK'
  BY <1>0, <1>3, <1>4, <1>5, NothingKeepsInv DEF LogInv, MentorInv, TypeOK
<1> QED BY <1>0, <1>1, <1>3, <1>4, <1>5, <1>6, WritesKeepLog

-----------------------------------------------------------------------------
LEMMA LogKeepsInv ==
  ASSUME LogInv, [Next]_allVars
  PROVE  LogInv'
<1>1. ASSUME NEW p \in Requests, LogStep(p) \/ LogCall(p) PROVE LogInv'
  BY <1>1, CallsKeepLog, ChecksKeepLog, CreateKeepsLog, StudentKeepsLog,
     DecisionKeepsLog, AllKeepsLog DEF LogStep
<1>2. ASSUME NEW p \in Requests, MentorStep(p) \/ MentorCall(p) \/ Die(p),
             UNCHANGED logVars
      PROVE  LogInv'
  BY <1>2, MentorKeepsLog DEF MentorNext
<1>3. CASE MentorOthers /\ UNCHANGED logVars
  BY <1>3, MentorKeepsLog DEF MentorNext
<1>4. CASE UNCHANGED allVars
  BY <1>4, MentorKeepsLog DEF allVars
<1> QED BY <1>1, <1>2, <1>3, <1>4 DEF Next

LEMMA LogInvariance == Spec => []LogInv
BY LogInitially, LogKeepsInv, PTL DEF Spec

(* Every variable of the student's requests and logbook keeps its type.    *)
THEOREM LogTypesHold == Spec => []TypeOK
BY LogInvariance, PTL DEF LogInv

(* Only a mentor whom an approval had assigned to the internship ever      *)
(* decides on an entry, although the check is two queries old when the     *)
(* decision is written.                                                    *)
THEOREM VerifierAlwaysWasMentor == Spec => []VerifierWasMentor
BY LogInvariance, PTL DEF LogInv

(* A rejection shows its reason and what waits shows none, whatever edits, *)
(* resubmissions and decisions overlap.                                    *)
THEOREM ReasonAlwaysFollowsStatus == Spec => []ReasonFollowsStatus
<1>1. LogInv => ReasonFollowsStatus
  BY DEF LogInv, MentorInv, RowsOK, RowOK, ReasonsOK, ReasonOK, ReasonFollowsStatus,
     Entries
<1> QED BY <1>1, LogInvariance, PTL

(* An approved entry keeps its contents unless the student request that    *)
(* changes it had read it before the approval.                             *)
THEOREM ApprovedEntryAlwaysStands == Spec => ApprovedEntryStands
<1> DEFINE Stands ==
      \A e \in LogIds :
        (entry[e].status = "APPROVED" /\ entry'[e].text # entry[e].text) =>
          \E p \in Requests : task[p].entry = e /\ task[p].late
<1>1. LogInv /\ [Next]_allVars => [Stands]_allVars
  <2> SUFFICES ASSUME LogInv, [Next]_allVars, NEW e \in LogIds,
                      entry[e].status = "APPROVED", entry'[e].text # entry[e].text
               PROVE  \E p \in Requests : task[p].entry = e /\ task[p].late
    OBVIOUS
  <2>1. PICK p \in Requests : LogStep(p) \/ LogCall(p)
    BY DEF Next, allVars, logVars
  <2>2. ~LogCall(p) /\ ~StudentOwner(p) /\ ~DecideDirect(p) /\ ~DecideFallback(p)
    <3>1. /\ \A x : CreateBegin(p, x) => entry' = entry
          /\ \A op, n, x : StudentBegin(p, op, n, x) => entry' = entry
          /\ \A m : AllBegin(p, m) => entry' = entry
          /\ \A op, n, m : DecideBegin(p, op, n, m) => entry' = entry
      BY DEF CreateBegin, StudentBegin, AllBegin, DecideBegin
    <3>2. LogCall(p) => entry' = entry
      BY <3>1 DEF LogCall, StudentCall, VerifierCall
    <3>3. StudentOwner(p) \/ DecideDirect(p) \/ DecideFallback(p) => entry' = entry
      BY DEF StudentOwner, DecideDirect, DecideFallback
    <3> QED BY <3>2, <3>3
  <2>3. ~Create(p)
    BY DEF Create, LogInv, TypeOK
  <2>4. ~ApproveEntry(p) /\ ~RejectEntry(p)
    <3>1. ASSUME NEW x, NEW row, Put(x, row), x \in Entries => row.text = entry[x].text
          PROVE  entry'[e].text = entry[e].text
      BY <3>1 DEF Put, Entries, LogInv, TypeOK
    <3>2. \A x \in Entries : \A m :
            /\ Approved(entry[x], m).text = entry[x].text
            /\ [entry[x] EXCEPT !.status = "REJECTED", !.by = m, !.reason = TRUE].text
                 = entry[x].text
      BY DEF Approved, Entries, LogInv, TypeOK, LogRow
    <3> QED BY <3>1, <3>2 DEF ApproveEntry, RejectEntry
  <2>5. ~ApproveAll(p)
    BY DEF ApproveAll, Approved, LogInv, TypeOK, LogRow
  <2>6. StudentWrite(p)
    BY <2>1, <2>2, <2>3, <2>4, <2>5 DEF LogStep
  <2>7. task[p].entry = e
    BY <2>6 DEF StudentWrite, Put, LogInv, TypeOK
  <2>8. task[p].late
    BY <2>6, <2>7 DEF StudentWrite, LogInv, TasksOK, TaskOK
  <2> QED BY <2>7, <2>8
<1>2. Spec => [][Stands]_allVars
  BY <1>1, LogInvariance, PTL DEF Spec
<1> QED BY <1>2 DEF ApprovedEntryStands
-----------------------------------------------------------------------------
(* Requests that do not overlap                                            *)

(* OnlyPendingChanges is refuted by an approval between the check and the  *)
(* write of a student's request.  When the requests on the logbook run one *)
(* after the other, nobody is late; those for a mentor may overlap them.   *)
OneAtATime ==
  \A p, q \in Requests : task[p].at # "idle" /\ task[q].at # "idle" => p = q

Calm ==
  \A p \in Requests : ~task[p].late /\ (task[p].at = "idle" => task[p] = NoTask)

LEMMA CallsKeepCalm ==
  ASSUME LogInv, Calm, NEW p \in Requests, LogCall(p)
  PROVE  Calm'
<1>1. ASSUME NEW t, Start(p, t), ~t.late, t.at # "idle" PROVE Calm'
  BY <1>1 DEF Start, Calm, LogInv, TypeOK
<1>2. ASSUME NEW x \in Texts, CreateBegin(p, x) PROVE Calm'
  <2> DEFINE t == [NoTask EXCEPT !.at = "create", !.text = x]
  <2>1. ~t.late /\ t.at # "idle"
    BY DEF NoTask
  <2> QED BY <1>1, <1>2, <2>1 DEF CreateBegin
<1>3. ASSUME NEW op, NEW e, NEW x, StudentBegin(p, op, e, x) PROVE Calm'
  <2> DEFINE t == [NoTask EXCEPT !.at = "owner", !.op = op, !.entry = e, !.text = x,
                     !.renew = (op = "edit" /\ entry[e].status = "REJECTED")]
  <2>1. ~t.late /\ t.at # "idle"
    BY DEF NoTask
  <2> QED BY <1>1, <1>3, <2>1 DEF StudentBegin
<1>4. ASSUME NEW m, AllBegin(p, m) PROVE Calm'
  <2> DEFINE t == [NoTask EXCEPT !.at = "direct", !.who = m]
  <2>1. ~t.late /\ t.at # "idle"
    BY DEF NoTask
  <2> QED BY <1>1, <1>4, <2>1 DEF AllBegin
<1>5. ASSUME NEW op, NEW e, NEW m, DecideBegin(p, op, e, m) PROVE Calm'
  <2> DEFINE t == [NoTask EXCEPT !.at = "direct", !.op = op, !.entry = e, !.who = m]
  <2>1. ~t.late /\ t.at # "idle"
    BY DEF NoTask
  <2> QED BY <1>1, <1>5, <2>1 DEF DecideBegin
<1> QED BY <1>2, <1>3, <1>4, <1>5 DEF LogCall, StudentCall, VerifierCall

(* An approval makes nobody late: the others are idle.                     *)
LEMMA StepsKeepCalm ==
  ASSUME LogInv, Calm, OneAtATime, NEW p \in Requests, LogStep(p)
  PROVE  Calm'
<1>1. CASE End(p)
  BY <1>1 DEF End, Calm, LogInv, TypeOK, NoTask
<1>2. ASSUME NEW place, Move(p, place), place # "idle" PROVE Calm'
  BY <1>2 DEF Move, Calm, LogInv, TypeOK, Task
<1>3. ASSUME NEW E, Late(p, E), task[p].at # "idle" PROVE Calm'
  <2>1. \A q \in Requests \ {p} : task[q] = NoTask
    BY <1>3 DEF OneAtATime, Calm
  <2>2. NoTask.op \notin StudentOps /\ ~NoTask.late
    BY NoneIsNoOp DEF NoTask
  <2>3. \A q \in Requests : task'[q] = NoTask
    BY <1>3, <2>1, <2>2 DEF Late
  <2> QED BY <2>2, <2>3 DEF Calm
<1>4. CASE StudentOwner(p) \/ DecideDirect(p) \/ DecideFallback(p)
  BY <1>1, <1>2, <1>4 DEF StudentOwner, DecideDirect, DecideFallback, Verdict
<1>5. CASE Create(p) \/ StudentWrite(p) \/ RejectEntry(p)
  BY <1>1, <1>5 DEF Create, StudentWrite, RejectEntry
<1>6. CASE ApproveEntry(p) \/ ApproveAll(p)
  BY <1>3, <1>6 DEF ApproveEntry, ApproveAll
<1> QED BY <1>4, <1>5, <1>6 DEF LogStep

LEMMA CalmHolds == Spec /\ []OneAtATime => []Calm
<1>1. Init => Calm
  BY DEF Init, Calm, NoTask
<1>2. LogInv /\ Calm /\ OneAtATime /\ [Next]_allVars => Calm'
  <2> SUFFICES ASSUME LogInv, Calm, OneAtATime, [Next]_allVars PROVE Calm'
    OBVIOUS
  <2>1. CASE \E p \in Requests : LogStep(p) \/ LogCall(p)
    BY <2>1, CallsKeepCalm, StepsKeepCalm
  <2>2. CASE task' = task
    BY <2>2 DEF Calm
  <2> QED BY <2>1, <2>2 DEF Next, logVars, allVars
<1> QED BY <1>1, <1>2, LogInvariance, PTL DEF Spec

(* logbook.repository.ts:160 "only PENDING entries can be updated": an     *)
(* approved entry keeps its contents, unless requests overlap.             *)
THEOREM OnlyPendingOneAtATime == Spec /\ []OneAtATime => OnlyPendingChanges
<1> DEFINE Stays ==
      \A e \in LogIds :
        (entry[e].status = "APPROVED" /\ entry'[e].status # "deleted") =>
          entry'[e].text = entry[e].text
<1> DEFINE Stands ==
      \A e \in LogIds :
        (entry[e].status = "APPROVED" /\ entry'[e].text # entry[e].text) =>
          \E p \in Requests : task[p].entry = e /\ task[p].late
<1>1. Calm /\ [Stands]_allVars => [Stays]_allVars
  BY DEF Calm
<1>2. Spec => [][Stands]_allVars
  BY ApprovedEntryAlwaysStands DEF ApprovedEntryStands
<1>3. Spec /\ []OneAtATime => [][Stays]_allVars
  BY <1>1, <1>2, CalmHolds, PTL
<1> QED BY <1>3 DEF OnlyPendingChanges
=============================================================================
