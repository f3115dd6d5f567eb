------------------------------ MODULE Grading ------------------------------
(***************************************************************************)
(* The end of one internship: the student hands in a title and a report,   *)
(* the dosen approves or rejects them, the company's mentor assesses the   *)
(* student, and the dosen's score closes it: calculateCombinedGrade joins  *)
(* both scores to the final grade and marks the internship SELESAI.        *)
(*                                                                         *)
(* Every query here names one internship, so one is enough.  A request     *)
(* takes one step per awaited SQL statement or upload; scoring is six      *)
(* statements and no transaction.  The uploaded report is left out: its    *)
(* key is random, its upload comes before the row that names it, and no    *)
(* code deletes it.                                                        *)
(***************************************************************************)
EXTENDS Naturals, FiniteSets

CONSTANTS
  Dosens,       \* lecturers who may approve titles and score
  Mentors,      \* company mentors who may assess
  TitleIds,     \* bound on the rows of title_submissions
  LecturerIds,  \* bound on the rows of lecturer_assessments
  AssessIds,    \* bound on the rows of assessments
  Sheets,       \* the marks a dosen may give, four numbers each
  Forms,        \* the forms a mentor may fill in, one number per criterion
  Edits,        \* the changes a mentor may ask for, of some criteria only
  Ops,          \* endpoints that clients call, among "report", "assess",
                \* "score"
  Requests,     \* bound on the HTTP requests in flight
  Crashes,      \* whether a Worker may die and an awaited call may fail
  None

Criteria == {"kehadiran", "kerjasama", "sikapEtika", "prestasiKerja", "kreatifitas"}

(* validateScores bounds what mentors send; nothing bounds a dosen's marks *)
(* (the schema's comment says 0-100).                                      *)
ASSUME ConstantsAssumption ==
  /\ Sheets \subseteq [1 .. 4 -> Nat]
  /\ Forms \subseteq [Criteria -> 0 .. 100]
  /\ \A e \in Edits : /\ DOMAIN e \subseteq Criteria
                      /\ \A c \in DOMAIN e : e[c] \in 0 .. 100
  /\ Crashes \in BOOLEAN
  /\ None \notin Dosens \cup Mentors \cup TitleIds \cup LecturerIds \cup AssessIds

ASSUME BoundsAssumption ==
  IsFiniteSet(TitleIds) /\ IsFiniteSet(AssessIds) /\ IsFiniteSet(Requests)

VARIABLES
  title,     \* title_submissions table
  report,    \* status of the row of reports (internship_id is unique)
  lecturer,  \* lecturer_assessments table
  assess,    \* assessments table, written by mentors
  grade,     \* the row of combined_grades (unique as well), or None
  internship, \* status and dosenPembimbingId of the internships row
  req,       \* the requests in flight and what they remember
  revised,   \* history: assessments changed after a scoring read them
  cut        \* history: a scoring ended after its grade, before SELESAI

work == <<title, report>>
marks == <<lecturer, assess, revised>>
close == <<grade, internship, cut>>
vars == <<work, marks, close, req>>

-----------------------------------------------------------------------------
(* Scores.  Math.round rounds halves up, but the operands are sums of      *)
(* multiples of 0.1 in binary floating point, where a half may come out a  *)
(* little below: RoundedTenths(n) is what rounding n / 10 may give.        *)

RoundedTenths(n) == {(n + 4) \div 10, (n + 5) \div 10}

(* Exact: quarters are.                                                    *)
AcademicScore(s) == (s[1] + s[2] + s[3] + s[4] + 2) \div 4

(* computeTotal weighs in tenths.                                          *)
Totals(f) ==
  RoundedTenths(2 * f["kehadiran"] + 3 * f["kerjasama"] + 2 * f["sikapEtika"]
                + 2 * f["prestasiKerja"] + f["kreatifitas"])

FinalScores(field, academic) == RoundedTenths(3 * field + 7 * academic)

Letter(final) ==
  CASE final >= 80 -> "A"
    [] final >= 70 /\ final < 80 -> "B"
    [] final >= 60 /\ final < 70 -> "C"
    [] final >= 50 /\ final < 60 -> "D"
    [] OTHER -> "E"

(* Columns that the change does not name keep the value that was read.     *)
Merge(edit, seen) == [c \in Criteria |-> IF c \in DOMAIN edit THEN edit[c] ELSE seen[c]]

-----------------------------------------------------------------------------
TitleStatus == {"PENDING", "APPROVED", "REJECTED"}
TitleRow == [status : TitleStatus \cup {"unused"}, by : Dosens \cup {None}]

(* approvalStatus is written together with status in every statement.      *)
ReportStatus == {"none", "SUBMITTED", "APPROVED", "REJECTED"}

LecturerRow == [by : Dosens, total : Nat]
AssessRow == [by : Mentors, scores : [Criteria -> 0 .. 100], total : 0 .. 100,
              locked : BOOLEAN]
Grade == [assessment : AssessIds \cup {None}, lecturer : LecturerIds,
          field : 0 .. 100, academic : Nat, final : Nat,
          letter : {"A", "B", "C", "D", "E"}]

ASSUME NoneIsNoRow ==
  None \notin LecturerRow /\ None \notin AssessRow /\ None \notin Grade

Places == {"idle", "title.insert", "title.renew", "title.supervise",
           "fast.title", "fast.report", "report.look",
           "report.insert", "report.update", "assess.insert", "assess.read",
           "assess.write", "assess.unlock", "score.report", "score.titles",
           "score.read", "score.grade", "score.end", "backfill"}

AnyForm == Forms \cup Edits \cup {None}

Request == [at : Places, who : Dosens \cup Mentors \cup {None},
            title : TitleIds \cup {None}, assess : AssessIds \cup {None},
            form : AnyForm, seen : [Criteria -> 0 .. 100] \cup {None},
            lecturer : LecturerIds \cup {None}, field : 0 .. 100,
            todo : SUBSET (TitleIds \X Dosens)]

Idle == [at |-> "idle", who |-> None, title |-> None,
         assess |-> None, form |-> None, seen |-> None,
         lecturer |-> None, field |-> 0, todo |-> {}]

TypeOK ==
  /\ title \in [TitleIds -> TitleRow]
  /\ report \in ReportStatus
  /\ lecturer \in [LecturerIds -> LecturerRow \cup {None}]
  /\ assess \in [AssessIds -> AssessRow \cup {None}]
  /\ grade \in Grade \cup {None}
  /\ internship \in [status : {"AKTIF", "SELESAI"}, supervisor : Dosens \cup {None}]
  /\ req \in [Requests -> Request]
  /\ revised \in SUBSET AssessIds
  /\ cut \in BOOLEAN

Init ==
  /\ title = [t \in TitleIds |-> [status |-> "unused", by |-> None]]
  /\ report = "none"
  /\ lecturer = [l \in LecturerIds |-> None]
  /\ assess = [a \in AssessIds |-> None]
  /\ grade = None
  /\ internship = [status |-> "AKTIF", supervisor |-> None]
  /\ req = [p \in Requests |-> Idle]
  /\ revised = {}
  /\ cut = FALSE

-----------------------------------------------------------------------------
TitleRows == {t \in TitleIds : title[t].status # "unused"}
Approved == {t \in TitleIds : title[t].status = "APPROVED"}
Assessments == {a \in AssessIds : assess[a] # None}

Begin(p, r) == req[p].at = "idle" /\ req' = [req EXCEPT ![p] = r]
Goto(p, place) == req' = [req EXCEPT ![p].at = place]
Done(p) == req' = [req EXCEPT ![p] = Idle]

(* Bound: a request that may take a fresh id only starts while every       *)
(* request in flight still finds one, so none is held up by the bound.     *)
FreeTitles == TitleIds \ TitleRows
FreeLecturers == {l \in LecturerIds : lecturer[l] = None}
FreeAssess == AssessIds \ Assessments
Room(S) == Cardinality(S) > Cardinality({q \in Requests : req[q].at # "idle"})
First(S) == CHOOSE x \in S : TRUE

InsertTitle ==
  title' = [title EXCEPT ![First(FreeTitles)] = [status |-> "PENDING", by |-> None]]

-----------------------------------------------------------------------------
(* submitTitle: `limit 1` reads any title of the internship.               *)

TitleBegin(p) ==
  /\ Room(FreeTitles)
  /\ \/ TitleRows = {} /\ Begin(p, [Idle EXCEPT !.at = "title.insert"])
     \/ \E t \in TitleRows :
          /\ title[t].status = "REJECTED"
          /\ Begin(p, [Idle EXCEPT !.at = "title.renew", !.title = t])
  /\ UNCHANGED <<work, marks, close>>

TitleInsert(p) ==
  /\ req[p].at = "title.insert"
  /\ InsertTitle
  /\ Done(p)
  /\ UNCHANGED <<report, marks, close>>

TitleRenew(p) ==
  /\ req[p].at = "title.renew"
  /\ title' = [title EXCEPT ![req[p].title].status = "PENDING"]
  /\ Done(p)
  /\ UNCHANGED <<report, marks, close>>

(* approveTitle and rejectTitle, whatever the title's status.              *)
TitleApprove(p, d, t) ==
  /\ t \in TitleRows
  /\ title' = [title EXCEPT ![t] = [status |-> "APPROVED", by |-> d]]
  /\ Begin(p, [Idle EXCEPT !.at = "title.supervise", !.who = d])
  /\ UNCHANGED <<report, marks, close>>

TitleSupervise(p) ==
  /\ req[p].at = "title.supervise"
  /\ internship' = [internship EXCEPT !.supervisor = req[p].who]
  /\ Done(p)
  /\ UNCHANGED <<work, marks, grade, cut>>

TitleReject(t) ==
  /\ t \in TitleRows
  /\ title' = [title EXCEPT ![t].status = "REJECTED"]
  /\ UNCHANGED <<report, marks, close, req>>

(* backfillDosenPembimbingId: one read of the approved titles, then one    *)
(* UPDATE for each of them.                                                *)
BackfillBegin(p) ==
  /\ Approved # {}
  /\ Begin(p, [Idle EXCEPT !.at = "backfill",
                           !.todo = {<<t, title[t].by>> : t \in Approved}])
  /\ UNCHANGED <<work, marks, close>>

BackfillWrite(p) ==
  /\ req[p].at = "backfill"
  /\ \E x \in req[p].todo :
       /\ internship' = [internship EXCEPT !.supervisor = x[2]]
       /\ IF req[p].todo = {x} THEN Done(p)
                               ELSE req' = [req EXCEPT ![p].todo = @ \ {x}]
  /\ UNCHANGED <<work, marks, grade, cut>>

-----------------------------------------------------------------------------
(* submitTitleAndReport (fast track): no look at what is there already.    *)

FastBegin(p) ==
  /\ Room(FreeTitles)
  /\ Begin(p, [Idle EXCEPT !.at = "fast.title"])
  /\ UNCHANGED <<work, marks, close>>

(* Mutant: the fast track stores the report before the title.              *)
FastTitle_ReportFirst(p) ==
  /\ req[p].at = "fast.title"
  /\ report' = IF report = "none" THEN "SUBMITTED" ELSE report
  /\ Goto(p, "title.insert")
  /\ UNCHANGED <<title, marks, close>>

FastTitle(p) ==
  /\ req[p].at = "fast.title"
  /\ InsertTitle
  /\ Goto(p, "fast.report")
  /\ UNCHANGED <<report, marks, close>>

(* A second row for the internship is refused by the unique index, and the *)
(* handler fails there.                                                    *)
ReportInsert(p) ==
  /\ req[p].at \in {"fast.report", "report.insert"}
  /\ report' = IF report = "none" THEN "SUBMITTED" ELSE report
  /\ Done(p)
  /\ UNCHANGED <<title, marks, close>>

(* submitReport.                                                           *)
ReportBegin(p) ==
  /\ \E t \in TitleRows : title[t].status = "APPROVED"
  /\ Begin(p, [Idle EXCEPT !.at = "report.look"])
  /\ UNCHANGED <<work, marks, close>>

ReportLook(p) ==
  /\ req[p].at = "report.look"
  /\ Goto(p, IF report = "none" THEN "report.insert" ELSE "report.update")
  /\ UNCHANGED <<work, marks, close>>

ReportUpdate(p) ==
  /\ req[p].at = "report.update"
  /\ report' = "SUBMITTED"
  /\ Done(p)
  /\ UNCHANGED <<title, marks, close>>

(* approveReport and rejectReport, whatever the report's status.           *)
ReportDecide(verdict) ==
  /\ report # "none"
  /\ report' = verdict
  /\ UNCHANGED <<title, marks, close, req>>

-----------------------------------------------------------------------------
(* The mentor's assessment: createAssessment, updateAssessment,            *)
(* unlockAssessment.                                                       *)

ReadByScoring(a) ==
  \/ grade # None /\ grade.assessment = a
  \/ \E q \in Requests : req[q].at = "score.grade" /\ req[q].assess = a

AssessBegin(p, m, f) ==
  /\ Assessments = {} /\ Room(FreeAssess)
  /\ Begin(p, [Idle EXCEPT !.at = "assess.insert", !.who = m, !.form = f])
  /\ UNCHANGED <<work, marks, close>>

(* Mutant: the lock column is forgotten.                                   *)
AssessInsert_NoLock(p) ==
  LET f == req[p].form IN
  /\ req[p].at = "assess.insert"
  /\ \E n \in Totals(f) :
       assess' = [assess EXCEPT ![First(FreeAssess)] =
            [by |-> req[p].who, scores |-> f, total |-> n, locked |-> None]]
  /\ Done(p)
  /\ UNCHANGED <<work, lecturer, revised, close>>

AssessInsert(p) ==
  LET f == req[p].form IN
  /\ req[p].at = "assess.insert"
  /\ \E n \in Totals(f) :
       /\ assess' = [assess EXCEPT ![First(FreeAssess)] =
            [by |-> req[p].who, scores |-> f, total |-> n, locked |-> TRUE]]
  /\ Done(p)
  /\ UNCHANGED <<work, lecturer, revised, close>>

(* The service reads the row and refuses a locked one; the repository      *)
(* reads it again for the columns the change leaves alone.                 *)
ChangeBegin(p, m, a, e) ==
  /\ a \in Assessments
  /\ assess[a].by = m /\ ~assess[a].locked
  /\ Begin(p, [Idle EXCEPT !.at = "assess.read", !.assess = a, !.form = e])
  /\ UNCHANGED <<work, marks, close>>

ChangeRead(p) ==
  /\ req[p].at = "assess.read"
  /\ req' = [req EXCEPT ![p].at = "assess.write", ![p].seen = assess[req[p].assess].scores]
  /\ UNCHANGED <<work, marks, close>>

(* Mutant: the columns given are written, the total is of those read.      *)
ChangeWrite_OnlyGiven(p) ==
  LET r == req[p] IN
  /\ r.at = "assess.write"
  /\ \E n \in Totals(Merge(r.form, r.seen)) :
       assess' = [assess EXCEPT ![r.assess].scores = Merge(r.form, @),
                                ![r.assess].total = n,
                                ![r.assess].locked = TRUE]
  /\ revised' = IF ReadByScoring(r.assess) THEN revised \cup {r.assess} ELSE revised
  /\ Done(p)
  /\ UNCHANGED <<work, lecturer, close>>

ChangeWrite(p) ==
  LET r == req[p]
      merged == Merge(r.form, r.seen) IN
  /\ r.at = "assess.write"
  /\ \E n \in Totals(merged) :
       /\ assess' = [assess EXCEPT ![r.assess].scores = merged,
                                   ![r.assess].total = n,
                                   ![r.assess].locked = TRUE]
  /\ revised' = IF ReadByScoring(r.assess) THEN revised \cup {r.assess} ELSE revised
  /\ Done(p)
  /\ UNCHANGED <<work, lecturer, close>>

UnlockBegin(p, m, a) ==
  /\ a \in Assessments
  /\ assess[a].by = m
  /\ Begin(p, [Idle EXCEPT !.at = "assess.unlock", !.assess = a])
  /\ UNCHANGED <<work, marks, close>>

Unlock(p) ==
  /\ req[p].at = "assess.unlock"
  /\ assess' = [assess EXCEPT ![req[p].assess].locked = FALSE]
  /\ Done(p)
  /\ UNCHANGED <<work, lecturer, revised, close>>

-----------------------------------------------------------------------------
(* scoreReport with calculateCombinedGrade.                                *)

ScoreBegin(p, d, s) ==
  /\ \E l \in FreeLecturers :
       /\ l = First(FreeLecturers)
       /\ lecturer' = [lecturer EXCEPT ![l] = [by |-> d, total |-> AcademicScore(s)]]
       /\ Begin(p, [Idle EXCEPT !.at = "score.report", !.who = d, !.lecturer = l])
  /\ UNCHANGED <<work, assess, revised, close>>

ScoreReport(p) ==
  /\ req[p].at = "score.report"
  /\ report' = IF report = "none" THEN report ELSE "APPROVED"
  /\ Goto(p, "score.titles")
  /\ UNCHANGED <<title, marks, close>>

ScoreTitles(p) ==
  /\ req[p].at = "score.titles"
  /\ title' = [t \in TitleIds |-> IF t \in TitleRows
                 THEN [status |-> "APPROVED", by |-> req[p].who] ELSE title[t]]
  /\ Goto(p, "score.read")
  /\ UNCHANGED <<report, marks, close>>

(* Mutant: the assessment and its total are read apart.                    *)
ScoreRead_Twice(p) ==
  /\ req[p].at = "score.read"
  /\ \/ /\ Assessments = {}
        /\ Goto(p, "score.grade")
     \/ \E a, b \in Assessments :
          req' = [req EXCEPT ![p].at = "score.grade", ![p].assess = a,
                             ![p].field = assess[b].total]
  /\ UNCHANGED <<work, marks, close>>

(* `limit 1` reads any assessment; without one the field score is 0.       *)
ScoreRead(p) ==
  /\ req[p].at = "score.read"
  /\ \/ /\ Assessments = {}
        /\ Goto(p, "score.grade")
     \/ \E a \in Assessments :
          req' = [req EXCEPT ![p].at = "score.grade", ![p].assess = a,
                             ![p].field = assess[a].total]
  /\ UNCHANGED <<work, marks, close>>

NewGrade(r) ==
  LET academic == lecturer[r.lecturer].total IN
  \E n \in FinalScores(r.field, academic) :
    grade' = [assessment |-> r.assess, lecturer |-> r.lecturer, field |-> r.field,
              academic |-> academic, final |-> n, letter |-> Letter(n)]

(* Mutant: a grade that exists, or was just stored, ends the scoring.      *)
ScoreGrade_Returns(p) ==
  /\ req[p].at = "score.grade"
  /\ \/ grade # None /\ UNCHANGED grade
     \/ grade = None /\ NewGrade(req[p])
  /\ Done(p)
  /\ UNCHANGED <<work, marks, internship, cut>>

(* The unique index refuses a second grade, and the scoring fails there.   *)
ScoreGrade(p) ==
  /\ req[p].at = "score.grade"
  /\ \/ grade # None /\ Done(p) /\ UNCHANGED grade
     \/ grade = None /\ NewGrade(req[p]) /\ Goto(p, "score.end")
  /\ UNCHANGED <<work, marks, internship, cut>>

ScoreEnd(p) ==
  /\ req[p].at = "score.end"
  /\ internship' = [internship EXCEPT !.status = "SELESAI"]
  /\ Done(p)
  /\ UNCHANGED <<work, marks, grade, cut>>

-----------------------------------------------------------------------------
(* The Worker is killed, or the awaited call throws and the handler        *)
(* answers with the error: nothing is undone.                              *)
Die(p) ==
  /\ Crashes
  /\ req[p].at # "idle"
  /\ cut' = (cut \/ req[p].at = "score.end")
  /\ Done(p)
  /\ UNCHANGED <<work, marks, grade, internship>>

Step(p) ==
  \/ TitleInsert(p) \/ TitleRenew(p) \/ TitleSupervise(p) \/ BackfillWrite(p)
  \/ FastTitle(p) \/ ReportInsert(p) \/ ReportLook(p)
  \/ ReportUpdate(p) \/ AssessInsert(p) \/ ChangeRead(p) \/ ChangeWrite(p)
  \/ Unlock(p) \/ ScoreReport(p) \/ ScoreTitles(p) \/ ScoreRead(p)
  \/ ScoreGrade(p) \/ ScoreEnd(p)

AssessCall(p) ==
  "assess" \in Ops /\
    \E m \in Mentors :
      \/ \E f \in Forms : AssessBegin(p, m, f)
      \/ \E a \in AssessIds : \/ UnlockBegin(p, m, a)
                              \/ \E e \in Edits : ChangeBegin(p, m, a, e)

Call(p) ==
  \/ /\ "report" \in Ops
     /\ \/ TitleBegin(p) \/ BackfillBegin(p) \/ FastBegin(p) \/ ReportBegin(p)
        \/ \E d \in Dosens, t \in TitleIds : TitleApprove(p, d, t)
  \/ "score" \in Ops /\ \E d \in Dosens, s \in Sheets : ScoreBegin(p, d, s)
  \/ AssessCall(p)

Next ==
  \/ \E p \in Requests : Step(p) \/ Die(p) \/ Call(p)
  \/ \E t \in TitleIds : TitleReject(t)
  \/ \E v \in {"APPROVED", "REJECTED"} : ReportDecide(v)

Spec == Init /\ [][Next]_vars

(* A Worker that is not killed finishes what it started.                   *)
FairSpec == Spec /\ \A p \in Requests : WF_vars(Step(p))

-----------------------------------------------------------------------------
(* The grade is the one its own scores give: the academic score is that of *)
(* the lecturer's row it names, the field score that of the assessment it  *)
(* names, unless the mentor changed that one after the scoring had read    *)
(* it, and 0 without one; the final score weighs these two.  Two           *)
(* assessments, two dosens scoring at once and changes by the mentor do    *)
(* not mix them up.                                                        *)
GradeFitsScores ==
  grade # None =>
    /\ grade.academic = lecturer[grade.lecturer].total
    /\ \/ grade.assessment = None /\ grade.field = 0
       \/ grade.assessment \in revised
       \/ /\ grade.assessment \in Assessments
          /\ grade.field = assess[grade.assessment].total
    /\ grade.final \in FinalScores(grade.field, grade.academic)

(* Changes of some criteria that overlap may overwrite one another, but    *)
(* the total of an assessment is always that of the columns stored with    *)
(* it.                                                                     *)
TotalFitsColumns ==
  \A a \in Assessments : assess[a].total \in Totals(assess[a].scores)

(* The results of an internship come in order: a report has a title next   *)
(* to it, in both flows, also when a Worker dies between the two inserts   *)
(* of the fast track; and the internship is SELESAI only with a grade,     *)
(* although scorings that overlap fail at the unique index after they have *)
(* approved the report and the titles.                                     *)
ResultsInOrder ==
  /\ report # "none" => TitleRows # {}
  /\ internship.status = "SELESAI" => grade # None

(* Unless the Worker is killed in between, a graded internship ends.       *)
GradedEnds == grade # None ~> (internship.status = "SELESAI" \/ cut)

-----------------------------------------------------------------------------
(* What messages and comments of the code say and the interleavings break. *)

(* submitTitle: "Title submission already exists": one per internship.     *)
OneTitle == Cardinality(TitleRows) <= 1

(* updateAssessment: "Assessment is locked.  Please unlock it first": a    *)
(* locked assessment keeps its scores.                                     *)
LockedKeepsScores ==
  [][\A a \in Assessments :
       assess[a].locked => assess'[a].scores = assess[a].scores]_vars

(* createAssessment: "Assessment already exists for this student".         *)
OneAssessment == Cardinality(Assessments) <= 1

(* approveTitle: "Also update the internship's dosenPembimbingId so the    *)
(* student dashboard can resolve and display the lecturer's name           *)
(* correctly": when no request is in flight, an approved title comes with  *)
(* a supervisor.                                                           *)
ApprovedHasSupervisor ==
  (Approved # {} /\ \A p \in Requests : req[p].at = "idle") =>
     internship.supervisor # None

(* Nothing recalculates the grade when the mentor assesses later.          *)
GradeIsCurrent ==
  grade # None /\ Assessments # {} =>
    \E a \in Assessments : grade.field = assess[a].total
=============================================================================
