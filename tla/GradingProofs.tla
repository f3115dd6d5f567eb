---------------------------- MODULE GradingProofs ----------------------------
(***************************************************************************)
(* Proofs about Grading, for any number of lecturers, mentors, titles,     *)
(* assessments, marks and HTTP requests.                                   *)
(*                                                                         *)
(* A scoring is six statements; what it read is kept for it by the others  *)
(* (Keeps): rows are added and never taken away, a lecturer's row and the  *)
(* grade are written once, and a total that a scoring has read changes     *)
(* only into the history variable revised.                                 *)
(***************************************************************************)
EXTENDS Grading, FiniteSetTheorems, TLAPS

FieldFits(a, n) ==
  \/ a = None /\ n = 0
  \/ a \in revised
  \/ a \in Assessments /\ n = assess[a].total

Scoring == {"score.report", "score.titles", "score.read", "score.grade"}

ReqOK(r) ==
  /\ r.at \in Scoring \cup {"title.supervise"} => r.who \in Dosens
  /\ r.at \in Scoring => r.lecturer \in LecturerIds /\ lecturer[r.lecturer] # None
  /\ r.at \in Scoring \ {"score.grade"} => r.assess = None /\ r.field = 0
  /\ r.at = "score.grade" => FieldFits(r.assess, r.field)
  /\ r.at = "score.end" => grade # None
  /\ r.at = "assess.insert" => r.who \in Mentors /\ r.form \in Forms
  /\ r.at \in {"assess.read", "assess.write"} => r.form \in Edits
  /\ r.at \in {"assess.read", "assess.write", "assess.unlock"} => r.assess \in Assessments
  /\ r.at = "assess.write" => r.seen \in [Criteria -> 0 .. 100]
  /\ r.at = "title.renew" => r.title \in TitleRows
  /\ r.at \in {"fast.report", "report.look", "report.insert", "report.update"} =>
       TitleRows # {}

ReqsOK == \A p \in Requests : ReqOK(req[p])

TitlesOK == \A t \in Approved : title[t].by \in Dosens

LecturerKept == grade # None => lecturer[grade.lecturer] # None

(* Every insert in flight finds a fresh id (the bound Room).               *)
Inserts == {"title.insert", "fast.title", "assess.insert"}
Titling == {p \in Requests : req[p].at \in {"title.insert", "fast.title"}}
Assessing == {p \in Requests : req[p].at = "assess.insert"}

EnoughIds ==
  /\ Cardinality(Titling) <= Cardinality(FreeTitles)
  /\ Cardinality(Assessing) <= Cardinality(FreeAssess)

GradingInv ==
  /\ TypeOK /\ ReqsOK /\ TitlesOK /\ LecturerKept /\ EnoughIds
  /\ GradeFitsScores /\ TotalFitsColumns /\ ResultsInOrder

(* What a step may do to what the requests and the grade rely on.          *)
Keeps ==
  /\ TitleRows \subseteq TitleRows'
  /\ \A l \in LecturerIds : lecturer[l] # None => lecturer'[l] = lecturer[l]
  /\ Assessments \subseteq Assessments' /\ revised \subseteq revised'
  /\ \A a \in Assessments :
       ReadByScoring(a) /\ a \notin revised' => assess'[a].total = assess[a].total
  /\ grade # None => grade' = grade

-----------------------------------------------------------------------------
(* Scores                                                                  *)

LEMMA TenthsAreBounded ==
  ASSUME NEW n \in Nat, NEW k \in Nat, n <= 10 * k, NEW x \in RoundedTenths(n)
  PROVE  x \in 0 .. k
BY DEF RoundedTenths

LEMMA WeightsAreTenths ==
  ASSUME NEW a \in 0 .. 100, NEW b \in 0 .. 100, NEW c \in 0 .. 100,
         NEW d \in 0 .. 100, NEW e \in 0 .. 100
  PROVE  /\ 2 * a + 3 * b + 2 * c + 2 * d + e \in Nat
         /\ 2 * a + 3 * b + 2 * c + 2 * d + e <= 10 * 100
OBVIOUS

LEMMA TotalsAreScores ==
  ASSUME NEW f \in [Criteria -> 0 .. 100], NEW n \in Totals(f)
  PROVE  n \in 0 .. 100
<1> DEFINE sum == 2 * f["kehadiran"] + 3 * f["kerjasama"] + 2 * f["sikapEtika"]
                  + 2 * f["prestasiKerja"] + f["kreatifitas"]
<1>0. /\ f["kehadiran"] \in 0 .. 100 /\ f["kerjasama"] \in 0 .. 100
      /\ f["sikapEtika"] \in 0 .. 100 /\ f["prestasiKerja"] \in 0 .. 100
      /\ f["kreatifitas"] \in 0 .. 100
  BY DEF Criteria
<1>1. sum \in Nat /\ sum <= 10 * 100
  BY <1>0, WeightsAreTenths
<1>2. n \in RoundedTenths(sum)
  BY DEF Totals
<1> HIDE DEF sum
<1> QED BY <1>1, <1>2, TenthsAreBounded

LEMMA FinalsAreScores ==
  ASSUME NEW field \in Nat, NEW academic \in Nat, NEW n \in FinalScores(field, academic)
  PROVE  n \in Nat
BY DEF FinalScores, RoundedTenths

LEMMA AcademicIsScore ==
  ASSUME NEW s \in Sheets
  PROVE  AcademicScore(s) \in Nat
<1>1. s[1] \in Nat /\ s[2] \in Nat /\ s[3] \in Nat /\ s[4] \in Nat
  BY ConstantsAssumption
<1> QED BY <1>1 DEF AcademicScore

LEMMA MergeIsForm ==
  ASSUME NEW e \in Edits, NEW seen \in [Criteria -> 0 .. 100]
  PROVE  Merge(e, seen) \in [Criteria -> 0 .. 100]
BY ConstantsAssumption DEF Merge

-----------------------------------------------------------------------------
LEMMA GradingInitially == Init => GradingInv
<1> SUFFICES ASSUME Init PROVE GradingInv
  OBVIOUS
<1>1. Idle \in Request
  BY DEF Idle, Request, Places, AnyForm
<1>2. TypeOK
  BY <1>1 DEF Init, TypeOK, TitleRow, ReportStatus
<1>3. ReqsOK /\ TitlesOK /\ LecturerKept
  BY DEF Init, ReqsOK, ReqOK, Idle, Scoring, TitlesOK, Approved, LecturerKept
<1>4. EnoughIds
  <2>1. Titling = {} /\ Assessing = {}
    BY DEF Init, Titling, Assessing, Idle
  <2>2. FreeTitles \subseteq TitleIds /\ FreeAssess \subseteq AssessIds
    BY DEF FreeTitles, FreeAssess
  <2>3. Cardinality(FreeTitles) \in Nat /\ Cardinality(FreeAssess) \in Nat
    BY <2>2, BoundsAssumption, FS_Subset, FS_CardinalityType
  <2> QED BY <2>1, <2>3, FS_EmptySet DEF EnoughIds
<1>5. GradeFitsScores /\ TotalFitsColumns /\ ResultsInOrder
  BY DEF Init, GradeFitsScores, TotalFitsColumns, Assessments, ResultsInOrder
<1> QED BY <1>2, <1>3, <1>4, <1>5 DEF GradingInv

(* What a request knows stays true under Keeps.                            *)
LEMMA StillKnows ==
  ASSUME GradingInv, Keeps, NEW q \in Requests, req'[q] = req[q]
  PROVE  ReqOK(req[q])'
<1> DEFINE r == req[q]
<1>1. ReqOK(r) /\ r \in Request
  BY DEF GradingInv, ReqsOK, TypeOK
<1>2. r.at \in Scoring => lecturer'[r.lecturer] # None
  BY <1>1 DEF ReqOK, Keeps
<1>3. r.at = "score.grade" => FieldFits(r.assess, r.field)'
  BY <1>1 DEF ReqOK, FieldFits, Keeps, ReadByScoring
<1>4. r.at = "score.end" => grade' # None
  BY <1>1 DEF ReqOK, Keeps
<1>5. r.at \in {"assess.read", "assess.write", "assess.unlock"} => r.assess \in Assessments'
  BY <1>1 DEF ReqOK, Keeps
<1>6. TitleRows # {} => TitleRows' # {}
  BY DEF Keeps
<1>7. r.at = "title.renew" => r.title \in TitleRows'
  BY <1>1 DEF ReqOK, Keeps
<1> QED BY <1>1, <1>2, <1>3, <1>4, <1>5, <1>6, <1>7 DEF ReqOK

LEMMA Keeping ==
  ASSUME GradingInv, Keeps, TypeOK', TitlesOK', TotalFitsColumns', ResultsInOrder',
         EnoughIds',
         \A q \in Requests : req'[q] = req[q] \/ ReqOK(req[q])',
         grade' = grade \/ (GradeFitsScores' /\ LecturerKept')
  PROVE  GradingInv'
<1>1. ReqsOK'
  BY StillKnows DEF ReqsOK
<1>2. GradeFitsScores' /\ LecturerKept'
  <2> SUFFICES ASSUME grade' = grade, grade # None
               PROVE  GradeFitsScores' /\ LecturerKept'
    BY DEF GradeFitsScores, LecturerKept
  <2>1. grade \in Grade /\ lecturer[grade.lecturer] # None
    BY DEF GradingInv, TypeOK, LecturerKept
  <2>2. lecturer'[grade.lecturer] = lecturer[grade.lecturer]
    BY <2>1 DEF Keeps, Grade
  <2>3. FieldFits(grade.assessment, grade.field)'
    BY DEF GradingInv, GradeFitsScores, FieldFits, Keeps, ReadByScoring
  <2> QED BY <2>1, <2>2, <2>3 DEF GradingInv, GradeFitsScores, LecturerKept, FieldFits
<1> QED BY <1>1, <1>2 DEF GradingInv

-----------------------------------------------------------------------------
(* Counting the ids that inserts in flight may take                        *)

LEMMA FewerInserts ==
  ASSUME NEW S, NEW F, IsFiniteSet(S), IsFiniteSet(F), Cardinality(S) <= Cardinality(F),
         NEW T, T \subseteq S
  PROVE  Cardinality(T) <= Cardinality(F)
<1>1. Cardinality(S) \in Nat /\ Cardinality(F) \in Nat
  BY FS_CardinalityType
<1>2. Cardinality(T) \in Nat /\ Cardinality(T) <= Cardinality(S)
  BY FS_Subset, FS_CardinalityType
<1> QED BY <1>1, <1>2

LEMMA InsertEnds ==
  ASSUME NEW S, NEW F, IsFiniteSet(S), IsFiniteSet(F), Cardinality(S) <= Cardinality(F),
         NEW p \in S, NEW x \in F
  PROVE  Cardinality(S \ {p}) <= Cardinality(F \ {x})
<1>1. Cardinality(S) \in Nat /\ Cardinality(F) \in Nat
  BY FS_CardinalityType
<1>2. /\ Cardinality(S \ {p}) = Cardinality(S) - 1
      /\ Cardinality(F \ {x}) = Cardinality(F) - 1
  BY FS_RemoveElement
<1> QED BY <1>1, <1>2

LEMMA InsertFindsId ==
  ASSUME NEW S, NEW F, IsFiniteSet(S), IsFiniteSet(F), Cardinality(S) <= Cardinality(F),
         NEW p \in S
  PROVE  First(F) \in F
<1>1. Cardinality(S) \in Nat /\ Cardinality(F) \in Nat
  BY FS_CardinalityType
<1>2. Cardinality(S) # 0
  BY FS_EmptySet
<1>3. F # {}
  BY <1>1, <1>2, FS_EmptySet
<1> QED BY <1>3 DEF First

(* Room: a request starts to insert while all of those in flight could.    *)
LEMMA RoomForOne ==
  ASSUME TypeOK, NEW F, IsFiniteSet(F), Room(F), NEW p \in Requests, req[p].at = "idle",
         NEW S \in SUBSET {q \in Requests : req[q].at # "idle"}
  PROVE  Cardinality(S \cup {p}) <= Cardinality(F)
<1> DEFINE A == {q \in Requests : req[q].at # "idle"}
<1>1. IsFiniteSet(A) /\ IsFiniteSet(S) /\ Cardinality(S) <= Cardinality(A)
  BY BoundsAssumption, FS_Subset
<1>2. Cardinality(S) \in Nat /\ Cardinality(A) \in Nat /\ Cardinality(F) \in Nat
  BY <1>1, FS_CardinalityType
<1>3. Cardinality(S \cup {p}) = Cardinality(S) + 1
  BY <1>1, FS_AddElement
<1>4. Cardinality(F) > Cardinality(A)
  BY DEF Room
<1> QED BY <1>1, <1>2, <1>3, <1>4

LEMMA CountsAreFinite ==
  /\ IsFiniteSet(Titling) /\ IsFiniteSet(FreeTitles)
  /\ IsFiniteSet(Assessing) /\ IsFiniteSet(FreeAssess)
<1>1. Titling \subseteq Requests /\ Assessing \subseteq Requests
  BY DEF Titling, Assessing
<1>2. FreeTitles \subseteq TitleIds /\ FreeAssess \subseteq AssessIds
  BY DEF FreeTitles, FreeAssess
<1> QED BY <1>1, <1>2, BoundsAssumption, FS_Subset

LEMMA NoMoreInserts ==
  ASSUME GradingInv, NEW p \in Requests, NEW r, req' = [req EXCEPT ![p] = r],
         r.at \notin Inserts, Assessments' = Assessments, TitleRows' = TitleRows
  PROVE  EnoughIds'
<1>1. Titling' \subseteq Titling /\ Assessing' \subseteq Assessing
  BY DEF Titling, Assessing, Inserts, GradingInv, TypeOK
<1>2. FreeTitles' = FreeTitles /\ FreeAssess' = FreeAssess
  BY DEF FreeTitles, FreeAssess
<1> QED BY <1>1, <1>2, CountsAreFinite, FewerInserts DEF GradingInv, EnoughIds

(* A request that remembers something new and writes nothing.              *)
LEMMA OnlyReads ==
  ASSUME GradingInv, NEW p \in Requests, NEW r \in Request,
         req' = [req EXCEPT ![p] = r], UNCHANGED <<work, marks, close>>,
         ReqOK(r), EnoughIds'
  PROVE  GradingInv'
<1> USE DEF work, marks, close
<1>1. req'[p] = r /\ \A q \in Requests \ {p} : req'[q] = req[q]
  BY DEF GradingInv, TypeOK
<1>2. TypeOK'
  BY DEF GradingInv, TypeOK
<1>3. Keeps
  BY DEF Keeps, TitleRows, Assessments
<1>4. ReqOK(req[p])'
  BY <1>1 DEF ReqOK, FieldFits, TitleRows, Assessments
<1>5. TitlesOK' /\ TotalFitsColumns' /\ ResultsInOrder'
  BY DEF GradingInv, TitlesOK, Approved, TotalFitsColumns, Assessments, ResultsInOrder,
     TitleRows
<1> QED BY <1>1, <1>2, <1>3, <1>4, <1>5, Keeping

LEMMA IdleOK == Idle \in Request /\ ReqOK(Idle) /\ ReqOK(Idle)' /\ Idle.at = "idle"
BY DEF Idle, Request, Places, AnyForm, ReqOK, Scoring

(* A request that goes on to its next statement.                           *)
LEMMA AtPlace ==
  ASSUME NEW r \in Request, NEW place \in Places
  PROVE  LET n == [r EXCEPT !.at = place] IN
         /\ n \in Request /\ n.at = place /\ n.who = r.who /\ n.title = r.title
         /\ n.assess = r.assess /\ n.form = r.form /\ n.seen = r.seen
         /\ n.lecturer = r.lecturer /\ n.field = r.field
BY DEF Request

LEMMA GoesTo ==
  ASSUME NEW p \in Requests, req[p] \in Request, NEW place \in Places, Goto(p, place)
  PROVE  \E r \in Request : /\ req' = [req EXCEPT ![p] = r] /\ r.at = place
                            /\ r.who = req[p].who /\ r.lecturer = req[p].lecturer
                            /\ r.assess = req[p].assess /\ r.field = req[p].field
<1> DEFINE n == [req[p] EXCEPT !.at = place]
<1>1. /\ n \in Request /\ n.at = place /\ n.who = req[p].who
      /\ n.lecturer = req[p].lecturer /\ n.assess = req[p].assess
      /\ n.field = req[p].field
  BY AtPlace
<1>2. req' = [req EXCEPT ![p] = n]
  BY DEF Goto
<1> HIDE DEF n
<1> QED BY <1>1, <1>2

(* What a request remembers when it starts.                                *)
LEMMA TakesTitle ==
  ASSUME NEW r \in Request, NEW t \in TitleIds
  PROVE  [r EXCEPT !.title = t] \in Request
BY DEF Request

LEMMA TakesWho ==
  ASSUME NEW r \in Request, NEW d \in Dosens
  PROVE  [r EXCEPT !.who = d] \in Request
BY DEF Request

LEMMA TakesTodo ==
  ASSUME NEW r \in Request, NEW todo \in SUBSET (TitleIds \X Dosens)
  PROVE  [r EXCEPT !.todo = todo] \in Request /\ [r EXCEPT !.todo = todo].at = r.at
<1>1. PICK T : T = SUBSET (TitleIds \X Dosens)
  OBVIOUS
<1>2. Request = [at : Places, who : Dosens \cup Mentors \cup {None},
                 title : TitleIds \cup {None}, assess : AssessIds \cup {None},
                 form : AnyForm, seen : [Criteria -> 0 .. 100] \cup {None},
                 lecturer : LecturerIds \cup {None}, field : 0 .. 100, todo : T]
  BY <1>1 DEF Request
<1> QED BY <1>1, <1>2

LEMMA TakesAsked ==
  ASSUME NEW r \in Request, NEW a \in AssessIds
  PROVE  [r EXCEPT !.assess = a] \in Request
BY DEF Request

LEMMA StartsWithTitle ==
  ASSUME NEW place \in Places, NEW t \in TitleIds
  PROVE  [Idle EXCEPT !.at = place, !.title = t] \in Request
<1>1. PICK r \in Request : r = [Idle EXCEPT !.at = place]
  BY IdleOK, AtPlace
<1>2. [r EXCEPT !.title = t] \in Request
  BY TakesTitle
<1> QED BY <1>1, <1>2

LEMMA StartsWithTodo ==
  ASSUME NEW place \in Places, NEW todo \in SUBSET (TitleIds \X Dosens)
  PROVE  [Idle EXCEPT !.at = place, !.todo = todo] \in Request
<1>1. PICK r \in Request : r = [Idle EXCEPT !.at = place]
  BY IdleOK, AtPlace
<1>2. [r EXCEPT !.todo = todo] \in Request
  BY TakesTodo
<1> QED BY <1>1, <1>2

LEMMA StartsWithAssessment ==
  ASSUME NEW place \in Places, NEW a \in AssessIds
  PROVE  [Idle EXCEPT !.at = place, !.assess = a] \in Request
<1>1. PICK r \in Request : r = [Idle EXCEPT !.at = place]
  BY IdleOK, AtPlace
<1>2. [r EXCEPT !.assess = a] \in Request
  BY TakesAsked
<1> QED BY <1>1, <1>2

LEMMA TakesAssessment ==
  ASSUME NEW r \in Request, NEW a \in AssessIds, NEW s, s = [r EXCEPT !.assess = a]
  PROVE  /\ s \in Request /\ s.at = r.at /\ s.who = r.who /\ s.lecturer = r.lecturer
         /\ s.assess = a
BY DEF Request

LEMMA TakesField ==
  ASSUME NEW r \in Request, NEW n \in 0 .. 100, NEW s, s = [r EXCEPT !.field = n]
  PROVE  /\ s \in Request /\ s.at = r.at /\ s.who = r.who /\ s.lecturer = r.lecturer
         /\ s.assess = r.assess /\ s.field = n
BY DEF Request

LEMMA TakesSeen ==
  ASSUME NEW r \in Request, NEW f \in [Criteria -> 0 .. 100]
  PROVE  LET s == [r EXCEPT !.seen = f] IN
         /\ s \in Request /\ s.at = r.at /\ s.form = r.form /\ s.assess = r.assess
         /\ s.seen = f
BY DEF Request

LEMMA TakesForm ==
  ASSUME NEW r \in Request, NEW f \in AnyForm
  PROVE  [r EXCEPT !.form = f] \in Request
BY DEF Request

-----------------------------------------------------------------------------
(* Calls                                                                   *)

LEMMA ReadingCalls ==
  ASSUME GradingInv, NEW p \in Requests,
         \/ TitleBegin(p) \/ BackfillBegin(p) \/ FastBegin(p) \/ ReportBegin(p)
         \/ \E m \in Mentors, a \in AssessIds :
              UnlockBegin(p, m, a) \/ \E e \in Edits : ChangeBegin(p, m, a, e)
  PROVE  GradingInv'
<1>1. ASSUME NEW r \in Request, Begin(p, r), ReqOK(r), r.at \notin Inserts,
             UNCHANGED <<work, marks, close>>
      PROVE  GradingInv'
  <2>1. /\ Assessments' = Assessments /\ TitleRows' = TitleRows
        /\ req' = [req EXCEPT ![p] = r]
    BY <1>1 DEF marks, work, Assessments, TitleRows, Begin
  <2> QED BY <1>1, <2>1, NoMoreInserts, OnlyReads
<1>0. ASSUME NEW place \in {"title.insert", "fast.title"}, Room(FreeTitles),
             Begin(p, [Idle EXCEPT !.at = place]), UNCHANGED <<work, marks, close>>
      PROVE  GradingInv'
  <2> DEFINE r == [Idle EXCEPT !.at = place]
  <2>1. r \in Request /\ r.at = place /\ ReqOK(r)
    BY DEF Idle, Request, Places, AnyForm, ReqOK, Scoring
  <2>2. req[p].at = "idle" /\ req' = [req EXCEPT ![p] = r]
    BY <1>0 DEF Begin
  <2>3. FreeTitles' = FreeTitles /\ FreeAssess' = FreeAssess
    BY <1>0 DEF work, marks, FreeTitles, TitleRows, FreeAssess, Assessments
  <2>4. Titling' = Titling \cup {p} /\ Assessing' \subseteq Assessing
    BY <2>1, <2>2 DEF Titling, Assessing, GradingInv, TypeOK
  <2>5. Titling \in SUBSET {q \in Requests : req[q].at # "idle"}
    BY DEF Titling
  <2>6. Cardinality(Titling') <= Cardinality(FreeTitles)
    BY <1>0, <2>2, <2>4, <2>5, RoomForOne, CountsAreFinite DEF GradingInv
  <2>7. EnoughIds'
    BY <2>3, <2>4, <2>6, CountsAreFinite, FewerInserts DEF GradingInv, EnoughIds
  <2> QED BY <1>0, <2>1, <2>2, <2>7, OnlyReads
<1>2. CASE TitleBegin(p)
  <2>1. CASE Begin(p, [Idle EXCEPT !.at = "title.insert"])
    BY <1>2, <2>1, <1>0 DEF TitleBegin
  <2>2. ASSUME NEW t \in TitleRows, Begin(p, [Idle EXCEPT !.at = "title.renew", !.title = t])
        PROVE  GradingInv'
    <3> DEFINE r == [Idle EXCEPT !.at = "title.renew", !.title = t]
    <3>0. "title.renew" \in Places
      BY DEF Places
    <3>1. r \in Request /\ r.at \notin Inserts
      BY <3>0, StartsWithTitle DEF Idle, Inserts, TitleRows
    <3>2. ReqOK(r)
      BY DEF Idle, ReqOK, Scoring
    <3> QED BY <1>1, <1>2, <2>2, <3>1, <3>2 DEF TitleBegin
  <2> QED BY <1>2, <2>1, <2>2 DEF TitleBegin
<1>3. CASE BackfillBegin(p)
  <2> DEFINE r == [Idle EXCEPT !.at = "backfill", !.todo = {<<t, title[t].by>> : t \in Approved}]
  <2>1. {<<t, title[t].by>> : t \in Approved} \in SUBSET (TitleIds \X Dosens)
    BY DEF GradingInv, TitlesOK, Approved
  <2>0. "backfill" \in Places
    BY DEF Places
  <2>2. r \in Request /\ r.at \notin Inserts
    BY <2>0, <2>1, StartsWithTodo DEF Idle, Inserts
  <2>3. ReqOK(r)
    BY DEF Idle, ReqOK, Scoring
  <2> QED BY <1>1, <1>3, <2>2, <2>3 DEF BackfillBegin
<1>4. CASE FastBegin(p)
  BY <1>0, <1>4 DEF FastBegin
<1>5. CASE ReportBegin(p)
  <2> DEFINE r == [Idle EXCEPT !.at = "report.look"]
  <2>1. r \in Request /\ r.at \notin Inserts /\ ReqOK(r)
    BY <1>5 DEF ReportBegin, Idle, Request, Places, AnyForm, ReqOK, Scoring, Inserts
  <2> QED BY <1>1, <1>5, <2>1 DEF ReportBegin
<1>6. ASSUME NEW m \in Mentors, NEW a \in AssessIds, UnlockBegin(p, m, a)
      PROVE  GradingInv'
  <2> DEFINE r == [Idle EXCEPT !.at = "assess.unlock", !.assess = a]
  <2>0. "assess.unlock" \in Places
    BY DEF Places
  <2>1. r \in Request /\ r.at \notin Inserts
    BY <2>0, StartsWithAssessment DEF Idle, Inserts
  <2>2. ReqOK(r)
    BY <1>6 DEF UnlockBegin, Idle, ReqOK, Scoring
  <2> QED BY <1>1, <1>6, <2>1, <2>2 DEF UnlockBegin
<1>7. ASSUME NEW m \in Mentors, NEW a \in AssessIds, NEW e \in Edits,
             ChangeBegin(p, m, a, e)
      PROVE  GradingInv'
  <2> DEFINE r == [Idle EXCEPT !.at = "assess.read", !.assess = a, !.form = e]
  <2>0. "assess.read" \in Places
    BY DEF Places
  <2>1. r \in Request /\ r.at \notin Inserts
    <3>1. e \in AnyForm
      BY DEF AnyForm
    <3>2. [[Idle EXCEPT !.at = "assess.read", !.assess = a] EXCEPT !.form = e] \in Request
      BY <2>0, <3>1, StartsWithAssessment, TakesForm
    <3> QED BY <3>2 DEF Idle, Inserts
  <2>2. ReqOK(r)
    BY <1>7 DEF ChangeBegin, Idle, ReqOK, Scoring
  <2> QED BY <1>1, <1>7, <2>1, <2>2 DEF ChangeBegin
<1> QED BY <1>2, <1>3, <1>4, <1>5, <1>6, <1>7

-----------------------------------------------------------------------------
(* Steps that write                                                        *)

(* No request moves, or one does and starts no insert.                     *)
Follows ==
  \/ UNCHANGED req
  \/ \E p \in Requests, r \in Request :
       req' = [req EXCEPT ![p] = r] /\ r.at \notin Inserts /\ ReqOK(r)'

LEMMA Following ==
  ASSUME GradingInv, Follows, Assessments' = Assessments, TitleRows' = TitleRows
  PROVE  /\ req' \in [Requests -> Request] /\ EnoughIds'
         /\ \A q \in Requests : req'[q] = req[q] \/ ReqOK(req[q])'
<1>1. CASE UNCHANGED req
  BY <1>1 DEF GradingInv, TypeOK, EnoughIds, Titling, Assessing, FreeTitles, FreeAssess
<1>2. ASSUME NEW p \in Requests, NEW r \in Request,
             req' = [req EXCEPT ![p] = r], r.at \notin Inserts, ReqOK(r)'
      PROVE  /\ req' \in [Requests -> Request] /\ EnoughIds'
             /\ \A q \in Requests : req'[q] = req[q] \/ ReqOK(req[q])'
  <2>1. req' \in [Requests -> Request] /\ req'[p] = r
        /\ \A q \in Requests \ {p} : req'[q] = req[q]
    BY <1>2 DEF GradingInv, TypeOK
  <2>2. ReqOK(req[p])'
    BY <1>2, <2>1 DEF ReqOK
  <2>3. EnoughIds'
    BY <1>2, NoMoreInserts
  <2> QED BY <2>1, <2>2, <2>3
<1> QED BY <1>1, <1>2 DEF Follows

LEMMA Ending ==
  ASSUME GradingInv, NEW p \in Requests, Done(p)
  PROVE  Follows
BY IdleOK DEF Done, Follows, Inserts

(* Only titles are written.                                                *)
LEMMA TitlesKeepInv ==
  ASSUME GradingInv, Follows, UNCHANGED <<report, marks, close>>,
         title' \in [TitleIds -> TitleRow], TitlesOK', TitleRows' = TitleRows
  PROVE  GradingInv'
<1> USE DEF marks, close
<1>1. Assessments' = Assessments
  BY DEF Assessments
<1>2. TypeOK'
  BY <1>1, Following DEF GradingInv, TypeOK
<1>3. Keeps
  BY <1>1 DEF Keeps
<1>4. TotalFitsColumns' /\ ResultsInOrder'
  BY <1>1 DEF GradingInv, TotalFitsColumns, ResultsInOrder
<1> QED BY <1>1, <1>2, <1>3, <1>4, Following, Keeping

(* Only the report is written, next to a title.                            *)
LEMMA ReportKeepsInv ==
  ASSUME GradingInv, Follows, UNCHANGED <<title, marks, close>>,
         report' \in ReportStatus, report' # "none" => TitleRows # {}
  PROVE  GradingInv'
<1> USE DEF marks, close
<1>1. Assessments' = Assessments /\ TitleRows' = TitleRows
  BY DEF Assessments, TitleRows
<1>2. TypeOK'
  BY <1>1, Following DEF GradingInv, TypeOK
<1>3. Keeps
  BY <1>1 DEF Keeps
<1>4. TitlesOK' /\ TotalFitsColumns' /\ ResultsInOrder'
  BY <1>1 DEF GradingInv, TitlesOK, Approved, TotalFitsColumns, ResultsInOrder
<1> QED BY <1>1, <1>2, <1>3, <1>4, Following, Keeping

(* Only the internship is written, or the history of what was cut.         *)
LEMMA InternshipKeepsInv ==
  ASSUME GradingInv, Follows, UNCHANGED <<work, marks, grade>>, cut' \in BOOLEAN,
         internship' \in [status : {"AKTIF", "SELESAI"}, supervisor : Dosens \cup {None}],
         internship'.status = internship.status \/ grade # None
  PROVE  GradingInv'
<1> USE DEF work, marks
<1>1. Assessments' = Assessments /\ TitleRows' = TitleRows
  BY DEF Assessments, TitleRows
<1>2. TypeOK'
  BY <1>1, Following DEF GradingInv, TypeOK
<1>3. Keeps
  BY <1>1 DEF Keeps
<1>4. TitlesOK' /\ TotalFitsColumns' /\ ResultsInOrder'
  BY <1>1 DEF GradingInv, TitlesOK, Approved, TotalFitsColumns, ResultsInOrder
<1> QED BY <1>1, <1>2, <1>3, <1>4, Following, Keeping

-----------------------------------------------------------------------------
LEMMA TitleStepsKeepInv ==
  ASSUME GradingInv,
         \/ \E p \in Requests : \/ TitleRenew(p) \/ ScoreTitles(p)
                               \/ \E d \in Dosens, t \in TitleIds : TitleApprove(p, d, t)
         \/ \E t \in TitleIds : TitleReject(t)
  PROVE  GradingInv'
<1>0. /\ \A p \in Requests : req[p] \in Request /\ ReqOK(req[p])
      /\ title \in [TitleIds -> TitleRow]
      /\ \A t \in TitleIds : title[t].status = "APPROVED" => title[t].by \in Dosens
  BY DEF GradingInv, TypeOK, ReqsOK, TitlesOK, Approved
<1>1. ASSUME NEW t \in TitleRows, NEW row \in TitleRow, title' = [title EXCEPT ![t] = row],
             row.status # "unused", row.status = "APPROVED" => row.by \in Dosens,
             UNCHANGED <<report, marks, close>>, Follows
      PROVE  GradingInv'
  <2>1. /\ title' \in [TitleIds -> TitleRow] /\ title'[t] = row
        /\ \A x \in TitleIds \ {t} : title'[x] = title[x]
    BY <1>0, <1>1 DEF TitleRows
  <2>2. TitlesOK' /\ TitleRows' = TitleRows
    BY <1>0, <1>1, <2>1 DEF TitlesOK, TitleRows, Approved
  <2> QED BY <1>1, <2>1, <2>2, TitlesKeepInv
<1>2. ASSUME NEW p \in Requests, TitleRenew(p) PROVE GradingInv'
  <2>1. PICK t \in TitleRows : t = req[p].title
    BY <1>0, <1>2 DEF TitleRenew, ReqOK
  <2>2. title[t] \in TitleRow
    BY <1>0 DEF TitleRows
  <2> DEFINE row == [title[t] EXCEPT !.status = "PENDING"]
  <2>3. row \in TitleRow /\ row.status = "PENDING"
    BY <2>2 DEF TitleRow, TitleStatus
  <2>4. title' = [title EXCEPT ![t] = row]
    BY <1>2, <2>1 DEF TitleRenew
  <2> QED BY <1>1, <1>2, <2>3, <2>4, Ending DEF TitleRenew
<1>3. ASSUME NEW p \in Requests, NEW d \in Dosens, NEW t \in TitleIds,
             TitleApprove(p, d, t)
      PROVE  GradingInv'
  <2> DEFINE row == [status |-> "APPROVED", by |-> d]
             r == [Idle EXCEPT !.at = "title.supervise", !.who = d]
  <2>1. row \in TitleRow
    BY DEF TitleRow, TitleStatus
  <2>2. "title.supervise" \in Places /\ Idle \in Request
    BY IdleOK DEF Places
  <2>3. r \in Request
    <3>1. PICK n \in Request : n = [Idle EXCEPT !.at = "title.supervise"]
      BY <2>2, AtPlace
    <3>2. [n EXCEPT !.who = d] \in Request
      BY TakesWho
    <3> QED BY <3>1, <3>2
  <2>4. ReqOK(r)'
    BY DEF Idle, ReqOK, Scoring
  <2>5. Follows
    BY <1>3, <2>3, <2>4 DEF TitleApprove, Begin, Follows, Inserts, Idle
  <2> QED BY <1>1, <1>3, <2>1, <2>5 DEF TitleApprove
<1>4. ASSUME NEW t \in TitleIds, TitleReject(t)
      PROVE  GradingInv'
  <2> DEFINE row == [title[t] EXCEPT !.status = "REJECTED"]
  <2>1. row \in TitleRow /\ row.status = "REJECTED"
    BY <1>0 DEF TitleRow, TitleStatus
  <2>2. Follows
    BY <1>4 DEF TitleReject, Follows
  <2> QED BY <1>1, <1>4, <2>1, <2>2 DEF TitleReject
<1>5. ASSUME NEW p \in Requests, ScoreTitles(p) PROVE GradingInv'
  <2>1. req[p].who \in Dosens /\ "score.read" \in Places /\ Goto(p, "score.read")
    BY <1>0, <1>5 DEF ScoreTitles, ReqOK, Scoring, Places
  <2>2. PICK r \in Request : /\ req' = [req EXCEPT ![p] = r] /\ r.at = "score.read"
                             /\ r.who = req[p].who /\ r.lecturer = req[p].lecturer
                             /\ r.assess = req[p].assess /\ r.field = req[p].field
    <3>1. req[p] \in Request
      BY <1>0
    <3> QED BY <2>1, <3>1, GoesTo
  <2>3. UNCHANGED <<report, lecturer, assess, revised, grade, internship, cut>>
    BY <1>5 DEF ScoreTitles, marks, close
  <2>4. ReqOK(r)'
    BY <1>0, <1>5, <2>2, <2>3 DEF ScoreTitles, ReqOK, Scoring
  <2>5. Follows
    BY <2>2, <2>4 DEF Follows, Inserts
  <2>6. \A t \in TitleIds : title'[t] = IF t \in TitleRows
                   THEN [status |-> "APPROVED", by |-> req[p].who] ELSE title[t]
    BY <1>5 DEF ScoreTitles
  <2>7. title' \in [TitleIds -> TitleRow]
    <3>1. PICK d \in Dosens : d = req[p].who
      BY <2>1
    <3>2. [status |-> "APPROVED", by |-> d] \in TitleRow
      BY DEF TitleRow, TitleStatus
    <3>3. title' = [t \in TitleIds |-> IF t \in TitleRows
                      THEN [status |-> "APPROVED", by |-> d] ELSE title[t]]
      BY <1>5, <3>1 DEF ScoreTitles
    <3>4. PICK row \in TitleRow : row = [status |-> "APPROVED", by |-> d]
      BY <3>2
    <3>5. title' = [t \in TitleIds |-> IF t \in TitleRows THEN row ELSE title[t]]
      BY <3>3, <3>4
    <3> QED BY <1>0, <3>5
  <2>8. TitlesOK' /\ TitleRows' = TitleRows
    BY <1>0, <2>1, <2>6 DEF TitlesOK, TitleRows, Approved
  <2> QED BY <1>5, <2>5, <2>7, <2>8, TitlesKeepInv DEF ScoreTitles
<1> QED BY <1>2, <1>3, <1>4, <1>5

(* submitTitle and the fast track insert a title that is not there yet.    *)
LEMMA TitleInsertsKeepInv ==
  ASSUME GradingInv, NEW p \in Requests, TitleInsert(p) \/ FastTitle(p)
  PROVE  GradingInv'
<1> USE DEF marks, close
<1>0. req[p] \in Request /\ title \in [TitleIds -> TitleRow] /\ p \in Titling
  BY DEF GradingInv, TypeOK, TitleInsert, FastTitle, Titling
<1>1. PICK x : x = First(FreeTitles)
  OBVIOUS
<1>2. x \in FreeTitles
  BY <1>0, <1>1, InsertFindsId, CountsAreFinite DEF GradingInv, EnoughIds
<1>3. PICK row \in TitleRow : row.status = "PENDING" /\ title' = [title EXCEPT ![x] = row]
  <2>1. [status |-> "PENDING", by |-> None] \in TitleRow
    BY DEF TitleRow, TitleStatus
  <2> QED BY <1>1, <2>1 DEF TitleInsert, FastTitle, InsertTitle
<1>4. /\ title' \in [TitleIds -> TitleRow] /\ title'[x] = row
      /\ \A t \in TitleIds \ {x} : title'[t] = title[t]
  BY <1>0, <1>2, <1>3 DEF FreeTitles
<1>5. TitleRows' = TitleRows \cup {x} /\ FreeTitles' = FreeTitles \ {x}
  BY <1>2, <1>3, <1>4 DEF TitleRows, FreeTitles
<1>6. UNCHANGED <<report, lecturer, assess, revised, grade, internship, cut>>
  BY DEF TitleInsert, FastTitle
<1>7. PICK r \in Request : /\ req' = [req EXCEPT ![p] = r] /\ r.at \notin Inserts
                           /\ ReqOK(r)'
  <2>1. CASE Done(p)
    BY <2>1, IdleOK DEF Done, Inserts
  <2>2. CASE Goto(p, "fast.report")
    <3>1. "fast.report" \in Places
      BY DEF Places
    <3>2. PICK r \in Request : req' = [req EXCEPT ![p] = r] /\ r.at = "fast.report"
      BY <1>0, <2>2, <3>1, GoesTo
    <3>3. ReqOK(r)'
      BY <1>5, <3>2 DEF ReqOK, Scoring
    <3> QED BY <3>2, <3>3 DEF Inserts
  <2> QED BY <2>1, <2>2 DEF TitleInsert, FastTitle
<1>8. /\ req' \in [Requests -> Request] /\ req'[p] = r
      /\ \A q \in Requests \ {p} : req'[q] = req[q]
  BY <1>7 DEF GradingInv, TypeOK
<1>9. EnoughIds'
  <2>1. Titling' \subseteq Titling \ {p} /\ Assessing' \subseteq Assessing
    BY <1>7, <1>8 DEF Titling, Assessing, Inserts
  <2>2. FreeAssess' = FreeAssess
    BY <1>6 DEF FreeAssess, Assessments
  <2>3. Cardinality(Titling \ {p}) <= Cardinality(FreeTitles \ {x})
    BY <1>0, <1>2, InsertEnds, CountsAreFinite DEF GradingInv, EnoughIds
  <2>4. IsFiniteSet(Titling \ {p}) /\ IsFiniteSet(FreeTitles \ {x})
    BY CountsAreFinite, FS_RemoveElement
  <2> QED BY <1>5, <2>1, <2>2, <2>3, <2>4, CountsAreFinite, FewerInserts
      DEF GradingInv, EnoughIds
<1>10. TypeOK'
  BY <1>4, <1>6, <1>8 DEF GradingInv, TypeOK
<1>11. Keeps /\ Assessments' = Assessments
  BY <1>5, <1>6 DEF Keeps, Assessments
<1>12. TitlesOK' /\ TotalFitsColumns' /\ ResultsInOrder'
  BY <1>3, <1>4, <1>5, <1>6, <1>11 DEF GradingInv, TitlesOK, Approved, TotalFitsColumns,
     ResultsInOrder
<1>13. ReqOK(req[p])'
  BY <1>7, <1>8 DEF ReqOK
<1> QED BY <1>6, <1>8, <1>9, <1>10, <1>11, <1>12, <1>13, Keeping

-----------------------------------------------------------------------------
LEMMA ReportStepsKeepInv ==
  ASSUME GradingInv,
         \/ \E p \in Requests : ReportInsert(p) \/ ReportUpdate(p) \/ ScoreReport(p)
         \/ \E v \in {"APPROVED", "REJECTED"} : ReportDecide(v)
  PROVE  GradingInv'
<1>0. report \in ReportStatus /\ (report # "none" => TitleRows # {})
  BY DEF GradingInv, TypeOK, ResultsInOrder
<1>1. ASSUME NEW p \in Requests, ReportInsert(p) \/ ReportUpdate(p) PROVE GradingInv'
  <2>1. ReqOK(req[p])
    BY DEF GradingInv, ReqsOK
  <2>2. TitleRows # {}
    BY <1>1, <2>1 DEF ReportInsert, ReportUpdate, ReqOK
  <2>3. report' \in ReportStatus /\ UNCHANGED <<title, marks, close>> /\ Done(p)
    BY <1>0, <1>1 DEF ReportInsert, ReportUpdate, ReportStatus
  <2> QED BY <2>2, <2>3, Ending, ReportKeepsInv
<1>2. ASSUME NEW p \in Requests, ScoreReport(p) PROVE GradingInv'
  <2>1. ReqOK(req[p]) /\ req[p] \in Request /\ "score.titles" \in Places
        /\ Goto(p, "score.titles")
    BY <1>2 DEF GradingInv, ReqsOK, TypeOK, Places, ScoreReport
  <2>2. PICK r \in Request : /\ req' = [req EXCEPT ![p] = r] /\ r.at = "score.titles"
                             /\ r.who = req[p].who /\ r.lecturer = req[p].lecturer
                             /\ r.assess = req[p].assess /\ r.field = req[p].field
    BY <2>1, GoesTo
  <2>3. lecturer' = lecturer
    BY <1>2 DEF ScoreReport, marks
  <2>4. ReqOK(r)'
    BY <1>2, <2>1, <2>2, <2>3 DEF ScoreReport, ReqOK, Scoring
  <2>5. Follows
    BY <2>2, <2>4 DEF Follows, Inserts
  <2>6. report' \in ReportStatus /\ (report' # "none" => TitleRows # {})
    BY <1>0, <1>2 DEF ScoreReport, ReportStatus
  <2> QED BY <1>2, <2>5, <2>6, ReportKeepsInv DEF ScoreReport
<1>3. ASSUME NEW v \in {"APPROVED", "REJECTED"}, ReportDecide(v) PROVE GradingInv'
  <2>1. report' \in ReportStatus /\ TitleRows # {} /\ UNCHANGED req
    BY <1>0, <1>3 DEF ReportDecide, ReportStatus
  <2> QED BY <1>3, <2>1, ReportKeepsInv DEF ReportDecide, Follows
<1> QED BY <1>1, <1>2, <1>3

LEMMA InternshipStepsKeepInv ==
  ASSUME GradingInv, NEW p \in Requests,
         TitleSupervise(p) \/ BackfillWrite(p) \/ ScoreEnd(p) \/ Die(p)
  PROVE  GradingInv'
<1> USE DEF close
<1>0. /\ internship \in [status : {"AKTIF", "SELESAI"}, supervisor : Dosens \cup {None}]
      /\ req[p] \in Request /\ ReqOK(req[p]) /\ cut \in BOOLEAN
  BY DEF GradingInv, TypeOK, ReqsOK
<1>1. ASSUME NEW d \in Dosens, internship' = [internship EXCEPT !.supervisor = d],
             UNCHANGED <<work, marks, grade, cut>>, Follows
      PROVE  GradingInv'
  BY <1>0, <1>1, InternshipKeepsInv
<1>2. CASE TitleSupervise(p)
  <2>1. req[p].who \in Dosens
    BY <1>0, <1>2 DEF TitleSupervise, ReqOK
  <2> QED BY <1>1, <1>2, <2>1, Ending DEF TitleSupervise
<1>3. CASE BackfillWrite(p)
  <2>1. PICK x \in req[p].todo :
          /\ internship' = [internship EXCEPT !.supervisor = x[2]]
          /\ Done(p) \/ req' = [req EXCEPT ![p].todo = @ \ {x}]
    BY <1>3 DEF BackfillWrite
  <2>2. req[p].todo \in SUBSET (TitleIds \X Dosens)
    BY <1>0 DEF Request
  <2>3. x[2] \in Dosens
    BY <2>2
  <2>4. CASE req' = [req EXCEPT ![p].todo = @ \ {x}]
    <3>3. req[p].todo \ {x} \in SUBSET (TitleIds \X Dosens)
      BY <2>2
    <3> DEFINE r == [req[p] EXCEPT !.todo = req[p].todo \ {x}]
    <3>4. r \in Request /\ r.at = req[p].at
      BY <1>0, <3>3, TakesTodo
    <3>5. req' = [req EXCEPT ![p] = r] /\ req[p].at = "backfill"
      BY <1>3, <2>4 DEF BackfillWrite
    <3>6. PICK n \in Request : n = r
      BY <3>4
    <3>7. ReqOK(n)'
      BY <3>4, <3>5, <3>6 DEF ReqOK, Scoring
    <3>8. Follows
      BY <3>4, <3>5, <3>6, <3>7 DEF Follows, Inserts
    <3> QED BY <1>1, <1>3, <2>1, <2>3, <3>8 DEF BackfillWrite
  <2> QED BY <1>1, <1>3, <2>1, <2>3, <2>4, Ending DEF BackfillWrite
<1>4. CASE ScoreEnd(p)
  <2>1. grade # None
    BY <1>0, <1>4 DEF ScoreEnd, ReqOK
  <2> QED BY <1>0, <1>4, <2>1, Ending, InternshipKeepsInv DEF ScoreEnd
<1>5. CASE Die(p)
  <2>1. cut' \in BOOLEAN
    BY <1>0, <1>5 DEF Die
  <2> QED BY <1>0, <1>5, <2>1, Ending, InternshipKeepsInv DEF Die
<1> QED BY <1>2, <1>3, <1>4, <1>5

(* Steps that only read: report.look, assess.read, score.read.             *)
LEMMA ReadsKeepInv ==
  ASSUME GradingInv, NEW p \in Requests, ReportLook(p) \/ ChangeRead(p) \/ ScoreRead(p)
  PROVE  GradingInv'
<1>0. /\ req[p] \in Request /\ ReqOK(req[p])
      /\ \A a \in Assessments : assess[a] \in AssessRow
  BY DEF GradingInv, TypeOK, ReqsOK, Assessments
<1>1. ASSUME NEW r \in Request, req' = [req EXCEPT ![p] = r], ReqOK(r), r.at \notin Inserts,
             UNCHANGED <<work, marks, close>>
      PROVE  GradingInv'
  <2>1. Assessments' = Assessments /\ TitleRows' = TitleRows
    BY <1>1 DEF marks, work, Assessments, TitleRows
  <2> QED BY <1>1, <2>1, NoMoreInserts, OnlyReads
<1>2. ASSUME NEW place \in {"report.insert", "report.update", "score.grade"},
             Goto(p, place), ReportLook(p) \/ (ScoreRead(p) /\ place = "score.grade"),
             place = "score.grade" => ScoreRead(p)
      PROVE  GradingInv'
  <2>1. place \in Places
    BY DEF Places
  <2> DEFINE r == [req[p] EXCEPT !.at = place]
  <2>2. /\ r \in Request /\ r.at = place /\ r.who = req[p].who
        /\ r.lecturer = req[p].lecturer /\ r.assess = req[p].assess
        /\ r.field = req[p].field
    BY <1>0, <2>1, AtPlace
  <2>3. ReqOK(r)
    BY <1>0, <1>2, <2>2 DEF ReportLook, ScoreRead, ReqOK, Scoring, FieldFits
  <2>4. UNCHANGED <<work, marks, close>> /\ req' = [req EXCEPT ![p] = r]
    BY <1>2 DEF ReportLook, ScoreRead, Goto
  <2> QED BY <1>1, <2>2, <2>3, <2>4 DEF Inserts
<1>3. CASE ReportLook(p)
  BY <1>2, <1>3 DEF ReportLook
<1>4. CASE ScoreRead(p)
  <2>1. CASE Goto(p, "score.grade")
    BY <1>2, <1>4, <2>1
  <2>2. ASSUME NEW a \in Assessments,
               req' = [req EXCEPT ![p].at = "score.grade", ![p].assess = a,
                                  ![p].field = assess[a].total]
        PROVE  GradingInv'
    <3>0. a \in AssessIds
      BY DEF Assessments
    <3>1. PICK total \in 0 .. 100 : total = assess[a].total
      BY <1>0 DEF AssessRow
    <3>4. PICK q \in Request : q = req[p]
      BY <1>0
    <3>2. "score.grade" \in Places
      BY DEF Places
    <3> DEFINE n == [q EXCEPT !.at = "score.grade"]
               s == [n EXCEPT !.assess = a]
               r == [s EXCEPT !.field = total]
    <3>3. UNCHANGED <<work, marks, close>> /\ req' = [req EXCEPT ![p] = r]
      BY <1>4, <2>2, <3>1, <3>4 DEF ScoreRead
    <3>6. n \in Request /\ n.at = "score.grade" /\ n.who = q.who /\ n.lecturer = q.lecturer
      <4>1. \A place \in Places : LET m == [q EXCEPT !.at = place] IN
              m \in Request /\ m.at = place /\ m.who = q.who /\ m.lecturer = q.lecturer
        BY AtPlace
      <4> QED BY <3>2, <4>1
    <3> HIDE DEF n
    <3>7. /\ s \in Request /\ s.at = n.at /\ s.who = n.who /\ s.lecturer = n.lecturer
          /\ s.assess = a
      BY <3>0, <3>6, TakesAssessment
    <3> HIDE DEF s
    <3>8. /\ r \in Request /\ r.at = s.at /\ r.who = s.who /\ r.lecturer = s.lecturer
          /\ r.assess = a /\ r.field = total
      BY <3>7, TakesField
    <3> HIDE DEF r
    <3>5. ReqOK(r)
      <4>1. q.who \in Dosens /\ q.lecturer \in LecturerIds /\ lecturer[q.lecturer] # None
        BY <1>0, <1>4, <3>4 DEF ScoreRead, ReqOK, Scoring
      <4>2. FieldFits(r.assess, r.field)
        BY <3>1, <3>8 DEF FieldFits
      <4>3. r.at = "score.grade" /\ r.who = q.who /\ r.lecturer = q.lecturer
        BY <3>6, <3>7, <3>8
      <4> QED BY <4>1, <4>2, <4>3 DEF ReqOK, Scoring
    <3> QED BY <1>1, <3>3, <3>5, <3>6, <3>7, <3>8 DEF Inserts
  <2> QED BY <1>4, <2>1, <2>2 DEF ScoreRead
<1>5. CASE ChangeRead(p)
  <2>1. PICK a \in Assessments : a = req[p].assess
    BY <1>0, <1>5 DEF ChangeRead, ReqOK
  <2>2. assess[a].scores \in [Criteria -> 0 .. 100]
    BY <1>0 DEF AssessRow
  <2>8. "assess.write" \in Places
    BY DEF Places
  <2>3. PICK n \in Request : /\ n = [req[p] EXCEPT !.at = "assess.write"]
                             /\ n.at = "assess.write" /\ n.form = req[p].form
                             /\ n.assess = req[p].assess
    BY <1>0, <2>8, AtPlace
  <2> DEFINE r == [n EXCEPT !.seen = assess[a].scores]
  <2>4. r \in Request /\ r.at = n.at /\ r.form = n.form /\ r.assess = n.assess
        /\ r.seen = assess[a].scores
    BY <2>2, TakesSeen
  <2>5. n.at = "assess.write" /\ n.form = req[p].form /\ n.assess = a
    BY <2>1, <2>3
  <2>6. ReqOK(r)
    BY <1>0, <1>5, <2>2, <2>4, <2>5 DEF ChangeRead, ReqOK, Scoring
  <2>7. UNCHANGED <<work, marks, close>> /\ req' = [req EXCEPT ![p] = r]
    BY <1>5, <2>1, <2>3 DEF ChangeRead
  <2> QED BY <1>1, <2>4, <2>5, <2>6, <2>7 DEF Inserts
<1> QED BY <1>3, <1>4, <1>5
-----------------------------------------------------------------------------
(* The mentor's assessment                                                 *)

LEMMA AssessBeginKeepsInv ==
  ASSUME GradingInv, NEW p \in Requests, NEW m \in Mentors, NEW f \in Forms,
         AssessBegin(p, m, f)
  PROVE  GradingInv'
<1>1. PICK s \in Request : s = [Idle EXCEPT !.at = "assess.insert"]
  BY IdleOK, AtPlace DEF Places
<1>2. PICK n : n = [s EXCEPT !.who = m]
  OBVIOUS
<1>3. n \in Request /\ n.at = s.at /\ n.who = m
  BY <1>2 DEF Request
<1>4. PICK r : r = [n EXCEPT !.form = f]
  OBVIOUS
<1>5. r \in Request /\ r.at = n.at /\ r.who = m /\ r.form = f
  <2>1. f \in AnyForm
    BY DEF AnyForm
  <2> QED BY <1>3, <1>4, <2>1, TakesForm DEF Request
<1>6. s.at = "assess.insert"
  BY <1>1, IdleOK DEF Request
<1>7. req[p].at = "idle" /\ req' = [req EXCEPT ![p] = r]
  BY <1>1, <1>2, <1>4 DEF AssessBegin, Begin
<1>8. ReqOK(r)
  BY <1>3, <1>5, <1>6 DEF ReqOK, Scoring
<1>9. FreeTitles' = FreeTitles /\ FreeAssess' = FreeAssess
  BY DEF AssessBegin, work, marks, FreeTitles, TitleRows, FreeAssess, Assessments
<1>10. Assessing' = Assessing \cup {p} /\ Titling' \subseteq Titling
  BY <1>3, <1>5, <1>6, <1>7 DEF Titling, Assessing, GradingInv, TypeOK
<1>11. Assessing \in SUBSET {q \in Requests : req[q].at # "idle"}
  BY DEF Assessing
<1>12. Cardinality(Assessing') <= Cardinality(FreeAssess)
  BY <1>7, <1>10, <1>11, RoomForOne, CountsAreFinite DEF AssessBegin, GradingInv
<1>13. EnoughIds'
  BY <1>9, <1>10, <1>12, CountsAreFinite, FewerInserts DEF GradingInv, EnoughIds
<1> QED BY <1>5, <1>7, <1>8, <1>13, OnlyReads DEF AssessBegin

(* createAssessment inserts an assessment that is not there yet.           *)
LEMMA AssessInsertKeepsInv ==
  ASSUME GradingInv, NEW p \in Requests, AssessInsert(p)
  PROVE  GradingInv'
<1> USE DEF work, close
<1>0. /\ assess \in [AssessIds -> AssessRow \cup {None}] /\ p \in Assessing
      /\ req[p].who \in Mentors /\ req[p].form \in Forms
  BY DEF GradingInv, TypeOK, AssessInsert, Assessing, ReqsOK, ReqOK
<1>1. PICK f \in [Criteria -> 0 .. 100] : f = req[p].form
  BY <1>0, ConstantsAssumption
<1>2. PICK x : x = First(FreeAssess)
  OBVIOUS
<1>3. x \in FreeAssess
  BY <1>0, <1>2, InsertFindsId, CountsAreFinite DEF GradingInv, EnoughIds
<1>4. PICK n \in Totals(f) :
        assess' = [assess EXCEPT ![x] =
           [by |-> req[p].who, scores |-> f, total |-> n, locked |-> TRUE]]
  BY <1>1, <1>2 DEF AssessInsert
<1>5. PICK row : row = [by |-> req[p].who, scores |-> f, total |-> n, locked |-> TRUE]
  OBVIOUS
<1>6. row \in AssessRow /\ row.total \in Totals(row.scores)
  BY <1>0, <1>5, TotalsAreScores DEF AssessRow
<1>7. /\ assess' \in [AssessIds -> AssessRow \cup {None}] /\ assess'[x] = row
      /\ \A a \in AssessIds \ {x} : assess'[a] = assess[a]
  BY <1>0, <1>3, <1>4, <1>5, <1>6 DEF FreeAssess
<1>8. Assessments' = Assessments \cup {x} /\ FreeAssess' = FreeAssess \ {x}
  <2>1. row # None
    BY <1>6, NoneIsNoRow
  <2>2. Assessments' = Assessments \cup {x}
    BY <1>3, <1>7, <2>1 DEF Assessments, FreeAssess
  <2> QED BY <2>2 DEF FreeAssess
<1>9. /\ req' = [req EXCEPT ![p] = Idle] /\ Idle \in Request /\ ReqOK(Idle)'
      /\ Idle.at \notin Inserts
  BY IdleOK DEF AssessInsert, Done, Inserts
<1>10. /\ req' \in [Requests -> Request] /\ req'[p] = Idle
       /\ \A q \in Requests \ {p} : req'[q] = req[q]
  BY <1>9 DEF GradingInv, TypeOK
<1>11. UNCHANGED <<title, report, lecturer, revised, grade, internship, cut>>
  BY DEF AssessInsert
<1>12. EnoughIds'
  <2>1. Assessing' \subseteq Assessing \ {p} /\ Titling' \subseteq Titling
    BY <1>9, <1>10 DEF Titling, Assessing, Inserts
  <2>2. FreeTitles' = FreeTitles
    BY <1>11 DEF FreeTitles, TitleRows
  <2>3. Cardinality(Assessing \ {p}) <= Cardinality(FreeAssess \ {x})
    BY <1>0, <1>3, InsertEnds, CountsAreFinite DEF GradingInv, EnoughIds
  <2>4. IsFiniteSet(Assessing \ {p}) /\ IsFiniteSet(FreeAssess \ {x})
    BY CountsAreFinite, FS_RemoveElement
  <2> QED BY <1>8, <2>1, <2>2, <2>3, <2>4, CountsAreFinite, FewerInserts
      DEF GradingInv, EnoughIds
<1>13. TypeOK'
  BY <1>7, <1>10, <1>11 DEF GradingInv, TypeOK
<1>14. Keeps
  BY <1>3, <1>7, <1>8, <1>11 DEF Keeps, TitleRows, Assessments, FreeAssess
<1>15. TotalFitsColumns'
  BY <1>3, <1>6, <1>7, <1>8 DEF GradingInv, TotalFitsColumns, Assessments
<1>16. TitlesOK' /\ ResultsInOrder'
  BY <1>11 DEF GradingInv, TitlesOK, Approved, ResultsInOrder, TitleRows
<1>17. ReqOK(req[p])'
  BY <1>9, <1>10 DEF ReqOK
<1> QED BY <1>10, <1>11, <1>12, <1>13, <1>14, <1>15, <1>16, <1>17, Keeping

(* A change: scores and total come together, and revised remembers it when *)
(* a scoring has read the old total.                                       *)
LEMMA ChangesKeepInv ==
  ASSUME GradingInv, NEW p \in Requests, ChangeWrite(p) \/ Unlock(p)
  PROVE  GradingInv'
<1> USE DEF work, close
<1>0. /\ assess \in [AssessIds -> AssessRow \cup {None}] /\ req[p] \in Request
      /\ ReqOK(req[p]) /\ revised \in SUBSET AssessIds
  BY DEF GradingInv, TypeOK, ReqsOK
<1>1. PICK a \in Assessments : a = req[p].assess
  BY <1>0 DEF ChangeWrite, Unlock, ReqOK
<1>2. PICK old : old = assess[a]
  OBVIOUS
<1>3. a \in AssessIds /\ old \in AssessRow /\ old.total \in Totals(old.scores)
  BY <1>0, <1>1, <1>2 DEF Assessments, GradingInv, TotalFitsColumns
<1>4. PICK row \in AssessRow :
        /\ assess' = [assess EXCEPT ![a] = row] /\ row.total \in Totals(row.scores)
        /\ revised \subseteq revised' /\ revised' \in SUBSET AssessIds
        /\ ReadByScoring(a) /\ a \notin revised' => row.total = old.total
  <2>1. CASE ChangeWrite(p)
    <3>1. PICK merged : merged = Merge(req[p].form, req[p].seen)
      OBVIOUS
    <3>2. merged \in [Criteria -> 0 .. 100]
      BY <1>0, <2>1, <3>1, MergeIsForm DEF ChangeWrite, ReqOK
    <3>3. PICK n \in Totals(merged) :
            assess' = [assess EXCEPT ![a].scores = merged, ![a].total = n,
                                     ![a].locked = TRUE]
      BY <1>1, <2>1, <3>1 DEF ChangeWrite
    <3>4. n \in 0 .. 100
      BY <3>2, <3>3, TotalsAreScores
    <3>5. PICK r1 : r1 = [old EXCEPT !.scores = merged]
      OBVIOUS
    <3>6. PICK r2 : r2 = [r1 EXCEPT !.total = n]
      OBVIOUS
    <3>7. PICK row : row = [r2 EXCEPT !.locked = TRUE]
      OBVIOUS
    <3>9. row \in AssessRow /\ row.total = n /\ row.scores = merged
      <4>1. r1 \in AssessRow /\ r1.scores = merged
        BY <1>3, <3>2, <3>5 DEF AssessRow
      <4>2. r2 \in AssessRow /\ r2.scores = merged /\ r2.total = n
        BY <3>4, <3>6, <4>1 DEF AssessRow
      <4> QED BY <3>7, <4>2 DEF AssessRow
    <3>10. assess' = [assess EXCEPT ![a] = row]
      <4>1. PICK f1 : f1 = [assess EXCEPT ![a].scores = merged]
        OBVIOUS
      <4>2. PICK f2 : f2 = [f1 EXCEPT ![a].total = n]
        OBVIOUS
      <4>3. assess' = [f2 EXCEPT ![a].locked = TRUE]
        BY <3>3, <4>1, <4>2
      <4>4. f1 = [assess EXCEPT ![a] = r1] /\ f1[a] = r1
        BY <1>0, <1>2, <1>3, <3>5, <4>1
      <4>5. f2 = [assess EXCEPT ![a] = r2] /\ f2[a] = r2
        BY <1>0, <1>3, <3>6, <4>2, <4>4
      <4> QED BY <1>0, <1>3, <3>7, <4>3, <4>5
    <3>8. revised' = IF ReadByScoring(a) THEN revised \cup {a} ELSE revised
      BY <1>1, <2>1 DEF ChangeWrite
    <3> QED BY <1>0, <1>3, <3>3, <3>8, <3>9, <3>10
  <2>2. CASE Unlock(p)
    <3>1. PICK row : row = [old EXCEPT !.locked = FALSE]
      OBVIOUS
    <3>2. /\ row \in AssessRow /\ row.total = old.total /\ row.scores = old.scores
      BY <1>3, <3>1 DEF AssessRow
    <3>3. assess' = [assess EXCEPT ![a] = row] /\ revised' = revised
      BY <1>1, <1>2, <2>2, <3>1 DEF Unlock
    <3> QED BY <1>0, <1>3, <3>2, <3>3
  <2> QED BY <2>1, <2>2
<1>5. /\ assess' \in [AssessIds -> AssessRow \cup {None}] /\ assess'[a] = row
      /\ \A b \in AssessIds \ {a} : assess'[b] = assess[b]
  BY <1>0, <1>3, <1>4
<1>6. Assessments' = Assessments
  <2>1. row # None
    BY <1>4, NoneIsNoRow
  <2> QED BY <1>1, <1>3, <1>5, <2>1 DEF Assessments
<1>7. UNCHANGED <<title, report, lecturer, grade, internship, cut>> /\ Follows
  BY Ending DEF ChangeWrite, Unlock
<1>8. TitleRows' = TitleRows
  BY <1>7 DEF TitleRows
<1>9. TypeOK'
  BY <1>4, <1>5, <1>6, <1>7, <1>8, Following DEF GradingInv, TypeOK
<1>10. Keeps
  BY <1>2, <1>4, <1>5, <1>6, <1>7, <1>8 DEF Keeps, Assessments
<1>11. TotalFitsColumns'
  BY <1>4, <1>5, <1>6 DEF GradingInv, TotalFitsColumns, Assessments
<1>12. TitlesOK' /\ ResultsInOrder'
  BY <1>7, <1>8 DEF GradingInv, TitlesOK, Approved, ResultsInOrder
<1> QED BY <1>6, <1>7, <1>8, <1>9, <1>10, <1>11, <1>12, Following, Keeping
-----------------------------------------------------------------------------
(* Scoring: the lecturer's row at the start, the grade near the end        *)

LEMMA ScoreBeginKeepsInv ==
  ASSUME GradingInv, NEW p \in Requests, NEW d \in Dosens, NEW s \in Sheets,
         ScoreBegin(p, d, s)
  PROVE  GradingInv'
<1> USE DEF work
<1>0. lecturer \in [LecturerIds -> LecturerRow \cup {None}]
  BY DEF GradingInv, TypeOK
<1>1. PICK l \in FreeLecturers :
        /\ lecturer' = [lecturer EXCEPT ![l] = [by |-> d, total |-> AcademicScore(s)]]
        /\ Begin(p, [Idle EXCEPT !.at = "score.report", !.who = d, !.lecturer = l])
  BY DEF ScoreBegin
<1>2. PICK row : row = [by |-> d, total |-> AcademicScore(s)]
  OBVIOUS
<1>3. row \in LecturerRow /\ row # None
  BY <1>2, AcademicIsScore, NoneIsNoRow DEF LecturerRow
<1>4. l \in LecturerIds /\ lecturer[l] = None
  BY DEF FreeLecturers
<1>5. /\ lecturer' \in [LecturerIds -> LecturerRow \cup {None}] /\ lecturer'[l] = row
      /\ \A k \in LecturerIds \ {l} : lecturer'[k] = lecturer[k]
  BY <1>0, <1>1, <1>2, <1>3, <1>4
<1>6. UNCHANGED <<title, report, assess, revised, grade, internship, cut>>
  BY DEF ScoreBegin, close
<1>7. PICK n1 \in Request : n1 = [Idle EXCEPT !.at = "score.report"]
  BY IdleOK, AtPlace DEF Places
<1>8. PICK n2 : n2 = [n1 EXCEPT !.who = d]
  OBVIOUS
<1>9. PICK r : r = [n2 EXCEPT !.lecturer = l]
  OBVIOUS
<1>10. /\ n1.at = "score.report" /\ n1.assess = None /\ n1.field = 0
  BY <1>7, IdleOK DEF Idle
<1>11. /\ n2 \in Request /\ n2.at = "score.report" /\ n2.assess = None /\ n2.field = 0
       /\ n2.who = d
  BY <1>8, <1>10 DEF Request
<1>12. /\ r \in Request /\ r.at = "score.report" /\ r.assess = None /\ r.field = 0
       /\ r.who = d /\ r.lecturer = l
  BY <1>4, <1>9, <1>11 DEF Request
<1>13. req' = [req EXCEPT ![p] = r]
  BY <1>1, <1>7, <1>8, <1>9 DEF Begin
<1>14. ReqOK(r)'
  BY <1>3, <1>4, <1>5, <1>12 DEF ReqOK, Scoring
<1>15. Follows
  BY <1>12, <1>13, <1>14 DEF Follows, Inserts
<1>16. Assessments' = Assessments /\ TitleRows' = TitleRows
  BY <1>6 DEF Assessments, TitleRows
<1>17. TypeOK'
  BY <1>5, <1>6, <1>15, <1>16, Following DEF GradingInv, TypeOK
<1>18. Keeps
  BY <1>4, <1>5, <1>6, <1>16 DEF Keeps
<1>19. TitlesOK' /\ TotalFitsColumns' /\ ResultsInOrder'
  BY <1>6, <1>16 DEF GradingInv, TitlesOK, Approved, TotalFitsColumns, ResultsInOrder
<1> QED BY <1>6, <1>15, <1>16, <1>17, <1>18, <1>19, Following, Keeping

(* calculateCombinedGrade: the first scoring to arrive stores the grade.   *)
LEMMA ScoreGradeKeepsInv ==
  ASSUME GradingInv, NEW p \in Requests, ScoreGrade(p)
  PROVE  GradingInv'
<1> USE DEF work, marks
<1>0. /\ req[p] \in Request /\ ReqOK(req[p]) /\ req[p].at = "score.grade"
      /\ lecturer \in [LecturerIds -> LecturerRow \cup {None}]
  BY DEF GradingInv, TypeOK, ReqsOK, ScoreGrade
<1>1. UNCHANGED <<title, report, lecturer, assess, revised, internship, cut>>
  BY DEF ScoreGrade
<1>2. Assessments' = Assessments /\ TitleRows' = TitleRows
  BY <1>1 DEF Assessments, TitleRows
<1>3. CASE grade # None /\ Done(p) /\ UNCHANGED grade
  BY <1>1, <1>3, Ending, InternshipKeepsInv DEF GradingInv, TypeOK
<1>4. CASE grade = None /\ NewGrade(req[p]) /\ Goto(p, "score.end")
  <2>1. PICK l \in LecturerIds : l = req[p].lecturer /\ lecturer[l] # None
    BY <1>0 DEF ReqOK, Scoring
  <2>2. PICK academic \in Nat : academic = lecturer[l].total
    BY <1>0, <2>1 DEF LecturerRow
  <2>3. PICK field \in 0 .. 100, a \in AssessIds \cup {None} :
          field = req[p].field /\ a = req[p].assess
    BY <1>0 DEF Request
  <2>4. PICK n \in FinalScores(field, academic) :
          grade' = [assessment |-> a, lecturer |-> l, field |-> field,
                    academic |-> academic, final |-> n, letter |-> Letter(n)]
    BY <1>4, <2>1, <2>2, <2>3 DEF NewGrade
  <2>5. n \in Nat
    <3>1. field \in Nat
      BY <2>3
    <3> QED BY <3>1, FinalsAreScores, Zenon
  <2>6. Letter(n) \in {"A", "B", "C", "D", "E"}
    BY <2>5 DEF Letter
  <2>7. grade' \in Grade /\ grade' # None
    BY <2>1, <2>2, <2>3, <2>4, <2>5, <2>6, NoneIsNoRow DEF Grade
  <2>8. FieldFits(a, field)
    BY <1>0, <2>3 DEF ReqOK
  <2>9. GradeFitsScores' /\ LecturerKept'
    BY <1>1, <1>2, <2>1, <2>2, <2>3, <2>4, <2>7, <2>8
    DEF GradeFitsScores, LecturerKept, FieldFits
  <2>10. PICK r \in Request : req' = [req EXCEPT ![p] = r] /\ r.at = "score.end"
    <3>1. "score.end" \in Places
      BY DEF Places
    <3> QED BY <1>0, <1>4, <3>1, GoesTo
  <2>11. ReqOK(r)'
    BY <2>7, <2>10 DEF ReqOK, Scoring
  <2>12. Follows
    BY <2>10, <2>11 DEF Follows, Inserts
  <2>13. TypeOK'
    BY <1>1, <1>2, <2>7, <2>12, Following DEF GradingInv, TypeOK
  <2>14. Keeps
    BY <1>1, <1>2, <1>4 DEF Keeps
  <2>15. TitlesOK' /\ TotalFitsColumns' /\ ResultsInOrder'
    BY <1>1, <1>2, <2>7 DEF GradingInv, TitlesOK, Approved, TotalFitsColumns,
       ResultsInOrder
  <2> QED BY <1>2, <2>9, <2>12, <2>13, <2>14, <2>15, Following, Keeping
<1> QED BY <1>3, <1>4 DEF ScoreGrade

-----------------------------------------------------------------------------
LEMMA GradingKeepsInv == GradingInv /\ [Next]_vars => GradingInv'
<1> SUFFICES ASSUME GradingInv, [Next]_vars PROVE GradingInv'
  OBVIOUS
<1>1. CASE UNCHANGED vars
  BY <1>1, InternshipKeepsInv DEF vars, work, marks, close, Follows, GradingInv, TypeOK
<1>2. ASSUME NEW p \in Requests, Step(p) PROVE GradingInv'
  BY <1>2, TitleInsertsKeepInv, TitleStepsKeepInv, InternshipStepsKeepInv,
     ReportStepsKeepInv, ReadsKeepInv, AssessInsertKeepsInv, ChangesKeepInv,
     ScoreGradeKeepsInv DEF Step
<1>3. ASSUME NEW p \in Requests, Call(p) PROVE GradingInv'
  BY <1>3, ReadingCalls, TitleStepsKeepInv, ScoreBeginKeepsInv, AssessBeginKeepsInv
  DEF Call, AssessCall
<1>4. ASSUME NEW p \in Requests, Die(p) PROVE GradingInv'
  BY <1>4, InternshipStepsKeepInv
<1>5. ASSUME NEW t \in TitleIds, TitleReject(t) PROVE GradingInv'
  BY <1>5, TitleStepsKeepInv
<1>6. ASSUME NEW v \in {"APPROVED", "REJECTED"}, ReportDecide(v) PROVE GradingInv'
  BY <1>6, ReportStepsKeepInv
<1> QED BY <1>1, <1>2, <1>3, <1>4, <1>5, <1>6 DEF Next

LEMMA GradingAlways == Spec => []GradingInv
<1> QED BY GradingInitially, GradingKeepsInv, PTL DEF Spec

(* Rows, requests and the grade keep the shapes the tables give them; a    *)
(* total is a score of 0 to 100, whatever the mentor's form or change.     *)
THEOREM GradingTypesHold == Spec => []TypeOK
<1> QED BY GradingAlways, PTL DEF GradingInv

(* The grade names the lecturer's row and the assessment whose scores it   *)
(* holds, unless that assessment was changed after the scoring read it,    *)
(* for any number of overlapping scorings and changes.                     *)
THEOREM GradeAlwaysFitsScores == Spec => []GradeFitsScores
<1> QED BY GradingAlways, PTL DEF GradingInv

(* Overlapping partial changes may lose columns; the total stored is       *)
(* nevertheless that of the columns stored with it.                        *)
THEOREM TotalAlwaysFitsColumns == Spec => []TotalFitsColumns
<1> QED BY GradingAlways, PTL DEF GradingInv

(* No report without a title and no SELESAI without a grade, whichever     *)
(* Worker dies where.                                                      *)
THEOREM ResultsAlwaysInOrder == Spec => []ResultsInOrder
<1> QED BY GradingAlways, PTL DEF GradingInv
-----------------------------------------------------------------------------
(* Requests that do not overlap                                            *)

(* OneAssessment and LockedKeepsScores are refuted by overlapping          *)
(* requests.  Behaviours in which requests run one after the other keep    *)
(* both: what a request on the assessment has looked up is then still true *)
(* when it writes (CalmOK).                                                *)
OneAtATime ==
  \A p, q \in Requests : req[p].at # "idle" /\ req[q].at # "idle" => p = q

Changing == {"assess.insert", "assess.read", "assess.write"}

CalmOK(r) ==
  /\ r.at = "assess.insert" => Assessments = {}
  /\ r.at \in {"assess.read", "assess.write"} => ~ assess[r.assess].locked

Calm ==
  /\ \A p \in Requests : CalmOK(req[p])
  /\ \A a, b \in Assessments : a = b

(* Steps that leave the assessments alone and do not lead to a change.     *)
Unrelated(p) ==
  /\ UNCHANGED assess
  /\ req'[p].at \notin Changing
  /\ \A q \in Requests \ {p} : req'[q] = req[q]

LEMMA UnrelatedKeepsCalm ==
  ASSUME Calm, NEW p \in Requests, Unrelated(p) PROVE Calm'
<1>1. \A q \in Requests : CalmOK(req[q])'
  <2> SUFFICES ASSUME NEW q \in Requests PROVE CalmOK(req[q])'
    OBVIOUS
  <2>1. CASE q = p
    BY <2>1 DEF Unrelated, CalmOK, Changing
  <2>2. CASE q # p
    BY <2>2 DEF Calm, Unrelated, CalmOK, Assessments
  <2> QED BY <2>1, <2>2
<1> QED BY <1>1 DEF Calm, Unrelated, Assessments

LEMMA StepsAreUnrelated ==
  ASSUME TypeOK, NEW p \in Requests,
         \/ TitleInsert(p) \/ TitleRenew(p) \/ TitleSupervise(p) \/ BackfillWrite(p)
         \/ FastTitle(p) \/ ReportInsert(p) \/ ReportLook(p) \/ ReportUpdate(p)
         \/ ScoreReport(p) \/ ScoreTitles(p) \/ ScoreRead(p) \/ ScoreGrade(p)
         \/ ScoreEnd(p) \/ Die(p)
  PROVE  Unrelated(p)
<1>0. req \in [Requests -> Request] /\ req[p] \in Request
  BY DEF TypeOK
<1>1. \A place : Goto(p, place) /\ place \notin Changing /\ UNCHANGED assess => Unrelated(p)
  BY <1>0 DEF Goto, Unrelated, Request
<1>2. Done(p) /\ UNCHANGED assess => Unrelated(p)
  BY <1>0, IdleOK DEF Done, Unrelated, Changing
<1>3. /\ "fast.report" \notin Changing /\ "report.insert" \notin Changing
      /\ "report.update" \notin Changing /\ "score.titles" \notin Changing
      /\ "score.read" \notin Changing /\ "score.grade" \notin Changing
      /\ "score.end" \notin Changing
  BY DEF Changing
<1>4. CASE \/ TitleInsert(p) \/ TitleRenew(p) \/ TitleSupervise(p) \/ FastTitle(p)
           \/ ReportInsert(p) \/ ReportLook(p) \/ ReportUpdate(p) \/ ScoreReport(p)
           \/ ScoreTitles(p) \/ ScoreGrade(p) \/ ScoreEnd(p) \/ Die(p)
  BY <1>1, <1>2, <1>3, <1>4 DEF TitleInsert, TitleRenew, TitleSupervise, FastTitle,
     ReportInsert, ReportLook, ReportUpdate, ScoreReport, ScoreTitles, ScoreGrade,
     ScoreEnd, Die, marks, work, close
<1>5. CASE BackfillWrite(p)
  <2>1. PICK x \in req[p].todo :
          IF req[p].todo = {x} THEN Done(p)
                               ELSE req' = [req EXCEPT ![p].todo = @ \ {x}]
    BY <1>5 DEF BackfillWrite
  <2>2. CASE Done(p)
    BY <1>2, <1>5, <2>2 DEF BackfillWrite, marks
  <2>3. CASE req' = [req EXCEPT ![p].todo = @ \ {x}]
    BY <1>0, <1>5, <2>3 DEF BackfillWrite, marks, Unrelated, Request, Changing
  <2> QED BY <2>1, <2>2, <2>3
<1>6. CASE ScoreRead(p)
  <2>1. CASE Goto(p, "score.grade")
    BY <1>1, <1>3, <1>6, <2>1 DEF ScoreRead, marks
  <2>2. ASSUME NEW a \in Assessments,
               req' = [req EXCEPT ![p].at = "score.grade", ![p].assess = a,
                                  ![p].field = assess[a].total]
        PROVE  Unrelated(p)
    BY <1>0, <1>3, <1>6, <2>2 DEF ScoreRead, marks, Unrelated, Request
  <2> QED BY <1>6, <2>1, <2>2 DEF ScoreRead
<1> QED BY <1>4, <1>5, <1>6

LEMMA CallsAreUnrelated ==
  ASSUME TypeOK, NEW p \in Requests,
         \/ TitleBegin(p) \/ BackfillBegin(p) \/ FastBegin(p) \/ ReportBegin(p)
         \/ \E d \in Dosens, t \in TitleIds : TitleApprove(p, d, t)
         \/ \E d \in Dosens, s \in Sheets : ScoreBegin(p, d, s)
         \/ \E m \in Mentors, a \in AssessIds : UnlockBegin(p, m, a)
  PROVE  Unrelated(p)
<1>0. req \in [Requests -> Request] /\ req[p] \in Request
  BY DEF TypeOK
<1>1. \A r : Begin(p, r) /\ r.at \notin Changing /\ UNCHANGED assess => Unrelated(p)
  BY <1>0 DEF Begin, Unrelated
<1>2. \A r : r = Idle => r.at = "idle"
  BY DEF Idle
<1>3. CASE TitleBegin(p) \/ BackfillBegin(p) \/ FastBegin(p) \/ ReportBegin(p)
  BY <1>1, <1>3 DEF TitleBegin, BackfillBegin, FastBegin, ReportBegin, marks, Changing, Idle
<1>4. ASSUME NEW d \in Dosens, NEW t \in TitleIds, TitleApprove(p, d, t) PROVE Unrelated(p)
  BY <1>1, <1>4 DEF TitleApprove, marks, Changing, Idle
<1>5. ASSUME NEW d \in Dosens, NEW s \in Sheets, ScoreBegin(p, d, s) PROVE Unrelated(p)
  BY <1>1, <1>5 DEF ScoreBegin, Changing, Idle
<1>6. ASSUME NEW m \in Mentors, NEW a \in AssessIds, UnlockBegin(p, m, a) PROVE Unrelated(p)
  BY <1>1, <1>6 DEF UnlockBegin, marks, Changing, Idle
<1> QED BY <1>3, <1>4, <1>5, <1>6

(* The request that changes the assessments is the only one, and ends.     *)
LEMMA LastKeepsCalm ==
  ASSUME TypeOK, Calm, OneAtATime, NEW p \in Requests, req[p].at # "idle", Done(p),
         \A a, b \in Assessments' : a = b
  PROVE  Calm'
<1>1. \A q \in Requests : req'[q].at = "idle"
  BY IdleOK DEF TypeOK, Done, OneAtATime
<1> QED BY <1>1 DEF Calm, CalmOK

LEMMA ChangesKeepCalm ==
  ASSUME GradingInv, Calm, OneAtATime, NEW p \in Requests,
         AssessInsert(p) \/ ChangeWrite(p) \/ Unlock(p)
  PROVE  Calm'
<1>0. TypeOK /\ ReqOK(req[p]) /\ CalmOK(req[p]) /\ req[p].at # "idle" /\ Done(p)
  BY DEF GradingInv, ReqsOK, Calm, AssessInsert, ChangeWrite, Unlock
<1>1. CASE AssessInsert(p)
  <2>1. PICK x : x = First(FreeAssess)
    OBVIOUS
  <2>2. Assessments = {}
    BY <1>0, <1>1 DEF CalmOK, AssessInsert
  <2>3. Assessments' \subseteq {x}
    BY <1>0, <1>1, <2>1, <2>2 DEF AssessInsert, Assessments, TypeOK
  <2> QED BY <1>0, <2>3, LastKeepsCalm
<1>2. CASE ChangeWrite(p) \/ Unlock(p)
  <2>1. req[p].assess \in Assessments
    BY <1>0, <1>2 DEF ReqOK, ChangeWrite, Unlock
  <2>2. \A a \in AssessIds : a # req[p].assess => assess'[a] = assess[a]
    BY <1>0, <1>2 DEF ChangeWrite, Unlock, TypeOK
  <2>3. Assessments' \subseteq Assessments
    BY <2>1, <2>2 DEF Assessments
  <2> QED BY <1>0, <2>3, LastKeepsCalm DEF Calm
<1> QED BY <1>1, <1>2

LEMMA BeginningsKeepCalm ==
  ASSUME TypeOK, Calm, NEW p \in Requests,
         \/ \E m \in Mentors, f \in Forms : AssessBegin(p, m, f)
         \/ \E m \in Mentors, a \in AssessIds, e \in Edits : ChangeBegin(p, m, a, e)
         \/ ChangeRead(p)
  PROVE  Calm'
<1>0. req \in [Requests -> Request] /\ req[p] \in Request
  BY DEF TypeOK
<1>1. /\ UNCHANGED assess
      /\ \A q \in Requests \ {p} : req'[q] = req[q]
  BY <1>0 DEF AssessBegin, ChangeBegin, ChangeRead, Begin, marks
<1>2. CalmOK(req'[p])
  <2>1. ASSUME NEW m \in Mentors, NEW f \in Forms, AssessBegin(p, m, f) PROVE CalmOK(req'[p])
    BY <1>0, <2>1 DEF AssessBegin, Begin, CalmOK, Idle
  <2>2. ASSUME NEW m \in Mentors, NEW a \in AssessIds, NEW e \in Edits, ChangeBegin(p, m, a, e)
        PROVE  CalmOK(req'[p])
    BY <1>0, <2>2 DEF ChangeBegin, Begin, CalmOK, Idle
  <2>3. CASE ChangeRead(p)
    <3>1. req'[p].at = "assess.write" /\ req'[p].assess = req[p].assess
      BY <1>0, <2>3 DEF ChangeRead, Request
    <3> QED BY <2>3, <3>1 DEF ChangeRead, Calm, CalmOK
  <2> QED BY <2>1, <2>2, <2>3
<1>3. \A q \in Requests : CalmOK(req[q])'
  BY <1>1, <1>2 DEF Calm, CalmOK, Assessments
<1> QED BY <1>1, <1>3 DEF Calm, Assessments

LEMMA NextKeepsCalm == GradingInv /\ Calm /\ OneAtATime /\ [Next]_vars => Calm'
<1> SUFFICES ASSUME GradingInv, Calm, OneAtATime, [Next]_vars PROVE Calm'
  OBVIOUS
<1>0. TypeOK
  BY DEF GradingInv
<1>1. UNCHANGED <<assess, req>> => Calm'
  BY DEF Calm, CalmOK, Assessments
<1>2. ASSUME NEW p \in Requests, Step(p) \/ Die(p) PROVE Calm'
  BY <1>0, <1>2, StepsAreUnrelated, UnrelatedKeepsCalm, ChangesKeepCalm, BeginningsKeepCalm
     DEF Step
<1>3. ASSUME NEW p \in Requests, Call(p) PROVE Calm'
  BY <1>0, <1>3, CallsAreUnrelated, UnrelatedKeepsCalm, BeginningsKeepCalm
     DEF Call, AssessCall
<1>4. ASSUME NEW t \in TitleIds, TitleReject(t) PROVE Calm'
  BY <1>1, <1>4 DEF TitleReject, marks
<1>5. ASSUME NEW v, ReportDecide(v) PROVE Calm'
  BY <1>1, <1>5 DEF ReportDecide, marks
<1> QED BY <1>1, <1>2, <1>3, <1>4, <1>5 DEF Next, vars, marks

LEMMA CalmHolds == Spec /\ []OneAtATime => []Calm
<1>1. Init => Calm
  BY IdleOK DEF Init, Calm, CalmOK, Assessments
<1> QED BY <1>1, NextKeepsCalm, GradingAlways, PTL DEF Spec

(* createAssessment's message: an internship has one assessment, unless    *)
(* requests overlap.                                                       *)
THEOREM OneAssessmentOneAtATime == Spec /\ []OneAtATime => []OneAssessment
<1>1. Calm => OneAssessment
  <2> SUFFICES ASSUME Calm PROVE Cardinality(Assessments) <= 1
    BY DEF OneAssessment
  <2>1. PICK S : S = Assessments
    OBVIOUS
  <2>2. CASE S = {}
    BY <2>1, <2>2, FS_EmptySet
  <2>3. CASE S # {}
    <3>1. PICK x : x \in S
      BY <2>3
    <3>2. S = {x}
      BY <2>1, <3>1 DEF Calm
    <3>3. Cardinality(S) = 1
      BY <3>2, FS_Singleton
    <3> QED BY <2>1, <3>3
  <2> QED BY <2>2, <2>3
<1> QED BY <1>1, CalmHolds, PTL

(* updateAssessment's message: a locked assessment keeps its scores,       *)
(* unless requests overlap.                                                *)
THEOREM LockedKeepsOneAtATime == Spec /\ []OneAtATime => LockedKeepsScores
<1> DEFINE Kept ==
      \A a \in Assessments : assess[a].locked => assess'[a].scores = assess[a].scores
<1>1. GradingInv /\ Calm /\ [Next]_vars => [Kept]_vars
  <2> SUFFICES ASSUME GradingInv, Calm, [Next]_vars, NEW a \in Assessments, assess[a].locked
               PROVE  assess'[a].scores = assess[a].scores
    OBVIOUS
  <2>0. TypeOK /\ a \in AssessIds /\ assess[a] \in AssessRow
    BY DEF GradingInv, TypeOK, Assessments
  <2>1. ASSUME NEW p \in Requests, AssessInsert(p) PROVE assess'[a] = assess[a]
    BY <2>1 DEF AssessInsert, Calm, CalmOK
  <2>2. ASSUME NEW p \in Requests, ChangeWrite(p) PROVE assess'[a] = assess[a]
    <3>1. a # req[p].assess
      BY <2>2 DEF ChangeWrite, Calm, CalmOK
    <3> QED BY <2>0, <2>2, <3>1 DEF ChangeWrite, TypeOK
  <2>3. ASSUME NEW p \in Requests, Unlock(p) PROVE assess'[a].scores = assess[a].scores
    BY <2>0, <2>3 DEF Unlock, TypeOK, AssessRow
  <2>4. ASSUME NEW p \in Requests, ChangeRead(p) PROVE UNCHANGED assess
    BY <2>4 DEF ChangeRead, marks
  <2>5. ASSUME NEW p \in Requests, Step(p) \/ Die(p) PROVE assess'[a].scores = assess[a].scores
    BY <2>0, <2>1, <2>2, <2>3, <2>4, <2>5, StepsAreUnrelated DEF Step, Unrelated
  <2>6. ASSUME NEW p \in Requests, Call(p) PROVE UNCHANGED assess
    BY <2>0, <2>6, CallsAreUnrelated DEF Call, AssessCall, AssessBegin, ChangeBegin,
       marks, Unrelated
  <2>7. ASSUME NEW t \in TitleIds, TitleReject(t) PROVE UNCHANGED assess
    BY <2>7 DEF TitleReject, marks
  <2>8. ASSUME NEW v, ReportDecide(v) PROVE UNCHANGED assess
    BY <2>8 DEF ReportDecide, marks
  <2> QED BY <2>5, <2>6, <2>7, <2>8 DEF Next, vars, marks
<1>2. Spec /\ []OneAtATime => [][Kept]_vars
  BY <1>1, GradingAlways, CalmHolds, PTL DEF Spec
<1> QED BY <1>2 DEF LockedKeepsScores
=============================================================================
