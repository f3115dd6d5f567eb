------------------------------ MODULE TeamViews ------------------------------
(***************************************************************************)
(* Who a team consists of, as the services that print and show it read it  *)
(* from the rows of Teams: the members' own pages, the dashboard, the      *)
(* admin's list, the cover letter, the response letter with its snapshot,  *)
(* the internships and the letters a student asks for.  Each has a rule of *)
(* its own for which rows count and which team is meant, so what           *)
(* overlapping requests leave in the tables decides whether they agree.    *)
(* A query that takes one of several rows or teams (LIMIT 1, [0]) may take *)
(* any of them: such a definition is the set of its possible answers.      *)
(***************************************************************************)
EXTENDS Teams

Who(R) == {members[m].student : m \in R}

(* Mutant: whoever did not refuse is named.                                *)
Effective_NotRefused(R) == {m \in R : members[m].state # "REJECTED"}

(* filter(ACCEPTED), or all rows when none is accepted                     *)
Effective(R) == LET ok == {m \in R : members[m].state = "ACCEPTED"}
                IN IF ok = {} THEN R ELSE ok

(* find(role = KETUA) || [0]                                               *)
Heads(R) == LET ketua == {m \in R : members[m].role = "KETUA"}
            IN Who(IF ketua = {} THEN R ELSE ketua)

-----------------------------------------------------------------------------
(* The members' pages                                                      *)

(* getTeamMembers                                                          *)
TeamPage(t) == RowsOf(t)

(* getMyInvitations                                                        *)
Inbox(s) == {m \in RowIds : /\ members[m].state = "PENDING"
                            /\ members[m].student = s
                            /\ Exists(members[m].team)}

(* getMySubmissions *)
MySubmissions(s) == UNION {Active(t) : t \in JoinedTeams(s)}

(* getLetterRequestStatus: the cards of a submission of team t             *)
LetterCards(t) == Who(Accepted(t)) \X {"SURAT_KESEDIAAN", "FORM_PERMOHONAN"}

(* canAccessSubmission, getDocuments: one of the student's rows is looked  *)
(* at                                                                      *)
Access(s, t) == {members[m].state = "ACCEPTED" : m \in RowsFor(t, s)}

(* resolvePrimaryTeam, resolveCurrentSubmission, resolveTeamInfo: a team   *)
(* that is FIXED comes first, then one that has a submission               *)
DashboardTeams(s) ==
  LET mine == JoinedTeams(s) \cup Led(s)
      busy == {t \in mine : Active(t) # {}}
      among == IF busy = {} THEN mine ELSE busy
      fixed == {t \in among : team[t].state = "FIXED"}
  IN IF fixed = {} THEN among ELSE fixed

DashboardMembers(t) == Who(Accepted(t))

(* enrichTeamMembers: the admin sees every row                             *)
AdminMembers(t) == RowsOf(t)

-----------------------------------------------------------------------------
(* The letters a student asks a dosen for, and the dosen's list of them    *)

(* resolveTeamForRequest.  by: who asks, m: for whom                       *)
KesediaanTeams(by, m) ==
  LET shared == JoinedTeams(m) \cap JoinedTeams(by)
      fixed == {t \in shared : team[t].state = "FIXED"}
  IN IF fixed = {} THEN shared ELSE fixed

(* resolveFixedTeamForRequest, resolveSubmissionByTeamId *)
PermohonanTeams(by, m) ==
  {t \in JoinedTeams(m) \cap JoinedTeams(by) : team[t].state = "FIXED" /\ Active(t) # {}}

(* getRequestsForDosen (kesediaan and permohonan): the team shown with a   *)
(* request of m is any team of m's, and every row counts as a member.      *)
QueueTeams(m) == JoinedTeams(m)
QueueMembers(t) == Who(RowsOf(t))

-----------------------------------------------------------------------------
(* The cover letter, the response letter and the internships               *)

(* buildSuratPengantarPdfEntry *)
CoverLetter(t) ==
  LET R == Effective(RowsOf(t)) IN [names |-> Who(R), head |-> Heads(R)]

(* buildSnapshot; a hand-in whose snapshot failed stores none              *)
NoSnapshot == [names |-> {}, head |-> {}]

Snapshot(t) ==
  IF RowsOf(t) = {} THEN NoSnapshot
  ELSE LET R == Effective(RowsOf(t)) IN [names |-> Who(R), head |-> Heads(R)]

(* resolveMembersForResponseLetter: the rows of today come first.          *)
Shown(t, snapshot) ==
  IF RowsOf(t) = {} THEN snapshot.names ELSE Who(Effective(RowsOf(t)))

(* enrichResponseLetterDetails, mapToStudentObject: the name of the        *)
(* snapshot is kept and the members are those of today.                    *)
AnswerPage(t, snapshot) ==
  [names |-> Shown(t, snapshot),
   head |-> IF snapshot.head # {} THEN snapshot.head
            ELSE Heads(Effective(RowsOf(t)))]

(* isMahasiswaMemberOfTeam: a row of any status lets a student hand in and *)
(* read the response letter.                                               *)
AnswerReaders(x) ==
  IF subs[x].state \in {"active", "archived"} THEN Who(RowsOf(subs[x].team)) ELSE {}

(* getMyResponseLetter: the latest submission of all is taken, its team is *)
(* not asked for.  Times are not modelled: any submission may be it.       *)
MyAnswer(s) ==
  IF JoinedTeams(s) = {} THEN {} ELSE {x \in SubIds : subs[x].letter}

(* getResponseLetterStatus of a rejected letter of submission x            *)
ResetSeen(x) == subs[x].state \in {"archived", "deleted"}

(* createInternshipRecords *)
Interns(t) == IF RowsOf(t) = {} THEN {team[t].leader} ELSE Who(RowsOf(t))

-----------------------------------------------------------------------------
(* Whatever requests overlap, a team that has its leader's row is the same *)
(* on paper and on screen: the cover letter and a snapshot taken now are   *)
(* headed by the leader alone and name the members the dashboard shows,    *)
(* who have cards for their own letters.  A student of one team, who leads *)
(* none that lost its leader's row, finds that team on every page.  And a  *)
(* row that waits for an answer is on a page of somebody who may give it.  *)
PagesAgree ==
  /\ \A t \in TeamIds :
       Known(t) =>
         LET doc == CoverLetter(t) IN
         /\ doc = [names |-> DashboardMembers(t), head |-> {team[t].leader}]
         /\ AnswerPage(t, Snapshot(t)) = doc
         /\ \A s \in doc.names : <<s, "SURAT_KESEDIAAN">> \in LetterCards(t)
  /\ \A s \in Students :
       LET mine == JoinedTeams(s) IN
       (Cardinality(mine) = 1 /\ \A t \in Led(s) : Known(t)) =>
         DashboardTeams(s) = mine /\ KesediaanTeams(s, s) = QueueTeams(s)
  /\ \A m \in RowIds :
       LET t == members[m].team IN
       (members[m].state = "PENDING" /\ Known(t)) =>
         \E s \in Students :
           /\ MayAnswer(s, m)
           /\ m \in Inbox(s) \/ (t \in JoinedTeams(s) /\ m \in TeamPage(t))

-----------------------------------------------------------------------------
(* What comments and messages of the code say and its queries do not keep. *)

(* response-letter.service.ts:62: only a member of the team hands in and   *)
(* reads its response letter ("Anda bukan anggota tim ini").               *)
ReadersAreMembers ==
  \A x \in SubIds : AnswerReaders(x) \subseteq Who(Accepted(subs[x].team))

(* response-letter.service.ts:797: internship records are created "for all *)
(* team members".                                                          *)
InternsAreMembers ==
  \A t \in TeamIds : Known(t) => Interns(t) \subseteq DashboardMembers(t)

(* team.service.ts:716: the list holds "invitations for user", which the   *)
(* user may answer; their own requests to join are among them.             *)
InboxIsAnswerable == \A s \in Students : \A m \in Inbox(s) : MayAnswer(s, m)

(* surat-kesediaan.service.ts:302: the dosen's list shows the members of   *)
(* the team, all of them members.                                          *)
ListShowsMembers ==
  \A t \in TeamIds : Known(t) =>
    QueueMembers(t) \cup Who(AdminMembers(t)) \subseteq DashboardMembers(t)

(* submission.service.ts:458: whoever has no access to the submissions of  *)
(* a team is "not team member"; a member who was rejected before has an    *)
(* old row that may be the one looked at.                                  *)
MembersHaveAccess ==
  \A s \in Students : \A x \in MySubmissions(s) : Access(s, subs[x].team) = {TRUE}

(* surat-permohonan.service.ts:312: the team shown to the dosen beside a   *)
(* request is the one the request was made in.                             *)
ListShowsItsTeam ==
  \A s \in Students : PermohonanTeams(s, s) # {} => QueueTeams(s) = PermohonanTeams(s, s)

(* response-letter.repository.ts:405: "the most recent submission for this *)
(* team", of which the user is a member.                                   *)
MyAnswerIsOurs ==
  \A s \in Students : \A x \in MyAnswer(s) :
    subs[x].state # "deleted" => subs[x].team \in JoinedTeams(s)

(* response-letter.service.ts:102: the snapshot is built "for history      *)
(* preservation", so the page of a letter names the same members later.    *)
HistoryPreserved ==
  [][\A x \in SubIds :
       LET t == subs[x].team IN
       subs[x].letter /\ subs'[x].letter /\ Exists(t)' =>
         AnswerPage(t, Snapshot(t))'.names = AnswerPage(t, Snapshot(t)).names]_vars

(* team-reset.service.ts:77: an archived submission tells that the team    *)
(* "was reset": the team is PENDING or has a new attempt.                  *)
ResetIsComplete ==
  \A x \in SubIds :
    LET t == subs[x].team IN
    (subs[x].state = "archived" /\ ResetSeen(x)) =>
      team[t].state = "PENDING" \/ Active(t) # {}
=============================================================================
