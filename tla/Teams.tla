------------------------------- MODULE Teams -------------------------------
(***************************************************************************)
(* Team formation (team.service.ts, team-reset.service.ts and the draft    *)
(* creation of submission.service.ts).  The database runs one SQL          *)
(* statement at a time and no transaction spans two of them, so a handler  *)
(* is a request process that takes one step per statement: whatever it has *)
(* read is only remembered in req[p], and other requests run in between.   *)
(* The Worker that serves a request may die between two statements.        *)
(***************************************************************************)
EXTENDS Naturals, FiniteSets

CONSTANTS
  Students,    \* mahasiswa ids
  TeamIds,     \* bound on the teams ever created
  RowIds,      \* bound on the team_members rows ever created
  SubIds,      \* bound on the submissions ever created
  Requests,    \* bound on the requests in flight at the same time
  Ops,         \* the endpoints the clients call
  MaxMembers,  \* accepted members a team may have (3 in the code)
  Crashes,     \* whether a Worker may die in the middle of a request
  None

ASSUME ConstantsAssumption ==
  /\ MaxMembers \in Nat \ {0}
  /\ Crashes \in BOOLEAN
  /\ None \notin Students \cup TeamIds \cup RowIds \cup SubIds

ASSUME BoundsAssumption == IsFiniteSet(TeamIds)

VARIABLES
  team,     \* teams table
  members,  \* team_members table
  subs,     \* submissions table, as far as team formation reads it
  req,      \* the requests in flight and what they remember
  answer,   \* history: who answered the invitation of a row
  crashed   \* history: teams on which a request died half-way

tables == <<team, members, subs>>
history == <<answer, crashed>>
vars == <<team, members, subs, req, answer, crashed>>

InvitationStatus == {"PENDING", "ACCEPTED", "REJECTED"}

Places ==
  {"idle", "create.memberships", "create.team", "create.member",
   "create.rollback", "row.delete", "team.letters", "team.delete",
   "finalize.fix", "finalize.look", "finalize.insert", "invite.look",
   "invite.drop", "invite.insert", "respond.look", "respond.disband",
   "respond.write", "join.memberships", "join.count", "join.insert",
   "draft.member", "draft.look", "draft.insert", "reset.look",
   "reset.archive", "reset.unfix"}

TeamRow == [state : {"unused", "PENDING", "FIXED", "deleted"},
            leader : Students \cup {None}]

MemberRow == [state : InvitationStatus \cup {"unused", "deleted"},
              team : TeamIds \cup {None}, student : Students \cup {None},
              role : {"KETUA", "ANGGOTA"}, by : Students \cup {None}]

SubRow == [state : {"unused", "active", "archived", "deleted"},
           team : TeamIds \cup {None}, letter : BOOLEAN]

Request == [at : Places, who : Students \cup {None}, team : TeamIds \cup {None},
            row : RowIds \cup {None}, subject : Students \cup {None},
            accept : BOOLEAN, teams : SUBSET TeamIds, subs : SUBSET SubIds]

Idle == [at |-> "idle", who |-> None, team |-> None, row |-> None,
         subject |-> None, accept |-> FALSE, teams |-> {}, subs |-> {}]

NoMember(st) == [state |-> st, team |-> None, student |-> None,
                 role |-> "ANGGOTA", by |-> None]

NoSub(st) == [state |-> st, team |-> None, letter |-> FALSE]

TypeOK ==
  /\ team \in [TeamIds -> TeamRow]
  /\ members \in [RowIds -> MemberRow]
  /\ subs \in [SubIds -> SubRow]
  /\ req \in [Requests -> Request]
  /\ answer \in [RowIds -> Students \cup {None}]
  /\ crashed \in SUBSET TeamIds

Init ==
  /\ team = [t \in TeamIds |-> [state |-> "unused", leader |-> None]]
  /\ members = [m \in RowIds |-> NoMember("unused")]
  /\ subs = [x \in SubIds |-> NoSub("unused")]
  /\ req = [p \in Requests |-> Idle]
  /\ answer = [m \in RowIds |-> None]
  /\ crashed = {}

-----------------------------------------------------------------------------
(* The queries of the repositories.                                        *)

Exists(t) == team[t].state \in {"PENDING", "FIXED"}
Live(m) == members[m].state \in InvitationStatus
RowsOf(t) == {m \in RowIds : Live(m) /\ members[m].team = t}
RowsFor(t, s) == {m \in RowsOf(t) : members[m].student = s}
Accepted(t) == {m \in RowsOf(t) : members[m].state = "ACCEPTED"}
Led(s) == {t \in TeamIds : Exists(t) /\ team[t].leader = s}
JoinedTeams(s) == {t \in TeamIds : Accepted(t) \cap RowsFor(t, s) # {}}
Active(t) == {x \in SubIds : subs[x].state = "active" /\ subs[x].team = t}
SubsOf(t) == {x \in SubIds : subs[x].team = t}

(* The leader's own row is there.  A client learns the random id or code   *)
(* of a team from the answer of createTeam or through a membership row, so *)
(* no request names a team before that.                                    *)
Seated(t) == \E m \in RowsOf(t) : members[m].role = "KETUA"
Known(t) == Exists(t) /\ Seated(t)

Begin(p, r) == req[p].at = "idle" /\ req' = [req EXCEPT ![p] = r]
Goto(p, place) == req' = [req EXCEPT ![p].at = place]
Done(p) == req' = [req EXCEPT ![p] = Idle]

(* The answer of a query decides whether the request goes on.              *)
Proceed(p, ok, place) == IF ok THEN Goto(p, place) ELSE Done(p)

(* Bound: a request that may insert only starts while every request in     *)
(* flight still finds a fresh id, so no request is held up by the bound.   *)
FreeRows == {m \in RowIds : members[m].state = "unused"}
FreeSubs == {x \in SubIds : subs[x].state = "unused"}
Room(S) == Cardinality(S) > Cardinality({q \in Requests : req[q].at # "idle"})
First(S) == CHOOSE x \in S : TRUE

(* INSERT of a team_members row.                                           *)
InsertMember(t, s, role, state, by) ==
  \E m \in FreeRows :
    /\ m = First(FreeRows)
    /\ members' = [members EXCEPT ![m] =
         [state |-> state, team |-> t, student |-> s, role |-> role, by |-> by]]

InsertDraft(t) ==
  \E x \in FreeSubs :
    /\ x = First(FreeSubs)
    /\ subs' = [subs EXCEPT ![x] =
         [state |-> "active", team |-> t, letter |-> FALSE]]

(* DELETE of a team, which cascades to its rows and its submissions.       *)
DropTeam(t) ==
  /\ team' = [team EXCEPT ![t] = [state |-> "deleted", leader |-> None]]
  /\ members' = [m \in RowIds |-> IF m \in RowsOf(t) THEN NoMember("deleted")
                                                     ELSE members[m]]
  /\ subs' = [x \in SubIds |-> IF x \in SubsOf(t) THEN NoSub("deleted")
                                                  ELSE subs[x]]

DropRow(m) == members' = [members EXCEPT ![m] = NoMember("deleted")]

-----------------------------------------------------------------------------
(* createTeam                                                              *)

CreateBegin(p, s) ==
  /\ "create" \in Ops /\ Room(FreeRows)
  /\ Led(s) = {}
  /\ Begin(p, [Idle EXCEPT !.at = "create.memberships", !.who = s])
  /\ UNCHANGED <<tables, history>>

CreateMemberships(p) ==
  /\ req[p].at = "create.memberships"
  /\ Proceed(p, JoinedTeams(req[p].who) = {}, "create.team")
  /\ UNCHANGED <<tables, history>>

CreateInsertTeam(p) ==
  /\ req[p].at = "create.team"
  /\ \E t \in TeamIds :
       /\ team[t].state = "unused"
       /\ t = First({u \in TeamIds : team[u].state = "unused"})
       /\ team' = [team EXCEPT ![t] =
            [state |-> "PENDING", leader |-> req[p].who]]
       /\ req' = [req EXCEPT ![p].at = "create.member", ![p].team = t]
  /\ UNCHANGED <<members, subs, history>>

(* The leader's row.  The insert fails when the team is already gone, and  *)
(* may fail for the connection's sake; then the team is rolled back.       *)
CreateInsertLeader(p) ==
  LET r == req[p] IN
  /\ r.at = "create.member"
  /\ \/ /\ Exists(r.team)
        /\ InsertMember(r.team, r.who, "KETUA", "ACCEPTED", r.who)
        /\ Done(p)
     \/ /\ Crashes \/ ~Exists(r.team)
        /\ Goto(p, "create.rollback")
        /\ UNCHANGED members
  /\ UNCHANGED <<team, subs, history>>

CreateRollback(p) ==
  LET r == req[p] IN
  /\ r.at = "create.rollback"
  /\ Done(p)
  /\ IF Exists(r.team) THEN DropTeam(r.team) ELSE UNCHANGED tables
  /\ UNCHANGED history

-----------------------------------------------------------------------------
(* leaveTeam, removeMember, cancelInvitation: the checks read a row, the   *)
(* last statement deletes it by id.  (A team's leader and a row's role     *)
(* never change, and a row's team exists as long as the row does, so the   *)
(* separate reads of team and row amount to the one of the row.)           *)

(* Mutant: the leader may leave as well.                                   *)
LeaveBegin_ByLeader(p, s, m) ==
  /\ "leave" \in Ops
  /\ Live(m) /\ members[m].student = s /\ Known(members[m].team)
  /\ Begin(p, [Idle EXCEPT !.at = "row.delete", !.who = s, !.row = m,
                           !.team = members[m].team])
  /\ UNCHANGED <<tables, history>>

LeaveBegin(p, s, m) ==
  /\ "leave" \in Ops
  /\ Live(m) /\ members[m].student = s
  /\ Known(members[m].team) /\ team[members[m].team].leader # s
  /\ Begin(p, [Idle EXCEPT !.at = "row.delete", !.who = s, !.row = m,
                           !.team = members[m].team])
  /\ UNCHANGED <<tables, history>>

RemoveBegin(p, s, m) ==
  LET t == members[m].team IN
  /\ "remove" \in Ops
  /\ Live(m) /\ Known(t) /\ team[t].leader = s
  /\ team[t].state # "FIXED"
  /\ members[m].role # "KETUA" /\ members[m].student # s
  /\ Begin(p, [Idle EXCEPT !.at = "row.delete", !.who = s, !.row = m, !.team = t])
  /\ UNCHANGED <<tables, history>>

(* Mutant: any student may cancel a pending row.                           *)
CancelBegin_ByAnyone(p, s, m) ==
  LET t == members[m].team IN
  /\ "cancel" \in Ops
  /\ Live(m) /\ Known(t)
  /\ members[m].state = "PENDING" /\ members[m].role # "KETUA"
  /\ Begin(p, [Idle EXCEPT !.at = "row.delete", !.who = s, !.row = m, !.team = t])
  /\ UNCHANGED <<tables, history>>

CancelBegin(p, s, m) ==
  LET t == members[m].team IN
  /\ "cancel" \in Ops
  /\ Live(m) /\ Known(t) /\ team[t].leader = s
  /\ members[m].state = "PENDING"
  /\ members[m].role # "KETUA" /\ members[m].student # s
  /\ Begin(p, [Idle EXCEPT !.at = "row.delete", !.who = s, !.row = m, !.team = t])
  /\ UNCHANGED <<tables, history>>

RowDelete(p) ==
  LET r == req[p] IN
  /\ r.at = "row.delete"
  /\ Done(p)
  /\ IF Live(r.row) THEN DropRow(r.row) ELSE UNCHANGED members
  /\ UNCHANGED <<team, subs, history>>

-----------------------------------------------------------------------------
(* deleteTeam                                                              *)

DeleteBegin(p, s, t) ==
  /\ "delete" \in Ops
  /\ Known(t) /\ team[t].leader = s
  /\ Begin(p, [Idle EXCEPT !.who = s, !.team = t,
         !.at = IF team[t].state = "FIXED" THEN "team.letters" ELSE "team.delete"])
  /\ UNCHANGED <<tables, history>>

(* A FIXED team needs a response letter of any of its submissions, the     *)
(* archived ones included.                                                 *)
DeleteLetters(p) ==
  /\ req[p].at = "team.letters"
  /\ Proceed(p, \E x \in SubsOf(req[p].team) : subs[x].letter, "team.delete")
  /\ UNCHANGED <<tables, history>>

DeleteTeamRow(p) ==
  LET r == req[p] IN
  /\ r.at = "team.delete"
  /\ Done(p)
  /\ IF Exists(r.team) THEN DropTeam(r.team) ELSE UNCHANGED tables
  /\ UNCHANGED history

-----------------------------------------------------------------------------
(* finalizeTeam                                                            *)

(* Only a team that is not FIXED yet is updated; the draft is looked for   *)
(* in both cases.                                                          *)
FinalizeBegin(p, s, t) ==
  /\ "finalize" \in Ops /\ Room(FreeSubs)
  /\ Known(t) /\ team[t].leader = s
  /\ Begin(p, [Idle EXCEPT !.who = s, !.team = t,
       !.at = IF team[t].state = "FIXED" THEN "finalize.look" ELSE "finalize.fix"])
  /\ UNCHANGED <<tables, history>>

(* Mutant: the team is fixed and the draft left for later.                 *)
FinalizeFix_NoDraft(p) ==
  LET t == req[p].team IN
  /\ req[p].at = "finalize.fix"
  /\ team' = IF Exists(t) THEN [team EXCEPT ![t].state = "FIXED"] ELSE team
  /\ Done(p)
  /\ UNCHANGED <<members, subs, history>>

FinalizeFix(p) ==
  LET t == req[p].team IN
  /\ req[p].at = "finalize.fix"
  /\ team' = IF Exists(t) THEN [team EXCEPT ![t].state = "FIXED"] ELSE team
  /\ Goto(p, "finalize.look")
  /\ UNCHANGED <<members, subs, history>>

(* A draft that is found ends the request; whatever a request that died    *)
(* left half-done on the team is then repaired.                            *)
FinalizeLook(p) ==
  LET t == req[p].team IN
  /\ req[p].at = "finalize.look"
  /\ Proceed(p, Active(t) = {}, "finalize.insert")
  /\ crashed' = IF Active(t) = {} THEN crashed ELSE crashed \ {t}
  /\ UNCHANGED <<tables, answer>>

FinalizeInsert(p) ==
  LET t == req[p].team IN
  /\ req[p].at = "finalize.insert"
  /\ Done(p)
  /\ IF Exists(t) THEN InsertDraft(t) /\ crashed' = crashed \ {t}
                  ELSE UNCHANGED <<subs, crashed>>
  /\ UNCHANGED <<team, members, answer>>

-----------------------------------------------------------------------------
(* inviteMember; the invitee is looked up in the SSO after the team is read *)

InviteBegin(p, s, t, u) ==
  /\ "invite" \in Ops /\ Room(FreeRows)
  /\ Known(t) /\ team[t].leader = s /\ team[t].state # "FIXED"
  /\ Begin(p, [Idle EXCEPT !.at = "invite.look", !.who = s, !.team = t,
                           !.subject = u])
  /\ UNCHANGED <<tables, history>>

(* Mutant: an invitation goes out whatever rows the invitee has.           *)
InviteLook_Unchecked(p) ==
  /\ req[p].at = "invite.look"
  /\ Goto(p, "invite.insert")
  /\ UNCHANGED <<tables, history>>

(* Any one of the invitee's rows is returned; only a rejected one, which   *)
(* is removed first, lets the invitation go on.                            *)
InviteLook(p) ==
  LET rows == RowsFor(req[p].team, req[p].subject) IN
  /\ req[p].at = "invite.look"
  /\ \/ rows = {} /\ Goto(p, "invite.insert")
     \/ \E m \in rows :
          IF members[m].state = "REJECTED"
          THEN req' = [req EXCEPT ![p].at = "invite.drop", ![p].row = m]
          ELSE Done(p)
  /\ UNCHANGED <<tables, history>>

InviteDrop(p) ==
  LET r == req[p] IN
  /\ r.at = "invite.drop"
  /\ Goto(p, "invite.insert")
  /\ IF Live(r.row) THEN DropRow(r.row) ELSE UNCHANGED members
  /\ UNCHANGED <<team, subs, history>>

InviteInsert(p) ==
  LET r == req[p] IN
  /\ r.at = "invite.insert"
  /\ Done(p)
  /\ IF Exists(r.team)
     THEN InsertMember(r.team, r.subject, "ANGGOTA", "PENDING", r.who)
     ELSE UNCHANGED members
  /\ UNCHANGED <<team, subs, history>>

-----------------------------------------------------------------------------
(* respondToInvitation                                                     *)

(* Mutant: either side may answer, whoever made the row.                   *)
MayAnswer_EitherSide(s, m) ==
  s \in {members[m].student, team[members[m].team].leader}

(* A row made by the leader is an invitation that only the invitee answers; *)
(* any other row is a request to join that only the leader answers.        *)
MayAnswer(s, m) ==
  LET leader == team[members[m].team].leader IN
  IF members[m].by = leader THEN members[m].student = s ELSE leader = s

RespondBegin(p, s, m, yes) ==
  /\ "respond" \in Ops
  /\ Live(m) /\ members[m].state = "PENDING" /\ MayAnswer(s, m)
  /\ Begin(p, [Idle EXCEPT !.who = s, !.row = m, !.accept = yes,
       !.at = IF yes /\ members[m].student = s THEN "respond.look"
                                               ELSE "respond.write"])
  /\ UNCHANGED <<tables, history>>

(* An invitee who accepts gives up every team they lead.                   *)
RespondLook(p) ==
  LET r == req[p] IN
  /\ r.at = "respond.look"
  /\ req' = [req EXCEPT ![p].teams = Led(r.who),
       ![p].at = IF Led(r.who) = {} THEN "respond.write" ELSE "respond.disband"]
  /\ UNCHANGED <<tables, history>>

(* One of those teams is deleted; a delete that fails is skipped.          *)
RespondDisband(p) ==
  LET r == req[p] IN
  /\ r.at = "respond.disband"
  /\ \E t \in r.teams :
       /\ req' = [req EXCEPT ![p].teams = @ \ {t},
            ![p].at = IF r.teams = {t} THEN "respond.write" ELSE @]
       /\ \/ Exists(t) /\ DropTeam(t)
          \/ (Crashes \/ ~Exists(t)) /\ UNCHANGED tables
  /\ UNCHANGED history

RespondWrite(p) ==
  LET r == req[p] IN
  /\ r.at = "respond.write"
  /\ Done(p)
  /\ IF Live(r.row)
     THEN /\ members' = [members EXCEPT ![r.row].state =
                           IF r.accept THEN "ACCEPTED" ELSE "REJECTED"]
          /\ answer' = [answer EXCEPT ![r.row] = r.who]
     ELSE UNCHANGED <<members, answer>>
  /\ UNCHANGED <<team, subs, crashed>>

-----------------------------------------------------------------------------
(* joinTeam                                                                *)

(* The team is found by its code; the row read first is any one of the     *)
(* student's rows there, and a rejected one does not keep them out.        *)
JoinBegin(p, s, t) ==
  /\ "join" \in Ops /\ Room(FreeRows)
  /\ Known(t) /\ team[t].leader # s
  /\ \/ RowsFor(t, s) = {}
     \/ \E m \in RowsFor(t, s) : members[m].state = "REJECTED"
  /\ Begin(p, [Idle EXCEPT !.at = "join.memberships", !.who = s, !.team = t])
  /\ UNCHANGED <<tables, history>>

JoinMemberships(p) ==
  LET r == req[p] IN
  /\ r.at = "join.memberships"
  /\ Proceed(p, JoinedTeams(r.who) \subseteq {r.team}, "join.count")
  /\ UNCHANGED <<tables, history>>

JoinCount(p) ==
  /\ req[p].at = "join.count"
  /\ Proceed(p, Cardinality(Accepted(req[p].team)) < MaxMembers, "join.insert")
  /\ UNCHANGED <<tables, history>>

JoinInsert(p) ==
  LET r == req[p] IN
  /\ r.at = "join.insert"
  /\ Done(p)
  /\ IF Exists(r.team)
     THEN InsertMember(r.team, r.who, "ANGGOTA", "PENDING", r.who)
     ELSE UNCHANGED members
  /\ UNCHANGED <<team, subs, history>>

-----------------------------------------------------------------------------
(* createSubmission and ensureDraftSubmissionForTeam                       *)

DraftBegin(p, s, t) ==
  /\ "draft" \in Ops /\ Room(FreeSubs)
  /\ Known(t) /\ team[t].state = "FIXED"
  /\ Begin(p, [Idle EXCEPT !.at = "draft.member", !.who = s, !.team = t])
  /\ UNCHANGED <<tables, history>>

DraftMember(p) ==
  LET r == req[p] IN
  /\ r.at = "draft.member"
  /\ \/ \E m \in RowsFor(r.team, r.who) :
          Proceed(p, members[m].state = "ACCEPTED", "draft.look")
     \/ RowsFor(r.team, r.who) = {} /\ Done(p)
  /\ UNCHANGED <<tables, history>>

DraftLook(p) ==
  /\ req[p].at = "draft.look"
  /\ Proceed(p, Active(req[p].team) = {}, "draft.insert")
  /\ UNCHANGED <<tables, history>>

DraftInsert(p) ==
  LET t == req[p].team IN
  /\ req[p].at = "draft.insert"
  /\ Done(p)
  /\ IF Exists(t) THEN InsertDraft(t) ELSE UNCHANGED subs
  /\ UNCHANGED <<team, members, history>>

-----------------------------------------------------------------------------
(* resetTeam ("Mulai Ulang"): any accepted member, on one of their teams   *)

ResetBegin(p, s, t) ==
  /\ "reset" \in Ops
  /\ t \in JoinedTeams(s)
  /\ Begin(p, [Idle EXCEPT !.at = "reset.look", !.who = s, !.team = t])
  /\ UNCHANGED <<tables, history>>

ResetLook(p) ==
  LET t == req[p].team IN
  /\ req[p].at = "reset.look"
  /\ req' = IF ~Exists(t) THEN [req EXCEPT ![p] = Idle]
            ELSE [req EXCEPT ![p].subs = Active(t),
                    ![p].at = IF Active(t) = {} THEN "reset.unfix" ELSE "reset.archive"]
  /\ UNCHANGED <<tables, history>>

(* Mutant: the team stays FIXED when its submissions are archived.         *)
ResetArchive_StaysFixed(p) ==
  LET r == req[p] IN
  /\ r.at = "reset.archive"
  /\ \E x \in r.subs :
       /\ req' = [req EXCEPT ![p] =
            IF r.subs = {x} THEN Idle ELSE [r EXCEPT !.subs = @ \ {x}]]
       /\ subs' = IF subs[x].state = "active"
                  THEN [subs EXCEPT ![x].state = "archived"] ELSE subs
  /\ UNCHANGED <<team, members, history>>

ResetArchive(p) ==
  LET r == req[p] IN
  /\ r.at = "reset.archive"
  /\ \E x \in r.subs :
       /\ req' = [req EXCEPT ![p].subs = @ \ {x},
            ![p].at = IF r.subs = {x} THEN "reset.unfix" ELSE @]
       /\ subs' = IF subs[x].state = "active"
                  THEN [subs EXCEPT ![x].state = "archived"] ELSE subs
  /\ UNCHANGED <<team, members, history>>

ResetUnfix(p) ==
  LET t == req[p].team IN
  /\ req[p].at = "reset.unfix"
  /\ team' = IF Exists(t) THEN [team EXCEPT ![t].state = "PENDING"] ELSE team
  /\ Done(p)
  /\ UNCHANGED <<members, subs, history>>

-----------------------------------------------------------------------------
(* The response-letter service of the team's accepted members: the one     *)
(* fact of it that team formation reads.                                   *)
LetterArrives(x) ==
  /\ "letter" \in Ops
  /\ subs[x].state \in {"active", "archived"} /\ ~subs[x].letter
  /\ subs' = [subs EXCEPT ![x].letter = TRUE]
  /\ UNCHANGED <<team, members, req, history>>

(* The Worker dies, or a statement fails outside any try block: what the   *)
(* request did so far stays, the rest never happens.                       *)
HalfWay == {"create.member", "create.rollback", "finalize.look",
            "finalize.insert", "reset.archive", "reset.unfix"}

Die(p) ==
  /\ Crashes
  /\ req[p].at # "idle"
  /\ crashed' = IF req[p].at \in HalfWay THEN crashed \cup {req[p].team}
                                        ELSE crashed
  /\ Done(p)
  /\ UNCHANGED <<tables, answer>>

Step(p) ==
  \/ CreateMemberships(p) \/ CreateInsertTeam(p) \/ CreateInsertLeader(p)
  \/ CreateRollback(p) \/ RowDelete(p) \/ DeleteLetters(p) \/ DeleteTeamRow(p)
  \/ FinalizeFix(p) \/ FinalizeLook(p) \/ FinalizeInsert(p)
  \/ InviteLook(p) \/ InviteDrop(p) \/ InviteInsert(p)
  \/ RespondLook(p) \/ RespondDisband(p) \/ RespondWrite(p)
  \/ JoinMemberships(p) \/ JoinCount(p) \/ JoinInsert(p)
  \/ DraftMember(p) \/ DraftLook(p) \/ DraftInsert(p)
  \/ ResetLook(p) \/ ResetArchive(p) \/ ResetUnfix(p)

Call(p, s) ==
  \/ CreateBegin(p, s)
  \/ \E m \in RowIds : \/ LeaveBegin(p, s, m) \/ RemoveBegin(p, s, m)
                       \/ CancelBegin(p, s, m)
                       \/ \E yes \in BOOLEAN : RespondBegin(p, s, m, yes)
  \/ \E t \in TeamIds : \/ DeleteBegin(p, s, t) \/ FinalizeBegin(p, s, t)
                        \/ JoinBegin(p, s, t) \/ DraftBegin(p, s, t)
                        \/ ResetBegin(p, s, t)
                        \/ \E u \in Students : InviteBegin(p, s, t, u)

Next ==
  \/ \E p \in Requests : Step(p) \/ Die(p) \/ \E s \in Students : Call(p, s)
  \/ \E x \in SubIds : LetterArrives(x)

Spec == Init /\ [][Next]_vars

(* Workers that are not killed finish what they started; clients owe       *)
(* nothing.                                                                *)
FairSpec == Spec /\ \A p \in Requests : WF_vars(Step(p))

-----------------------------------------------------------------------------
(* Nobody becomes a member by one side's will.  For every accepted member  *)
(* other than the leader, the leader and the student agreed: one of the    *)
(* two made the row and the other one answered it, although the row, the   *)
(* team and the leader's other teams are read and written in separate      *)
(* statements of respondToInvitation.                                      *)
TwoPartyConsent ==
  \A m \in RowIds :
    members[m].state = "ACCEPTED" /\ members[m].role = "ANGGOTA" =>
      {members[m].by, answer[m]} =
        {members[m].student, team[members[m].team].leader}

(* A team without its leader's row is invisible to everybody (getMyTeams   *)
(* goes through the rows) and bars its leader from creating another one.   *)
(* createTeam leaves one behind only by dying before its second insert or  *)
(* its rollback; no leave, removal, cancellation or re-invitation that     *)
(* deletes a row by an id read earlier ever hits the leader's row.         *)
LeaderSeated ==
  \A t \in TeamIds :
    Exists(t) =>
      \/ Seated(t)
      \/ t \in crashed
      \/ \E p \in Requests : /\ req[p].team = t
                             /\ req[p].at \in {"create.member", "create.rollback"}

(* finalizeTeam promises a draft to every FIXED team ("siap untuk          *)
(* pengajuan"), and resetTeam archives it before it unfixes the team.      *)
(* Whatever finalizations, resets and draft creations overlap, a FIXED     *)
(* team lacks an active submission only while one of them is still at it   *)
(* or after one died there, and then finalizeTeam called again repairs it. *)
FixedTeamHasDraft ==
  \A t \in TeamIds :
    team[t].state = "FIXED" =>
      \/ Active(t) # {}
      \/ t \in crashed
      \/ \E p \in Requests :
           /\ req[p].team = t
           /\ req[p].at \in {"finalize.look", "finalize.insert",
                              "reset.archive", "reset.unfix"}

(* A membership row that goes while its team stays was deleted by a        *)
(* request of the row's own student or of the team's leader, made for      *)
(* that row: the authorization checked before the awaits still covers the  *)
(* row that is deleted after them.                                         *)
RemovedByItsParties ==
  [][\A m \in RowIds, t \in TeamIds :
       m \in RowsOf(t) /\ ~Live(m)' /\ Exists(t)' =>
         \E p \in Requests :
           /\ req[p].row = m /\ req[p].at \in {"row.delete", "invite.drop"}
           /\ req[p].who \in {members[m].student, team[t].leader}]_vars

(* Unless a Worker is killed on the way, a finalized team gets its draft   *)
(* or stops being FIXED, also when a reset or a second finalization        *)
(* overlaps.                                                               *)
FinalizationCompletes ==
  \A t \in TeamIds :
    team[t].state = "FIXED" ~>
      (Active(t) # {} \/ team[t].state # "FIXED" \/ t \in crashed)

-----------------------------------------------------------------------------
(* Team formation as MembershipPromise sees it.  The role of a row says    *)
(* whether it is the leader's.                                             *)
CircleOf(t) ==
  [state |-> IF Exists(t) THEN "there" ELSE IF team[t].state = "unused" THEN "none" ELSE "gone",
   leader |-> team[t].leader]

PlaceOf(m) ==
  IF Live(m)
  THEN [state |-> members[m].state, team |-> members[m].team,
        student |-> members[m].student, leads |-> members[m].role = "KETUA",
        maker |-> members[m].by, answerer |-> answer[m]]
  ELSE [state |-> IF members[m].state = "unused" THEN "none" ELSE "gone",
        team |-> None, student |-> None, leads |-> FALSE, maker |-> None,
        answerer |-> None]

Circles == [t \in TeamIds |-> CircleOf(t)]
PlacesSeen == [m \in RowIds |-> PlaceOf(m)]

Promise == INSTANCE MembershipPromise WITH circle <- Circles, place <- PlacesSeen

(* Whatever requests overlap or die, and although every check is made some *)
(* statements before the write it guards, a student's way in and out of a  *)
(* team is that of MembershipPromise: one leader's row per team, an answer *)
(* only by the party that did not ask, and every row gone with its team.   *)
KeepsPromise == Promise!Spec

-----------------------------------------------------------------------------
(* What the code's comments and messages say and the interleavings break.  *)

(* drizzle/0036_archive_submissions.sql:12: "only one non-archived         *)
(* submission per team is allowed at a time", kept by the application.     *)
OneActiveSubmission == \A t \in TeamIds : Cardinality(Active(t)) <= 1

(* team.service.ts:83: "Each student can only join one team".              *)
OneTeamPerStudent == \A s \in Students : Cardinality(JoinedTeams(s)) <= 1

(* team.service.ts:901: "maksimal (3 anggota)", MaxMembers here.           *)
TeamSizeLimit == \A t \in TeamIds : Cardinality(Accepted(t)) <= MaxMembers

(* team.service.ts:495: an invitation that has been answered cannot be     *)
(* answered again ("Invitation not found or already responded").           *)
AnswerIsFinal ==
  [][\A m \in RowIds :
       members[m].state \in {"ACCEPTED", "REJECTED"} =>
         members[m].state' \in {members[m].state, "deleted"}]_vars

(* team.service.ts:272: a FIXED team can only be deleted after a response  *)
(* letter is submitted.                                                    *)
FixedTeamNeedsLetterToGo ==
  [][\A t \in TeamIds :
       team[t].state = "FIXED" /\ team[t].state' = "deleted" =>
         \E x \in SubsOf(t) : subs[x].letter]_vars
=============================================================================
