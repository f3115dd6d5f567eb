----------------------------- MODULE TeamsProofs -----------------------------
(***************************************************************************)
(* Proofs about Teams and TeamViews, for any number of students, teams,    *)
(* rows, submissions and HTTP requests.                                    *)
(*                                                                         *)
(* A request acts on what it read some statements ago.  That is sound      *)
(* because rows, teams and submissions never change hands: ids are not     *)
(* used twice, and what names a row's or a team's people is written once   *)
(* (Lasting).  What a request knows of them (ReqOK) therefore lasts.       *)
(***************************************************************************)
EXTENDS TeamViews, FiniteSetTheorems, TLAPS

(* A row that is there belongs to a team that is there.  The leader's row  *)
(* is accepted from the start; any other row was made by one of the two    *)
(* parties, and is accepted only when the other one answered.              *)
RowOK(m) ==
  LET r == members[m]
      leader == team[r.team].leader
  IN Live(m) =>
       /\ r.team \in TeamIds /\ Exists(r.team) /\ r.student \in Students
       /\ r.role = "KETUA" => r.state = "ACCEPTED" /\ r.student = leader
       /\ r.role = "ANGGOTA" => r.by \in {r.student, leader}
       /\ r.role = "ANGGOTA" /\ r.state = "ACCEPTED" =>
            {r.by, answer[m]} = {r.student, leader}

RowsOK == \A m \in RowIds : RowOK(m)

Seating == {"create.member", "create.rollback"}
Fixing == {"finalize.fix", "finalize.look", "finalize.insert"}
Drafting == {"finalize.look", "finalize.insert", "reset.archive", "reset.unfix"}
Inviting == {"invite.look", "invite.drop", "invite.insert"}
Responding == {"respond.look", "respond.disband", "respond.write"}
Dropping == {"row.delete", "invite.drop"}
Nameless == {"idle", "create.memberships", "create.team"} \cup Responding

ReqOK(r) ==
  /\ r.at # "idle" => r.who \in Students
  /\ r.at \notin Nameless => r.team \in TeamIds /\ team[r.team].state # "unused"
  /\ r.at \in Dropping \cup Responding =>
       /\ r.row \in RowIds /\ members[r.row].state # "unused"
       /\ Live(r.row) => members[r.row].role = "ANGGOTA"
  /\ r.at \in Dropping /\ Live(r.row) =>
       r.who \in {members[r.row].student, team[members[r.row].team].leader}
  /\ r.at \in Responding /\ Live(r.row) => MayAnswer(r.who, r.row)
  /\ r.at \in Seating \cup Inviting /\ Exists(r.team) => r.who = team[r.team].leader
  /\ r.at \in Inviting => r.subject \in Students
  /\ r.at \in Fixing /\ Exists(r.team) => Seated(r.team)
  /\ r.at = "reset.archive" =>
       \A x \in r.subs : /\ subs[x].state # "unused"
                         /\ subs[x].state = "active" => subs[x].team = r.team

ReqsOK == \A p \in Requests : ReqOK(req[p])

TeamsInv == TypeOK /\ RowsOK /\ ReqsOK /\ LeaderSeated /\ FixedTeamHasDraft
(* What a step may do to what requests have read.  (Lasting leaves the     *)
(* history variables out.)                                                 *)
Lasting ==
  /\ \A t \in TeamIds : team[t].state # "unused" =>
       /\ team'[t].state # "unused"
       /\ Exists(t)' => Exists(t) /\ team'[t].leader = team[t].leader
  /\ \A m \in RowIds : members[m].state # "unused" =>
       /\ members'[m].state # "unused"
       /\ Live(m)' => /\ Live(m)
                      /\ members'[m].team = members[m].team
                      /\ members'[m].student = members[m].student
                      /\ members'[m].role = members[m].role
                      /\ members'[m].by = members[m].by
  /\ \A t \in TeamIds : Seated(t) /\ Exists(t)' => Seated(t)'
  /\ \A x \in SubIds : subs[x].state # "unused" =>
       /\ subs'[x].state # "unused"
       /\ subs'[x].state = "active" => /\ subs[x].state = "active"
                                       /\ subs'[x].team = subs[x].team

(* The request that moves, if any.                                         *)
Moves(p, r) == r \in Request /\ req' = [req EXCEPT ![p] = r]

(* Request p may be what LeaderSeated or FixedTeamHasDraft waits for.      *)
At(p, t, places) == req[p].team = t /\ req[p].at \in places

SeatsKept(p) ==
  \A t \in TeamIds : Exists(t)' =>
    /\ ~Exists(t) => At(p, t, Seating)'
    /\ t \in crashed => t \in crashed' \/ Seated(t)'
    /\ At(p, t, Seating) => Seated(t)' \/ t \in crashed' \/ At(p, t, Seating)'

DraftsKept(p) ==
  \A t \in TeamIds : team'[t].state = "FIXED" =>
    /\ team[t].state # "FIXED" => At(p, t, Drafting)'
    /\ t \in crashed => t \in crashed' \/ Active(t)' # {}
    /\ Active(t) # {} => Active(t)' # {} \/ At(p, t, Drafting)'
    /\ At(p, t, Drafting) => Active(t)' # {} \/ t \in crashed' \/ At(p, t, Drafting)'

-----------------------------------------------------------------------------
LEMMA IdleOK == Idle \in Request /\ ReqOK(Idle) /\ ReqOK(Idle)' /\ Idle.at = "idle"
<1>1. Idle \in Request
  BY DEF Idle, Request, Places
<1>2. Idle.at = "idle" /\ Idle.at \notin Seating \cup Fixing \cup Drafting \cup Inviting
                              \cup Responding \cup Dropping
  BY DEF Idle, Seating, Fixing, Drafting, Inviting, Responding, Dropping
<1> QED BY <1>1, <1>2 DEF ReqOK, Nameless

LEMMA TeamsInitially == Init => TeamsInv
<1> SUFFICES ASSUME Init PROVE TeamsInv
  OBVIOUS
<1>1. TypeOK
  BY IdleOK DEF Init, TypeOK, TeamRow, MemberRow, SubRow, NoMember, NoSub, InvitationStatus
<1>2. RowsOK
  BY DEF Init, RowsOK, RowOK, Live, NoMember, InvitationStatus
<1>3. ReqsOK
  BY IdleOK DEF Init, ReqsOK, ReqOK
<1>4. LeaderSeated /\ FixedTeamHasDraft
  BY DEF Init, LeaderSeated, FixedTeamHasDraft, Exists
<1> QED BY <1>1, <1>2, <1>3, <1>4 DEF TeamsInv

(* What a request knows lasts.                                             *)
LEMMA StillKnows ==
  ASSUME TypeOK, RowsOK, RowsOK', Lasting, NEW r \in Request, ReqOK(r)
  PROVE  ReqOK(r)'
<1>1. r.at \notin Nameless => r.team \in TeamIds /\ team'[r.team].state # "unused"
  BY DEF ReqOK, Lasting
<1>2. r.at \in Dropping \cup Responding => r.row \in RowIds /\ members'[r.row].state # "unused"
  BY DEF ReqOK, Lasting
<1>3. ASSUME r.at \in Dropping \cup Responding, Live(r.row)'
      PROVE  /\ Live(r.row) /\ members'[r.row].role = "ANGGOTA"
             /\ members'[r.row].student = members[r.row].student
             /\ members'[r.row].by = members[r.row].by
             /\ members'[r.row].team = members[r.row].team
             /\ team'[members[r.row].team].leader = team[members[r.row].team].leader
  <2>1. /\ r.row \in RowIds /\ members[r.row].state # "unused"
        /\ Live(r.row) => members[r.row].role = "ANGGOTA"
    BY <1>3 DEF ReqOK
  <2>2. /\ Live(r.row) /\ members'[r.row].role = members[r.row].role
        /\ members'[r.row].student = members[r.row].student
        /\ members'[r.row].by = members[r.row].by
        /\ members'[r.row].team = members[r.row].team
    BY <1>3, <2>1 DEF Lasting
  <2>3. members[r.row].team \in TeamIds /\ Exists(members[r.row].team)
    BY <2>1, <2>2 DEF RowsOK, RowOK
  <2>4. Exists(members[r.row].team)'
    BY <1>3, <2>1 DEF RowsOK, RowOK
  <2>5. team'[members[r.row].team].leader = team[members[r.row].team].leader
    BY <2>2, <2>3, <2>4 DEF Lasting, Exists
  <2> QED BY <2>1, <2>2, <2>5
<1>4. r.at \in Dropping /\ Live(r.row)' =>
        r.who \in {members'[r.row].student, team'[members'[r.row].team].leader}
  BY <1>3 DEF ReqOK
<1>5. r.at \in Responding /\ Live(r.row)' => MayAnswer(r.who, r.row)'
  BY <1>3 DEF ReqOK, MayAnswer
<1>6. r.at \in Seating \cup Inviting \cup Fixing => r.at \notin Nameless
  BY DEF Seating, Inviting, Fixing, Nameless, Responding
<1>7. r.at \in Seating \cup Inviting /\ Exists(r.team)' => r.who = team'[r.team].leader
  BY <1>6 DEF ReqOK, Lasting
<1>8. r.at \in Fixing /\ Exists(r.team)' => Seated(r.team)'
  BY <1>6 DEF ReqOK, Lasting
<1>9. r.at = "reset.archive" =>
        \A x \in r.subs : /\ subs'[x].state # "unused"
                          /\ subs'[x].state = "active" => subs'[x].team = r.team
  <2>1. r.subs \subseteq SubIds
    BY DEF Request
  <2> QED BY <2>1 DEF ReqOK, Lasting
<1> QED BY <1>1, <1>2, <1>3, <1>4, <1>5, <1>7, <1>8, <1>9 DEF ReqOK

(* Every step is checked against this lemma.                               *)
LEMMA Keeping ==
  ASSUME TeamsInv, TypeOK', RowsOK', Lasting, NEW p \in Requests, NEW r, Moves(p, r),
         ReqOK(r)', SeatsKept(p), DraftsKept(p)
  PROVE  TeamsInv'
<1>1. req'[p] = r /\ \A q \in Requests \ {p} : req'[q] = req[q]
  BY DEF Moves, TeamsInv, TypeOK
<1>2. ReqsOK'
  <2> SUFFICES ASSUME NEW q \in Requests PROVE ReqOK(req[q])'
    BY DEF ReqsOK
  <2>1. CASE q = p
    BY <1>1, <2>1 DEF ReqOK
  <2>2. CASE q # p
    <3>1. req[q] \in Request /\ ReqOK(req[q]) /\ req'[q] = req[q]
      BY <1>1, <2>2 DEF TeamsInv, TypeOK, ReqsOK
    <3>2. PICK k \in Request : k = req[q]
      BY <3>1
    <3>3. ReqOK(k)'
      BY <3>1, <3>2, StillKnows DEF TeamsInv
    <3>4. k = req'[q]
      BY <3>1, <3>2
    <3> QED BY <3>3, <3>4 DEF ReqOK
  <2> QED BY <2>1, <2>2
<1>3. LeaderSeated'
  <2> SUFFICES ASSUME NEW t \in TeamIds, Exists(t)', ~Seated(t)', t \notin crashed'
               PROVE  \E q \in Requests : At(q, t, Seating)'
    BY DEF LeaderSeated, At, Seating
  <2>1. /\ ~Exists(t) => At(p, t, Seating)'
        /\ t \notin crashed
        /\ At(p, t, Seating) => At(p, t, Seating)'
    BY DEF SeatsKept
  <2>2. CASE Exists(t)
    <3>1. ~Seated(t)
      BY <2>2 DEF Lasting, Exists
    <3>2. PICK q \in Requests : At(q, t, Seating)
      BY <2>1, <2>2, <3>1 DEF TeamsInv, LeaderSeated, At, Seating
    <3> QED BY <1>1, <2>1, <3>2 DEF At
  <2> QED BY <2>1, <2>2
<1>4. FixedTeamHasDraft'
  <2> SUFFICES ASSUME NEW t \in TeamIds, team'[t].state = "FIXED", Active(t)' = {},
                      t \notin crashed'
               PROVE  \E q \in Requests : At(q, t, Drafting)'
    BY DEF FixedTeamHasDraft, At, Drafting
  <2>1. /\ team[t].state # "FIXED" => At(p, t, Drafting)'
        /\ t \notin crashed
        /\ Active(t) # {} => At(p, t, Drafting)'
        /\ At(p, t, Drafting) => At(p, t, Drafting)'
    BY DEF DraftsKept
  <2>2. CASE team[t].state = "FIXED" /\ Active(t) = {}
    <3>1. PICK q \in Requests : At(q, t, Drafting)
      BY <2>1, <2>2 DEF TeamsInv, FixedTeamHasDraft, At, Drafting
    <3> QED BY <1>1, <2>1, <3>1 DEF At
  <2> QED BY <2>1, <2>2
<1> QED BY <1>2, <1>3, <1>4 DEF TeamsInv
-----------------------------------------------------------------------------
(* Steps that write no table                                               *)

LEMMA NoWrites ==
  ASSUME TeamsInv, NEW p \in Requests, NEW r, Moves(p, r), ReqOK(r),
         UNCHANGED <<team, members, subs, answer>>, crashed' \in SUBSET TeamIds,
         SeatsKept(p), DraftsKept(p)
  PROVE  TeamsInv'
<1>1. TypeOK'
  BY DEF TeamsInv, TypeOK, Moves
<1>2. RowsOK'
  BY DEF TeamsInv, RowsOK, RowOK, Live, Exists
<1>3. Lasting
  BY DEF Lasting, Exists, Live, Seated, RowsOf
<1>4. ReqOK(r)'
  BY DEF ReqOK, Live, MayAnswer, Exists, Seated, RowsOf
<1> QED BY <1>1, <1>2, <1>3, <1>4, Keeping

(* What request p is at, before and after.                                 *)
LEMMA MovesTo ==
  ASSUME TypeOK, NEW p \in Requests, NEW r, Moves(p, r)
  PROVE  req'[p] = r /\ r \in Request /\ req[p] \in Request
BY DEF TypeOK, Moves

LEMMA OnlyReads ==
  ASSUME TeamsInv, NEW p \in Requests, NEW r, Moves(p, r), ReqOK(r),
         UNCHANGED <<tables, history>>, req[p].at \notin Seating \cup Drafting
  PROVE  TeamsInv'
<1> USE DEF tables, history
<1>1. SeatsKept(p) /\ DraftsKept(p)
  BY DEF SeatsKept, DraftsKept, At, Exists, Active
<1> QED BY <1>1, NoWrites DEF TeamsInv, TypeOK

-----------------------------------------------------------------------------
(* Calls                                                                   *)

LEMMA StartKeepsInv ==
  ASSUME TeamsInv, NEW p \in Requests, UNCHANGED <<tables, history>>,
         NEW r \in Request, Begin(p, r), ReqOK(r)
  PROVE  TeamsInv'
<1>1. req[p].at \notin Seating \cup Drafting
  BY DEF Begin, Seating, Drafting
<1> QED BY <1>1, OnlyReads DEF Begin, Moves

(* Calls about a row.                                                      *)
LEMMA RowCallsKeepInv ==
  ASSUME TeamsInv, NEW p \in Requests, NEW s \in Students, NEW m \in RowIds,
         \/ LeaveBegin(p, s, m) \/ RemoveBegin(p, s, m) \/ CancelBegin(p, s, m)
         \/ \E yes \in BOOLEAN : RespondBegin(p, s, m, yes)
  PROVE  TeamsInv'
<1> DEFINE t == members[m].team
<1>0. /\ UNCHANGED <<tables, history>> /\ Live(m)
      /\ members[m].state # "unused" /\ members[m].role \in {"KETUA", "ANGGOTA"}
  BY DEF LeaveBegin, RemoveBegin, CancelBegin, RespondBegin, Live, InvitationStatus,
     TeamsInv, TypeOK, MemberRow
<1>1. /\ t \in TeamIds /\ team[t].state # "unused"
      /\ members[m].role = "KETUA" =>
           members[m].state = "ACCEPTED" /\ members[m].student = team[t].leader
  BY <1>0 DEF TeamsInv, RowsOK, RowOK, Exists
<1>2. CASE LeaveBegin(p, s, m) \/ RemoveBegin(p, s, m) \/ CancelBegin(p, s, m)
  <2>1. PICK r : r = [Idle EXCEPT !.at = "row.delete", !.who = s, !.row = m, !.team = t]
    OBVIOUS
  <2>2. Begin(p, r)
    BY <1>2, <2>1 DEF LeaveBegin, RemoveBegin, CancelBegin
  <2>3. "row.delete" \in Places
    BY DEF Places
  <2>4. /\ r \in Request /\ r.at = "row.delete" /\ r.who = s /\ r.team = t /\ r.row = m
    BY <1>1, <2>1, <2>3, IdleOK DEF Request
  <2>5. members[m].role = "ANGGOTA" /\ s \in {members[m].student, team[t].leader}
    BY <1>0, <1>1, <1>2 DEF LeaveBegin, RemoveBegin, CancelBegin
  <2>6. ReqOK(r)
    BY <1>0, <1>1, <2>4, <2>5 DEF ReqOK, Nameless, Dropping, Responding, Seating,
       Fixing, Inviting
  <2> QED BY <1>0, <2>2, <2>4, <2>6, StartKeepsInv
<1>3. ASSUME NEW yes \in BOOLEAN, RespondBegin(p, s, m, yes) PROVE TeamsInv'
  <2>1. PICK a : a = IF yes /\ members[m].student = s THEN "respond.look"
                                                      ELSE "respond.write"
    OBVIOUS
  <2>2. PICK r : r = [Idle EXCEPT !.who = s, !.row = m, !.accept = yes, !.at = a]
    OBVIOUS
  <2>3. Begin(p, r)
    BY <1>3, <2>1, <2>2 DEF RespondBegin
  <2>4. a \in Places /\ a \in {"respond.look", "respond.write"}
    BY <2>1 DEF Places
  <2>5. r \in Request /\ r.at = a /\ r.who = s /\ r.row = m
    BY <2>2, <2>4, IdleOK DEF Request
  <2>6. members[m].role = "ANGGOTA" /\ MayAnswer(s, m)
    BY <1>0, <1>1, <1>3 DEF RespondBegin
  <2>7. ReqOK(r)
    BY <1>0, <1>1, <2>4, <2>5, <2>6 DEF ReqOK, Nameless, Dropping, Responding, Seating,
       Fixing, Inviting
  <2> QED BY <1>0, <2>3, <2>5, <2>7, StartKeepsInv
<1> QED BY <1>2, <1>3

(* Calls about a team.                                                     *)
LEMMA TeamCallsKeepInv ==
  ASSUME TeamsInv, NEW p \in Requests, NEW s \in Students, NEW t \in TeamIds,
         \/ DeleteBegin(p, s, t) \/ FinalizeBegin(p, s, t) \/ JoinBegin(p, s, t)
         \/ DraftBegin(p, s, t) \/ ResetBegin(p, s, t)
         \/ \E u \in Students : InviteBegin(p, s, t, u)
  PROVE  TeamsInv'
<1>0. UNCHANGED <<tables, history>>
  BY DEF DeleteBegin, FinalizeBegin, JoinBegin, DraftBegin, ResetBegin, InviteBegin
<1>1. team[t].state # "unused"
  <2>1. CASE Known(t)
    BY <2>1 DEF Known, Exists
  <2>2. CASE t \in JoinedTeams(s)
    <3>1. PICK m \in RowIds : Live(m) /\ members[m].team = t
      BY <2>2 DEF JoinedTeams, Accepted, RowsOf
    <3> QED BY <3>1 DEF TeamsInv, RowsOK, RowOK, Exists
  <2> QED BY <2>1, <2>2 DEF DeleteBegin, FinalizeBegin, JoinBegin, DraftBegin, ResetBegin,
             InviteBegin
<1>2. ASSUME NEW a \in {"team.letters", "team.delete", "join.memberships", "draft.member",
                        "reset.look", "finalize.fix", "finalize.look"},
             NEW r, Begin(p, r), a \in Fixing => Seated(t),
             \/ r = [Idle EXCEPT !.at = a, !.who = s, !.team = t]
             \/ r = [Idle EXCEPT !.who = s, !.team = t, !.at = a]
      PROVE  TeamsInv'
  <2>1. a \in Places
    BY DEF Places
  <2>2. r \in Request /\ r.at = a /\ r.who = s /\ r.team = t
    <3>1. CASE r = [Idle EXCEPT !.at = a, !.who = s, !.team = t]
      BY <2>1, <3>1, IdleOK DEF Request
    <3>2. CASE r = [Idle EXCEPT !.who = s, !.team = t, !.at = a]
      BY <2>1, <3>2, IdleOK DEF Request
    <3> QED BY <1>2, <3>1, <3>2
  <2>3. ReqOK(r)
    BY <1>1, <1>2, <2>2 DEF ReqOK, Nameless, Dropping, Responding, Seating, Fixing, Inviting
  <2> QED BY <1>0, <1>2, <2>2, <2>3, StartKeepsInv
<1>3. CASE DeleteBegin(p, s, t)
  <2>1. PICK a : a = IF team[t].state = "FIXED" THEN "team.letters" ELSE "team.delete"
    OBVIOUS
  <2>2. PICK r : r = [Idle EXCEPT !.who = s, !.team = t, !.at = a]
    OBVIOUS
  <2>3. Begin(p, r)
    BY <1>3, <2>1, <2>2 DEF DeleteBegin
  <2> QED BY <1>2, <2>1, <2>2, <2>3 DEF Fixing
<1>4. CASE JoinBegin(p, s, t) \/ DraftBegin(p, s, t) \/ ResetBegin(p, s, t)
  <2>1. PICK a \in {"join.memberships", "draft.member", "reset.look"} :
          Begin(p, [Idle EXCEPT !.at = a, !.who = s, !.team = t])
    BY <1>4 DEF JoinBegin, DraftBegin, ResetBegin
  <2> QED BY <1>2, <2>1 DEF Fixing
<1>5. CASE FinalizeBegin(p, s, t)
  <2>1. PICK a : a = IF team[t].state = "FIXED" THEN "finalize.look" ELSE "finalize.fix"
    OBVIOUS
  <2>2. PICK r : r = [Idle EXCEPT !.who = s, !.team = t, !.at = a]
    OBVIOUS
  <2>3. Begin(p, r) /\ Seated(t)
    BY <1>5, <2>1, <2>2 DEF FinalizeBegin, Known
  <2> QED BY <1>2, <2>1, <2>2, <2>3
<1>6. ASSUME NEW u \in Students, InviteBegin(p, s, t, u) PROVE TeamsInv'
  <2>1. PICK r : r = [Idle EXCEPT !.at = "invite.look", !.who = s, !.team = t, !.subject = u]
    OBVIOUS
  <2>2. Begin(p, r) /\ team[t].leader = s
    BY <1>6, <2>1 DEF InviteBegin
  <2>3. "invite.look" \in Places
    BY DEF Places
  <2>4. r \in Request /\ r.at = "invite.look" /\ r.who = s /\ r.team = t /\ r.subject = u
    BY <2>1, <2>3, IdleOK DEF Request
  <2>5. ReqOK(r)
    BY <1>1, <2>2, <2>4 DEF ReqOK, Nameless, Dropping, Responding, Seating, Fixing, Inviting
  <2> QED BY <1>0, <2>2, <2>4, <2>5, StartKeepsInv
<1> QED BY <1>3, <1>4, <1>5, <1>6

LEMMA CallsKeepInv ==
  ASSUME TeamsInv, NEW p \in Requests, NEW s \in Students, Call(p, s)
  PROVE  TeamsInv'
<1>1. CASE CreateBegin(p, s)
  <2>1. PICK r : r = [Idle EXCEPT !.at = "create.memberships", !.who = s]
    OBVIOUS
  <2>2. Begin(p, r) /\ UNCHANGED <<tables, history>>
    BY <1>1, <2>1 DEF CreateBegin
  <2>3. "create.memberships" \in Places
    BY DEF Places
  <2>4. r \in Request /\ r.at = "create.memberships" /\ r.who = s
    BY <2>1, <2>3, IdleOK DEF Request
  <2>5. ReqOK(r)
    BY <2>4 DEF ReqOK, Nameless, Dropping, Responding, Seating, Fixing, Inviting
  <2> QED BY <2>2, <2>4, <2>5, StartKeepsInv
<1> QED BY <1>1, RowCallsKeepInv, TeamCallsKeepInv DEF Call
-----------------------------------------------------------------------------
(* Steps that only read                                                    *)

LEMMA AtPlace ==
  ASSUME NEW r \in Request, NEW place \in Places, NEW n, n = [r EXCEPT !.at = place]
  PROVE  /\ n \in Request /\ n.at = place /\ n.who = r.who /\ n.team = r.team
         /\ n.row = r.row /\ n.subject = r.subject /\ n.accept = r.accept
         /\ n.teams = r.teams /\ n.subs = r.subs
BY DEF Request

(* Request p goes on to a place.                                           *)
LEMMA GoesTo ==
  ASSUME TypeOK, NEW p \in Requests, NEW place \in Places, Goto(p, place)
  PROVE  \E r \in Request :
           /\ Moves(p, r) /\ r.at = place /\ r.who = req[p].who /\ r.team = req[p].team
           /\ r.row = req[p].row /\ r.subject = req[p].subject
           /\ r.accept = req[p].accept /\ r.teams = req[p].teams /\ r.subs = req[p].subs
<1>1. PICK r : r = [req[p] EXCEPT !.at = place]
  OBVIOUS
<1>2. req[p] \in Request /\ req' = [req EXCEPT ![p] = r]
  BY <1>1 DEF TypeOK, Goto
<1>3. /\ r \in Request /\ r.at = place /\ r.who = req[p].who /\ r.team = req[p].team
      /\ r.row = req[p].row /\ r.subject = req[p].subject
      /\ r.accept = req[p].accept /\ r.teams = req[p].teams /\ r.subs = req[p].subs
  BY <1>1, <1>2, AtPlace
<1> QED BY <1>2, <1>3 DEF Moves

LEMMA Finishes ==
  ASSUME NEW p \in Requests, Done(p)
  PROVE  Moves(p, Idle)
BY IdleOK DEF Done, Moves

(* Places where a request knows who asked and about which team.            *)
Plain == {"create.team", "team.delete", "join.count", "join.insert", "draft.look",
          "draft.insert"}

LEMMA PlainOK ==
  ASSUME NEW r, r.at \in Plain, r.who \in Students,
         r.at # "create.team" => r.team \in TeamIds /\ team[r.team].state # "unused"
  PROVE  ReqOK(r)
BY DEF ReqOK, Plain, Nameless, Dropping, Responding, Seating, Fixing, Inviting

LEMMA PlainReadsKeepInv ==
  ASSUME TeamsInv, NEW p \in Requests, UNCHANGED <<tables, history>>,
         \/ Done(p)
         \/ \E place \in Plain : /\ Goto(p, place)
                                 /\ place # "create.team" => req[p].at \notin Nameless,
         req[p].at \notin Seating \cup Drafting \cup {"idle"}
  PROVE  TeamsInv'
<1>1. CASE Done(p)
  BY <1>1, Finishes, IdleOK, OnlyReads
<1>2. ASSUME NEW place \in Plain, Goto(p, place),
             place # "create.team" => req[p].at \notin Nameless
      PROVE  TeamsInv'
  <2>1. place \in Places
    BY DEF Plain, Places
  <2>2. PICK r \in Request : /\ Moves(p, r) /\ r.at = place /\ r.who = req[p].who
                             /\ r.team = req[p].team
    BY <1>2, <2>1, GoesTo DEF TeamsInv
  <2>3. ReqOK(req[p])
    BY DEF TeamsInv, ReqsOK
  <2>4. ReqOK(r)
    BY <1>2, <2>2, <2>3, PlainOK DEF ReqOK
  <2> QED BY <2>2, <2>4, OnlyReads
<1> QED BY <1>1, <1>2

LEMMA ReadsKeepInv ==
  ASSUME TeamsInv, NEW p \in Requests,
         \/ CreateMemberships(p) \/ DeleteLetters(p) \/ JoinMemberships(p) \/ JoinCount(p)
         \/ DraftMember(p) \/ DraftLook(p)
  PROVE  TeamsInv'
<1>1. UNCHANGED <<tables, history>> /\ req[p].at \notin Seating \cup Drafting \cup {"idle"}
  BY DEF CreateMemberships, DeleteLetters, JoinMemberships, JoinCount, DraftMember,
     DraftLook, Seating, Drafting
<1>2. \/ Done(p)
      \/ \E place \in Plain : /\ Goto(p, place)
                              /\ place # "create.team" => req[p].at \notin Nameless
  <2> USE DEF Proceed, Plain, Nameless, Responding
  <2>1. CASE CreateMemberships(p)
    BY <2>1 DEF CreateMemberships
  <2>2. CASE DeleteLetters(p)
    BY <2>2 DEF DeleteLetters
  <2>3. CASE JoinMemberships(p) \/ JoinCount(p)
    BY <2>3 DEF JoinMemberships, JoinCount
  <2>4. CASE DraftMember(p) \/ DraftLook(p)
    BY <2>4 DEF DraftMember, DraftLook
  <2> QED BY <2>1, <2>2, <2>3, <2>4
<1> QED BY <1>1, <1>2, PlainReadsKeepInv

LEMMA InviteLookKeepsInv ==
  ASSUME TeamsInv, NEW p \in Requests, InviteLook(p)
  PROVE  TeamsInv'
<1>0. /\ req[p] \in Request /\ ReqOK(req[p]) /\ req[p].at = "invite.look"
      /\ UNCHANGED <<tables, history>>
  BY DEF TeamsInv, TypeOK, ReqsOK, InviteLook
<1>1. req[p].at \notin Seating \cup Drafting \cup {"idle"}
  BY <1>0 DEF Seating, Drafting
<1>2. /\ req[p].who \in Students /\ req[p].subject \in Students /\ req[p].team \in TeamIds
      /\ team[req[p].team].state # "unused"
      /\ Exists(req[p].team) => req[p].who = team[req[p].team].leader
  BY <1>0 DEF ReqOK, Nameless, Responding, Seating, Inviting
<1>3. CASE Done(p)
  BY <1>0, <1>1, <1>3, PlainReadsKeepInv
<1>4. CASE Goto(p, "invite.insert")
  <2>1. "invite.insert" \in Places
    BY DEF Places
  <2>2. PICK r \in Request :
          /\ Moves(p, r) /\ r.at = "invite.insert" /\ r.who = req[p].who
          /\ r.team = req[p].team /\ r.subject = req[p].subject
    BY <1>4, <2>1, GoesTo DEF TeamsInv
  <2>3. ReqOK(r)
    BY <1>2, <2>2 DEF ReqOK, Nameless, Dropping, Responding, Seating, Fixing, Inviting
  <2> QED BY <1>0, <1>1, <2>2, <2>3, OnlyReads
<1>5. ASSUME NEW m \in RowsFor(req[p].team, req[p].subject), members[m].state = "REJECTED",
             req' = [req EXCEPT ![p].at = "invite.drop", ![p].row = m]
      PROVE  TeamsInv'
  <2>1. m \in RowIds /\ Live(m) /\ members[m].team = req[p].team
    BY DEF RowsFor, RowsOf
  <2>2. /\ members[m].role = "ANGGOTA" /\ members[m].state # "unused"
        /\ Exists(req[p].team)
    BY <1>5, <2>1 DEF TeamsInv, RowsOK, RowOK, TypeOK, MemberRow
  <2>3. PICK n : n = [req[p] EXCEPT !.at = "invite.drop"]
    OBVIOUS
  <2>4. /\ n \in Request /\ n.at = "invite.drop" /\ n.who = req[p].who
        /\ n.team = req[p].team /\ n.subject = req[p].subject
    BY <1>0, <2>3, AtPlace DEF Places
  <2>5. PICK r : r = [n EXCEPT !.row = m]
    OBVIOUS
  <2>6. /\ r \in Request /\ r.at = "invite.drop" /\ r.who = req[p].who /\ r.row = m
        /\ r.team = req[p].team /\ r.subject = req[p].subject
    BY <2>1, <2>4, <2>5 DEF Request
  <2>7. req' = [req EXCEPT ![p] = r]
    BY <1>5, <2>3, <2>5
  <2>8. ReqOK(r)
    BY <1>2, <2>1, <2>2, <2>6 DEF ReqOK, Nameless, Dropping, Responding, Seating, Fixing,
       Inviting
  <2> QED BY <1>0, <1>1, <2>6, <2>7, <2>8, OnlyReads DEF Moves
<1> QED BY <1>3, <1>4, <1>5 DEF InviteLook

(* Assigning a field of a request leaves the others as they are.           *)
LEMMA TakesTeams ==
  ASSUME NEW r \in Request, NEW T \in SUBSET TeamIds, NEW n, n = [r EXCEPT !.teams = T]
  PROVE  /\ n \in Request /\ n.at = r.at /\ n.who = r.who /\ n.team = r.team
         /\ n.row = r.row /\ n.teams = T
<1>1. PICK P : P = SUBSET TeamIds
  OBVIOUS
<1>2. Request = [at : Places, who : Students \cup {None}, team : TeamIds \cup {None},
                 row : RowIds \cup {None}, subject : Students \cup {None},
                 accept : BOOLEAN, teams : P, subs : SUBSET SubIds]
  BY <1>1 DEF Request
<1> QED BY <1>1, <1>2

LEMMA TakesSubs ==
  ASSUME NEW r \in Request, NEW X \in SUBSET SubIds, NEW n, n = [r EXCEPT !.subs = X]
  PROVE  /\ n \in Request /\ n.at = r.at /\ n.who = r.who /\ n.team = r.team /\ n.subs = X
<1>1. PICK P : P = SUBSET SubIds
  OBVIOUS
<1>2. Request = [at : Places, who : Students \cup {None}, team : TeamIds \cup {None},
                 row : RowIds \cup {None}, subject : Students \cup {None},
                 accept : BOOLEAN, teams : SUBSET TeamIds, subs : P]
  BY <1>1 DEF Request
<1> QED BY <1>1, <1>2

(* Answering: a request stays about the row it was made for.               *)
LEMMA StillAnswers ==
  ASSUME NEW r \in Request, ReqOK(r), r.at \in Responding,
         NEW n, n.at \in Responding, n.who = r.who, n.row = r.row
  PROVE  ReqOK(n)
BY DEF ReqOK, Nameless, Dropping, Responding, Seating, Fixing, Inviting

LEMMA RespondLookKeepsInv ==
  ASSUME TeamsInv, NEW p \in Requests, RespondLook(p)
  PROVE  TeamsInv'
<1>0. /\ req[p] \in Request /\ ReqOK(req[p]) /\ req[p].at = "respond.look"
      /\ UNCHANGED <<tables, history>>
  BY DEF TeamsInv, TypeOK, ReqsOK, RespondLook
<1>1. PICK T : T = Led(req[p].who)
  OBVIOUS
<1>2. PICK a : a = IF T = {} THEN "respond.write" ELSE "respond.disband"
  OBVIOUS
<1>3. PICK n : n = [req[p] EXCEPT !.teams = T]
  OBVIOUS
<1>4. PICK r : r = [n EXCEPT !.at = a]
  OBVIOUS
<1>5. req' = [req EXCEPT ![p] = r]
  BY <1>1, <1>2, <1>3, <1>4 DEF RespondLook
<1>6. T \in SUBSET TeamIds
  BY <1>1 DEF Led
<1>7. n \in Request /\ n.who = req[p].who /\ n.row = req[p].row
  <2>1. PICK o \in Request : o = req[p]
    BY <1>0
  <2>2. n = [o EXCEPT !.teams = T]
    BY <1>3, <2>1
  <2>3. n \in Request /\ n.who = o.who /\ n.row = o.row
    BY <1>6, <2>2, TakesTeams
  <2> QED BY <2>1, <2>3
<1>8. a \in Places /\ a \in Responding
  BY <1>2 DEF Places, Responding
<1>9. r \in Request /\ r.at = a /\ r.who = req[p].who /\ r.row = req[p].row
  BY <1>4, <1>7, <1>8, AtPlace
<1>10. ReqOK(r)
  BY <1>0, <1>8, <1>9, StillAnswers DEF Responding
<1>11. req[p].at \notin Seating \cup Drafting
  BY <1>0 DEF Seating, Drafting
<1> QED BY <1>0, <1>5, <1>9, <1>10, <1>11, OnlyReads DEF Moves

LEMMA ResetLookKeepsInv ==
  ASSUME TeamsInv, NEW p \in Requests, ResetLook(p)
  PROVE  TeamsInv'
<1>0. /\ req[p] \in Request /\ ReqOK(req[p]) /\ req[p].at = "reset.look"
      /\ UNCHANGED <<tables, history>>
  BY DEF TeamsInv, TypeOK, ReqsOK, ResetLook
<1>1. PICK t : t = req[p].team
  OBVIOUS
<1>2. t \in TeamIds /\ team[t].state # "unused" /\ req[p].who \in Students
  BY <1>0, <1>1 DEF ReqOK, Nameless, Responding
<1>3. req[p].at \notin Seating \cup Drafting \cup {"idle"}
  BY <1>0 DEF Seating, Drafting
<1>4. CASE ~Exists(t)
  BY <1>0, <1>1, <1>3, <1>4, PlainReadsKeepInv DEF ResetLook, Done
<1>5. CASE Exists(t)
  <2>1. PICK X : X = Active(t)
    OBVIOUS
  <2>2. PICK a : a = IF X = {} THEN "reset.unfix" ELSE "reset.archive"
    OBVIOUS
  <2>3. PICK n : n = [req[p] EXCEPT !.subs = X]
    OBVIOUS
  <2>4. PICK r : r = [n EXCEPT !.at = a]
    OBVIOUS
  <2>5. req' = [req EXCEPT ![p] = r]
    BY <1>1, <1>5, <2>1, <2>2, <2>3, <2>4 DEF ResetLook
  <2>6. X \in SUBSET SubIds
    BY <2>1 DEF Active
  <2>7. n \in Request /\ n.who = req[p].who /\ n.team = t /\ n.subs = X
    BY <1>0, <1>1, <2>3, <2>6, TakesSubs
  <2>8. a \in Places /\ a \in {"reset.unfix", "reset.archive"}
    BY <2>2 DEF Places
  <2>9. r \in Request /\ r.at = a /\ r.who = req[p].who /\ r.team = t /\ r.subs = X
    BY <2>4, <2>7, <2>8, AtPlace
  <2>10. \A x \in X : subs[x].state = "active" /\ subs[x].team = t
    BY <2>1 DEF Active
  <2>11. ReqOK(r)
    BY <1>2, <2>8, <2>9, <2>10 DEF ReqOK, Nameless, Dropping, Responding, Seating, Fixing,
       Inviting
  <2> QED BY <1>0, <1>3, <2>5, <2>9, <2>11, OnlyReads DEF Moves
<1> QED BY <1>4, <1>5

(* finalizeTeam found the draft, or is about to insert one.                *)
LEMMA FinalizeLookKeepsInv ==
  ASSUME TeamsInv, NEW p \in Requests, FinalizeLook(p)
  PROVE  TeamsInv'
<1>0. /\ req[p] \in Request /\ ReqOK(req[p]) /\ req[p].at = "finalize.look"
      /\ UNCHANGED <<team, members, subs, answer>> /\ crashed \in SUBSET TeamIds
  BY DEF TeamsInv, TypeOK, ReqsOK, FinalizeLook, tables
<1>1. PICK t : t = req[p].team
  OBVIOUS
<1>2. /\ t \in TeamIds /\ team[t].state # "unused" /\ req[p].who \in Students
      /\ Exists(t) => Seated(t)
  BY <1>0, <1>1 DEF ReqOK, Nameless, Responding, Fixing
<1>3. UNCHANGED <<Exists(t), Seated(t)>> /\ \A u \in TeamIds : Active(u)' = Active(u)
  BY <1>0 DEF Exists, Seated, RowsOf, Live, Active
<1>4. \A u \in TeamIds : Exists(u)' = Exists(u)
  BY <1>0 DEF Exists
<1>5. CASE Active(t) = {}
  <2>1. Goto(p, "finalize.insert") /\ crashed' = crashed
    BY <1>1, <1>5 DEF FinalizeLook, Proceed
  <2>2. "finalize.insert" \in Places
    BY DEF Places
  <2>3. PICK r \in Request :
          /\ Moves(p, r) /\ r.at = "finalize.insert" /\ r.who = req[p].who /\ r.team = t
    BY <1>1, <2>1, <2>2, GoesTo DEF TeamsInv
  <2>4. ReqOK(r)
    BY <1>2, <2>3 DEF ReqOK, Nameless, Dropping, Responding, Seating, Fixing, Inviting
  <2>5. req'[p] = r
    BY <2>3, MovesTo DEF TeamsInv
  <2>6. SeatsKept(p) /\ DraftsKept(p)
    BY <1>0, <1>1, <1>3, <1>4, <2>1, <2>3, <2>5
    DEF SeatsKept, DraftsKept, At, Seating, Drafting
  <2> QED BY <1>0, <2>1, <2>3, <2>4, <2>6, NoWrites
<1>6. CASE Active(t) # {}
  <2>1. Done(p) /\ crashed' = crashed \ {t}
    BY <1>1, <1>6 DEF FinalizeLook, Proceed
  <2>2. SeatsKept(p) /\ DraftsKept(p)
    BY <1>0, <1>1, <1>2, <1>3, <1>4, <1>6, <2>1
    DEF SeatsKept, DraftsKept, At, Seating, Drafting
  <2> QED BY <1>0, <2>1, <2>2, IdleOK, Finishes, NoWrites
<1> QED BY <1>5, <1>6

(* What dies is remembered in crashed, where it matters.                   *)
LEMMA DieKeepsInv ==
  ASSUME TeamsInv, NEW p \in Requests, Die(p)
  PROVE  TeamsInv'
<1>0. /\ req[p] \in Request /\ ReqOK(req[p]) /\ crashed \in SUBSET TeamIds
      /\ UNCHANGED <<team, members, subs, answer>>
  BY DEF TeamsInv, TypeOK, ReqsOK, Die, tables
<1>1. /\ crashed' \in SUBSET TeamIds /\ crashed \subseteq crashed'
      /\ req[p].at \in Seating \cup Drafting => req[p].team \in crashed'
  BY <1>0 DEF Die, HalfWay, Seating, Drafting, ReqOK, Nameless, Responding
<1>2. SeatsKept(p) /\ DraftsKept(p)
  BY <1>0, <1>1 DEF SeatsKept, DraftsKept, At, Exists, Active
<1> QED BY <1>0, <1>1, <1>2, IdleOK, Finishes, NoWrites DEF Die
-----------------------------------------------------------------------------
(* Steps that write the teams table                                        *)

LEMMA TeamWriteKeepsInv ==
  ASSUME TeamsInv, NEW p \in Requests, NEW r, Moves(p, r), ReqOK(r)',
         UNCHANGED <<members, subs, answer, crashed>>,
         NEW t \in TeamIds, NEW row \in TeamRow, team' = [team EXCEPT ![t] = row],
         row.state \in {"PENDING", "FIXED"},
         team[t].state = "unused" \/ (Exists(t) /\ row.leader = team[t].leader),
         SeatsKept(p), DraftsKept(p)
  PROVE  TeamsInv'
<1>1. /\ team \in [TeamIds -> TeamRow] /\ team' \in [TeamIds -> TeamRow] /\ team'[t] = row
      /\ \A u \in TeamIds \ {t} : team'[u] = team[u]
  BY DEF TeamsInv, TypeOK
<1>2. TypeOK'
  BY <1>1 DEF TeamsInv, TypeOK, Moves
<1>3. RowsOK'
  <2> SUFFICES ASSUME NEW m \in RowIds, Live(m)
               PROVE  /\ members[m].team \in TeamIds /\ Exists(members[m].team)'
                      /\ team'[members[m].team].leader = team[members[m].team].leader
    BY DEF TeamsInv, RowsOK, RowOK, Live
  <2>1. members[m].team \in TeamIds /\ Exists(members[m].team)
    BY DEF TeamsInv, RowsOK, RowOK
  <2> QED BY <1>1, <2>1 DEF Exists
<1>4. Lasting
  <2>1. \A u \in TeamIds : Seated(u)' = Seated(u)
    BY DEF Seated, RowsOf, Live
  <2> QED BY <1>1, <2>1 DEF Lasting, Exists, Live
<1> QED BY <1>2, <1>3, <1>4, Keeping

(* createTeam's first insert: the team waits for its leader's row.         *)
LEMMA InsertTeamKeepsInv ==
  ASSUME TeamsInv, NEW p \in Requests, CreateInsertTeam(p)
  PROVE  TeamsInv'
<1>0. /\ req[p] \in Request /\ ReqOK(req[p]) /\ req[p].at = "create.team"
      /\ UNCHANGED <<members, subs, answer, crashed>>
  BY DEF TeamsInv, TypeOK, ReqsOK, CreateInsertTeam, history
<1>1. PICK s \in Students : s = req[p].who
  BY <1>0 DEF ReqOK
<1>2. PICK t \in TeamIds :
        /\ team[t].state = "unused"
        /\ team' = [team EXCEPT ![t] = [state |-> "PENDING", leader |-> s]]
        /\ req' = [req EXCEPT ![p].at = "create.member", ![p].team = t]
  BY <1>1 DEF CreateInsertTeam
<1>3. PICK row : row = [state |-> "PENDING", leader |-> s]
  OBVIOUS
<1>4. row \in TeamRow /\ row.state = "PENDING" /\ row.leader = s
  BY <1>3 DEF TeamRow
<1>5. PICK n : n = [req[p] EXCEPT !.at = "create.member"]
  OBVIOUS
<1>6. n \in Request /\ n.at = "create.member" /\ n.who = s
  BY <1>0, <1>1, <1>5, AtPlace DEF Places
<1>7. PICK r : r = [n EXCEPT !.team = t]
  OBVIOUS
<1>8. r \in Request /\ r.at = "create.member" /\ r.who = s /\ r.team = t
  BY <1>6, <1>7 DEF Request
<1>9. Moves(p, r)
  BY <1>2, <1>5, <1>7, <1>8 DEF Moves
<1>10. /\ team'[t] = row /\ \A u \in TeamIds \ {t} : team'[u] = team[u]
       /\ req'[p] = r
  BY <1>2, <1>3, <1>9, MovesTo DEF TeamsInv, TypeOK
<1>11. ReqOK(r)'
  BY <1>4, <1>8, <1>10 DEF ReqOK, Nameless, Dropping, Responding, Seating, Fixing, Inviting
<1>12. SeatsKept(p)
  BY <1>0, <1>8, <1>10 DEF SeatsKept, At, Seating, Exists
<1>13. DraftsKept(p)
  BY <1>0, <1>4, <1>10 DEF DraftsKept, At, Drafting, Active
<1> QED BY <1>0, <1>2, <1>3, <1>4, <1>9, <1>11, <1>12, <1>13, TeamWriteKeepsInv

LEMMA FinalizeFixKeepsInv ==
  ASSUME TeamsInv, NEW p \in Requests, FinalizeFix(p)
  PROVE  TeamsInv'
<1>0. /\ req[p] \in Request /\ ReqOK(req[p]) /\ req[p].at = "finalize.fix"
      /\ UNCHANGED <<members, subs, answer, crashed>>
  BY DEF TeamsInv, TypeOK, ReqsOK, FinalizeFix, history
<1>1. PICK t : t = req[p].team
  OBVIOUS
<1>2. /\ t \in TeamIds /\ team[t].state # "unused" /\ req[p].who \in Students
      /\ Exists(t) => Seated(t)
  BY <1>0, <1>1 DEF ReqOK, Nameless, Responding, Fixing
<1>3. "finalize.look" \in Places
  BY DEF Places
<1>4. PICK r \in Request :
        /\ Moves(p, r) /\ r.at = "finalize.look" /\ r.who = req[p].who /\ r.team = t
  BY <1>1, <1>3, GoesTo DEF TeamsInv, FinalizeFix
<1>5. req'[p] = r
  BY <1>4, MovesTo DEF TeamsInv
<1>6. CASE Exists(t)
  <2>1. team[t] \in TeamRow
    BY <1>2 DEF TeamsInv, TypeOK
  <2>2. PICK row : row = [team[t] EXCEPT !.state = "FIXED"]
    OBVIOUS
  <2>3. row \in TeamRow /\ row.state = "FIXED" /\ row.leader = team[t].leader
    BY <2>1, <2>2 DEF TeamRow
  <2>4. team' = [team EXCEPT ![t] = row]
    BY <1>1, <1>6, <2>2 DEF FinalizeFix
  <2>5. team'[t] = row /\ \A u \in TeamIds \ {t} : team'[u] = team[u]
    BY <1>2, <2>4 DEF TeamsInv, TypeOK
  <2>6. Seated(t)' /\ team'[t].state # "unused"
    BY <1>0, <1>2, <1>6, <2>3, <2>5 DEF Seated, RowsOf, Live
  <2>7. ReqOK(r)'
    BY <1>2, <1>4, <2>6 DEF ReqOK, Nameless, Dropping, Responding, Seating, Fixing, Inviting
  <2>8. SeatsKept(p)
    BY <1>0, <1>6, <2>5 DEF SeatsKept, At, Seating, Exists
  <2>9. DraftsKept(p)
    BY <1>0, <1>4, <1>5, <2>5 DEF DraftsKept, At, Drafting, Active
  <2> QED BY <1>0, <1>2, <1>4, <1>6, <2>3, <2>4, <2>7, <2>8, <2>9, TeamWriteKeepsInv
<1>7. CASE ~Exists(t)
  <2>1. team' = team
    BY <1>1, <1>7 DEF FinalizeFix
  <2>2. ReqOK(r)
    BY <1>2, <1>4, <1>7 DEF ReqOK, Nameless, Dropping, Responding, Seating, Fixing, Inviting
  <2>3. SeatsKept(p) /\ DraftsKept(p)
    BY <1>0, <2>1 DEF SeatsKept, DraftsKept, At, Seating, Drafting, Exists, Active
  <2> QED BY <1>0, <1>4, <2>1, <2>2, <2>3, NoWrites DEF TeamsInv, TypeOK
<1> QED BY <1>6, <1>7

LEMMA ResetUnfixKeepsInv ==
  ASSUME TeamsInv, NEW p \in Requests, ResetUnfix(p)
  PROVE  TeamsInv'
<1>0. /\ req[p] \in Request /\ ReqOK(req[p]) /\ req[p].at = "reset.unfix"
      /\ UNCHANGED <<members, subs, answer, crashed>>
  BY DEF TeamsInv, TypeOK, ReqsOK, ResetUnfix, history
<1>1. PICK t : t = req[p].team
  OBVIOUS
<1>2. t \in TeamIds
  BY <1>0, <1>1 DEF ReqOK, Nameless, Responding
<1>3. Moves(p, Idle)
  BY Finishes DEF ResetUnfix
<1>4. CASE Exists(t)
  <2>1. team[t] \in TeamRow
    BY <1>2 DEF TeamsInv, TypeOK
  <2>2. PICK row : row = [team[t] EXCEPT !.state = "PENDING"]
    OBVIOUS
  <2>3. row \in TeamRow /\ row.state = "PENDING" /\ row.leader = team[t].leader
    BY <2>1, <2>2 DEF TeamRow
  <2>4. team' = [team EXCEPT ![t] = row]
    BY <1>1, <1>4, <2>2 DEF ResetUnfix
  <2>5. team'[t] = row /\ \A u \in TeamIds \ {t} : team'[u] = team[u]
    BY <1>2, <2>4 DEF TeamsInv, TypeOK
  <2>6. SeatsKept(p)
    BY <1>0, <1>4, <2>5 DEF SeatsKept, At, Seating, Exists
  <2>7. DraftsKept(p)
    BY <1>0, <1>1, <2>3, <2>5 DEF DraftsKept, At, Active
  <2> QED BY <1>0, <1>2, <1>3, <1>4, <2>3, <2>4, <2>6, <2>7, IdleOK, TeamWriteKeepsInv
<1>5. CASE ~Exists(t)
  <2>1. team' = team
    BY <1>1, <1>5 DEF ResetUnfix
  <2>2. SeatsKept(p) /\ DraftsKept(p)
    BY <1>0, <1>1, <1>5, <2>1 DEF SeatsKept, DraftsKept, At, Seating, Exists, Active
  <2> QED BY <1>0, <1>3, <2>1, <2>2, IdleOK, NoWrites DEF TeamsInv, TypeOK
<1> QED BY <1>4, <1>5
-----------------------------------------------------------------------------
(* DELETE of a team: createTeam's rollback, deleteTeam, and an invitee who *)
(* gives up the teams they lead                                            *)

LEMMA DropTeamKeepsInv ==
  ASSUME TeamsInv, NEW p \in Requests, NEW r, Moves(p, r), ReqOK(r)',
         NEW t \in TeamIds, Exists(t), DropTeam(t), UNCHANGED <<answer, crashed>>,
         req[p].at \notin Drafting, req[p].at \in Seating => req[p].team = t
  PROVE  TeamsInv'
<1>1. /\ team'[t].state = "deleted" /\ \A u \in TeamIds \ {t} : team'[u] = team[u]
      /\ team' \in [TeamIds -> TeamRow]
  <2>1. [state |-> "deleted", leader |-> None] \in TeamRow
    BY DEF TeamRow
  <2> QED BY <2>1 DEF DropTeam, TeamsInv, TypeOK
<1>2. /\ members' \in [RowIds -> MemberRow]
      /\ \A m \in RowsOf(t) : members'[m].state = "deleted"
      /\ \A m \in RowIds \ RowsOf(t) : members'[m] = members[m]
  <2>1. PICK row : row = NoMember("deleted")
    OBVIOUS
  <2>3. row \in MemberRow /\ row.state = "deleted"
    BY <2>1 DEF NoMember, MemberRow
  <2>2. members' = [m \in RowIds |-> IF m \in RowsOf(t) THEN row ELSE members[m]]
    BY <2>1 DEF DropTeam
  <2> QED BY <2>2, <2>3 DEF TeamsInv, TypeOK, RowsOf
<1>3. /\ subs' \in [SubIds -> SubRow]
      /\ \A x \in SubsOf(t) : subs'[x].state = "deleted"
      /\ \A x \in SubIds \ SubsOf(t) : subs'[x] = subs[x]
  <2>1. PICK row : row = NoSub("deleted")
    OBVIOUS
  <2>3. row \in SubRow /\ row.state = "deleted"
    BY <2>1 DEF NoSub, SubRow
  <2>2. subs' = [x \in SubIds |-> IF x \in SubsOf(t) THEN row ELSE subs[x]]
    BY <2>1 DEF DropTeam
  <2> QED BY <2>2, <2>3 DEF TeamsInv, TypeOK, SubsOf
<1>4. TypeOK'
  BY <1>1, <1>2, <1>3 DEF TeamsInv, TypeOK, Moves
<1>5. \A m \in RowIds : Live(m)' => Live(m) /\ members[m].team # t /\ members'[m] = members[m]
  BY <1>2 DEF RowsOf, Live, InvitationStatus
<1>6. RowsOK'
  <2> SUFFICES ASSUME NEW m \in RowIds, Live(m)' PROVE RowOK(m)'
    BY DEF RowsOK, RowOK
  <2>1. Live(m) /\ RowOK(m) /\ members'[m] = members[m] /\ members[m].team # t
    BY <1>5 DEF TeamsInv, RowsOK
  <2>2. members[m].team \in TeamIds /\ team'[members[m].team] = team[members[m].team]
    BY <1>1, <2>1 DEF RowOK
  <2> QED BY <2>1, <2>2 DEF RowOK, Live, Exists
<1>7. Lasting
  <2>1. ASSUME NEW u \in TeamIds, team[u].state # "unused"
        PROVE  /\ team'[u].state # "unused"
               /\ Exists(u)' => Exists(u) /\ team'[u].leader = team[u].leader
    <3>1. CASE u = t
      BY <1>1, <3>1 DEF Exists
    <3>2. CASE u # t
      BY <1>1, <2>1, <3>2 DEF Exists
    <3> QED BY <3>1, <3>2
  <2>2. ASSUME NEW m \in RowIds, members[m].state # "unused"
        PROVE  /\ members'[m].state # "unused"
               /\ Live(m)' => Live(m) /\ members'[m] = members[m]
    <3>1. members'[m].state # "unused"
      BY <1>2, <2>2
    <3> QED BY <1>5, <3>1
  <2>3. ASSUME NEW u \in TeamIds, Seated(u), Exists(u)' PROVE Seated(u)'
    <3>1. u # t
      BY <1>1, <2>3 DEF Exists
    <3>2. PICK m \in RowsOf(u) : members[m].role = "KETUA"
      BY <2>3 DEF Seated
    <3>3. members'[m] = members[m] /\ m \in RowIds
      BY <1>2, <3>1, <3>2 DEF RowsOf
    <3> QED BY <3>2, <3>3 DEF Seated, RowsOf, Live
  <2>4. ASSUME NEW x \in SubIds, subs[x].state # "unused"
        PROVE  /\ subs'[x].state # "unused"
               /\ subs'[x].state = "active" => subs'[x] = subs[x]
    <3>1. subs'[x].state = "deleted" \/ subs'[x] = subs[x]
      BY <1>3
    <3> QED BY <2>4, <3>1
  <2> QED BY <2>1, <2>2, <2>3, <2>4 DEF Lasting
<1>8. SeatsKept(p)
  BY <1>1 DEF SeatsKept, At, Exists
<1>9. DraftsKept(p)
  <2> SUFFICES ASSUME NEW u \in TeamIds, team'[u].state = "FIXED"
               PROVE  team[u].state = "FIXED" /\ Active(u) \subseteq Active(u)'
    BY DEF DraftsKept, At
  <2>1. u # t /\ team[u].state = "FIXED"
    BY <1>1
  <2>2. \A x \in Active(u) : subs'[x] = subs[x]
    BY <1>3, <2>1 DEF Active, SubsOf
  <2> QED BY <2>1, <2>2 DEF Active
<1> QED BY <1>4, <1>6, <1>7, <1>8, <1>9, Keeping

LEMMA DropsKeepInv ==
  ASSUME TeamsInv, NEW p \in Requests, CreateRollback(p) \/ DeleteTeamRow(p)
  PROVE  TeamsInv'
<1>0. /\ req[p] \in Request /\ ReqOK(req[p]) /\ UNCHANGED <<answer, crashed>>
      /\ req[p].at \in {"create.rollback", "team.delete"} /\ Moves(p, Idle)
  BY Finishes DEF TeamsInv, TypeOK, ReqsOK, CreateRollback, DeleteTeamRow, history
<1>1. req[p].team \in TeamIds
  BY <1>0 DEF ReqOK, Nameless, Responding
<1>2. req[p].at \notin Drafting
  BY <1>0 DEF Drafting
<1>3. CASE Exists(req[p].team)
  BY <1>0, <1>1, <1>2, <1>3, IdleOK, DropTeamKeepsInv DEF CreateRollback, DeleteTeamRow
<1>4. CASE ~Exists(req[p].team)
  <2>1. UNCHANGED <<team, members, subs>>
    BY <1>4 DEF CreateRollback, DeleteTeamRow, tables
  <2>2. SeatsKept(p) /\ DraftsKept(p)
    BY <1>0, <1>2, <1>4, <2>1 DEF SeatsKept, DraftsKept, At, Exists, Active
  <2> QED BY <1>0, <2>1, <2>2, IdleOK, NoWrites DEF TeamsInv, TypeOK
<1> QED BY <1>3, <1>4

LEMMA DisbandKeepsInv ==
  ASSUME TeamsInv, NEW p \in Requests, RespondDisband(p)
  PROVE  TeamsInv'
<1>0. /\ req[p] \in Request /\ ReqOK(req[p]) /\ req[p].at = "respond.disband"
      /\ UNCHANGED <<answer, crashed>>
  BY DEF TeamsInv, TypeOK, ReqsOK, RespondDisband, history
<1>1. PICK t :
        /\ t \in req[p].teams
        /\ req' = [req EXCEPT ![p].teams = @ \ {t},
             ![p].at = IF req[p].teams = {t} THEN "respond.write" ELSE @]
        /\ \/ Exists(t) /\ DropTeam(t)
           \/ UNCHANGED tables
  BY DEF RespondDisband
<1>2. PICK o \in Request : o = req[p] /\ o.teams \in SUBSET TeamIds
  BY <1>0 DEF Request
<1>3. PICK T : T = o.teams \ {t}
  OBVIOUS
<1>4. PICK a : a = IF req[p].teams = {t} THEN "respond.write" ELSE req[p].at
  OBVIOUS
<1>5. PICK n : n = [o EXCEPT !.teams = T]
  OBVIOUS
<1>6. PICK r : r = [n EXCEPT !.at = a]
  OBVIOUS
<1>7. n \in Request /\ n.who = o.who /\ n.row = o.row
  <2>1. T \in SUBSET TeamIds
    BY <1>2, <1>3
  <2>2. n \in Request
    BY <1>2, <1>5, <2>1, TakesTeams
  <2>3. n.who = o.who /\ n.row = o.row
    BY <1>2, <1>5 DEF Request
  <2> QED BY <2>2, <2>3
<1>8. a \in Places /\ a \in Responding
  BY <1>0, <1>4 DEF Places, Responding
<1>9. r \in Request /\ r.at = a /\ r.who = o.who /\ r.row = o.row
  <2>1. r \in Request
    BY <1>6, <1>7, <1>8, AtPlace
  <2>2. r.at = a /\ r.who = n.who /\ r.row = n.row
    BY <1>6, <1>7 DEF Request
  <2> QED BY <1>7, <2>1, <2>2
<1>10. Moves(p, r)
  <2>1. req' = [req EXCEPT ![p] = r]
    BY <1>1, <1>2, <1>3, <1>4, <1>5, <1>6
  <2> QED BY <1>9, <2>1 DEF Moves
<1>11. ReqOK(r)
  BY <1>0, <1>2, <1>8, <1>9, StillAnswers DEF Responding
<1>12. req[p].at \notin Seating \cup Drafting /\ t \in TeamIds
  BY <1>0, <1>1, <1>2 DEF Seating, Drafting
<1>13. CASE UNCHANGED tables
  BY <1>0, <1>10, <1>11, <1>12, <1>13, OnlyReads DEF history
<1>14. CASE Exists(t) /\ DropTeam(t)
  <2>1. ReqOK(r)'
    <3>1. /\ r.who \in Students /\ r.row \in RowIds /\ members[r.row].state # "unused"
          /\ Live(r.row) => members[r.row].role = "ANGGOTA" /\ MayAnswer(r.who, r.row)
      BY <1>8, <1>9, <1>11 DEF ReqOK, Responding
    <3>2. /\ members'[r.row] = members[r.row] \/ members'[r.row].state = "deleted"
          /\ members'[r.row].state # "deleted" => r.row \notin RowsOf(t)
      BY <1>14, <3>1 DEF DropTeam, NoMember
    <3>3. ASSUME Live(r.row)'
          PROVE  members'[r.row].role = "ANGGOTA" /\ MayAnswer(r.who, r.row)'
      <4>1. /\ members'[r.row] = members[r.row] /\ Live(r.row) /\ members[r.row].team # t
        BY <3>1, <3>2, <3>3 DEF Live, InvitationStatus, RowsOf
      <4>2. members[r.row].team \in TeamIds
        BY <3>1, <4>1 DEF TeamsInv, RowsOK, RowOK
      <4>3. team'[members[r.row].team] = team[members[r.row].team]
        BY <1>14, <4>1, <4>2 DEF DropTeam, TeamsInv, TypeOK
      <4> QED BY <3>1, <4>1, <4>3 DEF MayAnswer
    <3>4. members'[r.row].state # "unused"
      BY <3>1, <3>2
    <3> QED BY <1>8, <1>9, <3>1, <3>3, <3>4
        DEF ReqOK, Nameless, Dropping, Responding, Seating, Fixing, Inviting
  <2> QED BY <1>0, <1>10, <1>12, <1>14, <2>1, DropTeamKeepsInv
<1> QED BY <1>1, <1>13, <1>14
-----------------------------------------------------------------------------
(* Steps that write one row of team_members                                *)

LEMMA RowWriteKeepsInv ==
  ASSUME TeamsInv, NEW p \in Requests, NEW r, Moves(p, r), ReqOK(r)',
         UNCHANGED <<team, subs, crashed>>,
         NEW m \in RowIds, NEW row \in MemberRow, row.state # "unused",
         members' = [members EXCEPT ![m] = row], RowOK(m)',
         answer' \in [RowIds -> Students \cup {None}],
         \A k \in RowIds \ {m} : answer'[k] = answer[k],
         Live(m) => members[m].role = "ANGGOTA",
         members[m].state # "unused" /\ row.state \in InvitationStatus =>
           /\ Live(m) /\ row.team = members[m].team /\ row.student = members[m].student
           /\ row.role = members[m].role /\ row.by = members[m].by,
         req[p].at \notin Drafting,
         \A t \in TeamIds : Exists(t) /\ At(p, t, Seating) => Seated(t)' \/ At(p, t, Seating)'
  PROVE  TeamsInv'
<1>1. /\ members' \in [RowIds -> MemberRow] /\ members'[m] = row
      /\ \A k \in RowIds \ {m} : members'[k] = members[k]
  BY DEF TeamsInv, TypeOK
<1>2. TypeOK'
  BY <1>1 DEF TeamsInv, TypeOK, Moves
<1>3. RowsOK'
  <2> SUFFICES ASSUME NEW k \in RowIds, k # m PROVE RowOK(k)'
    BY DEF RowsOK
  <2>1. members'[k] = members[k] /\ answer'[k] = answer[k] /\ RowOK(k)
    BY <1>1 DEF TeamsInv, RowsOK
  <2> QED BY <2>1 DEF RowOK, Live, Exists
<1>4. Lasting
  <2>1. ASSUME NEW k \in RowIds, members[k].state # "unused"
        PROVE  /\ members'[k].state # "unused"
               /\ Live(k)' => /\ Live(k)
                              /\ members'[k].team = members[k].team
                              /\ members'[k].student = members[k].student
                              /\ members'[k].role = members[k].role
                              /\ members'[k].by = members[k].by
    <3>1. CASE k = m
      BY <1>1, <2>1, <3>1 DEF Live
    <3>2. CASE k # m
      BY <1>1, <2>1, <3>2 DEF Live
    <3> QED BY <3>1, <3>2
  <2>2. ASSUME NEW t \in TeamIds, Seated(t) PROVE Seated(t)'
    <3>1. PICK k \in RowsOf(t) : members[k].role = "KETUA"
      BY <2>2 DEF Seated
    <3>2. k \in RowIds /\ Live(k) /\ k # m
      BY <3>1 DEF RowsOf
    <3>3. members'[k] = members[k]
      BY <1>1, <3>2
    <3> QED BY <3>1, <3>2, <3>3 DEF Seated, RowsOf, Live
  <2> QED BY <2>1, <2>2 DEF Lasting, Exists
<1>5. SeatsKept(p)
  BY DEF SeatsKept, Exists
<1>6. DraftsKept(p)
  BY DEF DraftsKept, At, Active
<1> QED BY <1>2, <1>3, <1>4, <1>5, <1>6, Keeping

(* DELETE of a row by id: it is never the leader's.                        *)
LEMMA DropRowKeepsInv ==
  ASSUME TeamsInv, NEW p \in Requests, NEW r, Moves(p, r), ReqOK(r)',
         UNCHANGED <<team, subs, answer, crashed>>, NEW m \in RowIds, DropRow(m),
         members[m].role = "ANGGOTA", req[p].at \notin Seating \cup Drafting
  PROVE  TeamsInv'
<1>1. PICK row : row = NoMember("deleted")
  OBVIOUS
<1>2. row \in MemberRow /\ row.state = "deleted"
  BY <1>1 DEF NoMember, MemberRow
<1>3. members' = [members EXCEPT ![m] = row]
  BY <1>1 DEF DropRow
<1>4. members'[m] = row
  BY <1>3 DEF TeamsInv, TypeOK
<1>5. RowOK(m)' /\ row.state \notin InvitationStatus
  BY <1>2, <1>4 DEF RowOK, Live, InvitationStatus
<1>6. answer' \in [RowIds -> Students \cup {None}]
  BY DEF TeamsInv, TypeOK
<1>7. \A t \in TeamIds : ~At(p, t, Seating)
  BY DEF At
<1> QED BY <1>2, <1>3, <1>5, <1>6, <1>7, RowWriteKeepsInv

LEMMA RowDeletesKeepInv ==
  ASSUME TeamsInv, NEW p \in Requests, RowDelete(p) \/ InviteDrop(p)
  PROVE  TeamsInv'
<1>0. /\ req[p] \in Request /\ ReqOK(req[p]) /\ req[p].at \in Dropping
      /\ UNCHANGED <<team, subs, answer, crashed>>
  BY DEF TeamsInv, TypeOK, ReqsOK, RowDelete, InviteDrop, history, Dropping
<1>1. /\ req[p].at \notin Seating \cup Drafting
      /\ req[p].row \in RowIds
      /\ Live(req[p].row) => members[req[p].row].role = "ANGGOTA"
  BY <1>0 DEF Dropping, Seating, Drafting, ReqOK
<1>2. PICK r : Moves(p, r) /\ ReqOK(r) /\ ReqOK(r)'
  <2>1. CASE RowDelete(p)
    BY <2>1, Finishes, IdleOK DEF RowDelete
  <2>2. CASE InviteDrop(p)
    <3>1. /\ req[p].at = "invite.drop" /\ req[p].team \in TeamIds
          /\ team[req[p].team].state # "unused"
          /\ Exists(req[p].team) => req[p].who = team[req[p].team].leader
          /\ req[p].who \in Students /\ req[p].subject \in Students
      BY <1>0, <2>2 DEF InviteDrop, ReqOK, Nameless, Responding, Inviting
    <3>2. "invite.insert" \in Places
      BY DEF Places
    <3>3. PICK r \in Request :
            /\ Moves(p, r) /\ r.at = "invite.insert" /\ r.who = req[p].who
            /\ r.team = req[p].team /\ r.subject = req[p].subject
      BY <2>2, <3>2, GoesTo DEF TeamsInv, InviteDrop
    <3>4. ReqOK(r) /\ ReqOK(r)'
      BY <1>0, <3>1, <3>3
      DEF ReqOK, Nameless, Dropping, Responding, Seating, Fixing, Inviting, Exists
    <3> QED BY <3>3, <3>4
  <2> QED BY <2>1, <2>2
<1>3. CASE Live(req[p].row)
  <2>1. DropRow(req[p].row)
    BY <1>3 DEF RowDelete, InviteDrop
  <2> QED BY <1>0, <1>1, <1>2, <1>3, <2>1, DropRowKeepsInv
<1>4. CASE ~Live(req[p].row)
  <2>1. UNCHANGED members
    BY <1>4 DEF RowDelete, InviteDrop
  <2> QED BY <1>0, <1>1, <1>2, <2>1, OnlyReads DEF tables, history
<1> QED BY <1>3, <1>4
(* INSERT of a row of a team that is there.                                *)
LEMMA InsertKeepsInv ==
  ASSUME TeamsInv, NEW p \in Requests, NEW r, Moves(p, r), ReqOK(r)',
         UNCHANGED <<team, subs, answer, crashed>>,
         NEW t \in TeamIds, Exists(t), NEW s \in Students, NEW by \in Students,
         NEW role \in {"KETUA", "ANGGOTA"}, NEW state \in {"PENDING", "ACCEPTED"},
         InsertMember(t, s, role, state, by),
         role = "KETUA" => state = "ACCEPTED" /\ s = team[t].leader,
         role = "ANGGOTA" => state = "PENDING" /\ by \in {s, team[t].leader},
         req[p].at \notin Drafting,
         req[p].at \in Seating => role = "KETUA" /\ req[p].team = t
  PROVE  TeamsInv'
<1>1. PICK row : row = [state |-> state, team |-> t, student |-> s, role |-> role, by |-> by]
  OBVIOUS
<1>2. /\ row \in MemberRow /\ row.state = state /\ row.team = t /\ row.student = s
      /\ row.role = role /\ row.by = by
  BY <1>1 DEF MemberRow, InvitationStatus
<1>3. PICK m \in RowIds : members[m].state = "unused" /\ members' = [members EXCEPT ![m] = row]
  BY <1>1 DEF InsertMember, FreeRows
<1>4. members'[m] = row
  BY <1>3 DEF TeamsInv, TypeOK
<1>5. Live(m)' /\ ~Live(m)
  BY <1>2, <1>3, <1>4 DEF Live, InvitationStatus
<1>6. RowOK(m)'
  BY <1>2, <1>4 DEF RowOK, Exists
<1>7. answer' \in [RowIds -> Students \cup {None}]
  BY DEF TeamsInv, TypeOK
<1>8. \A u \in TeamIds : Exists(u) /\ At(p, u, Seating) => Seated(u)'
  <2> SUFFICES ASSUME At(p, t, Seating) PROVE Seated(t)'
    BY DEF At
  <2> QED BY <1>2, <1>4, <1>5 DEF Seated, RowsOf, At
<1> QED BY <1>2, <1>3, <1>5, <1>6, <1>7, <1>8, RowWriteKeepsInv

LEMMA InsertsKeepInv ==
  ASSUME TeamsInv, NEW p \in Requests, InviteInsert(p) \/ JoinInsert(p)
  PROVE  TeamsInv'
<1>0. /\ req[p] \in Request /\ ReqOK(req[p]) /\ req[p].at \in {"invite.insert", "join.insert"}
      /\ UNCHANGED <<team, subs, answer, crashed>> /\ Moves(p, Idle)
  BY Finishes DEF TeamsInv, TypeOK, ReqsOK, InviteInsert, JoinInsert, history
<1>1. PICK t : t = req[p].team
  OBVIOUS
<1>2. /\ t \in TeamIds /\ req[p].who \in Students
      /\ req[p].at = "invite.insert" => /\ req[p].subject \in Students
                                        /\ Exists(t) => req[p].who = team[t].leader
  BY <1>0, <1>1 DEF ReqOK, Nameless, Responding, Inviting
<1>3. req[p].at \notin Seating \cup Drafting
  BY <1>0 DEF Seating, Drafting
<1>4. CASE Exists(t) /\ InviteInsert(p)
  <2>1. InsertMember(t, req[p].subject, "ANGGOTA", "PENDING", req[p].who)
    BY <1>1, <1>4 DEF InviteInsert
  <2> QED BY <1>0, <1>2, <1>3, <1>4, <2>1, IdleOK, InsertKeepsInv DEF InviteInsert
<1>5. CASE Exists(t) /\ JoinInsert(p)
  <2>1. InsertMember(t, req[p].who, "ANGGOTA", "PENDING", req[p].who)
    BY <1>1, <1>5 DEF JoinInsert
  <2> QED BY <1>0, <1>2, <1>3, <1>5, <2>1, IdleOK, InsertKeepsInv
<1>6. CASE ~Exists(t)
  <2>1. UNCHANGED members
    BY <1>1, <1>6 DEF InviteInsert, JoinInsert
  <2> QED BY <1>0, <1>3, <2>1, IdleOK, OnlyReads DEF tables, history
<1> QED BY <1>4, <1>5, <1>6

LEMMA InsertLeaderKeepsInv ==
  ASSUME TeamsInv, NEW p \in Requests, CreateInsertLeader(p)
  PROVE  TeamsInv'
<1>0. /\ req[p] \in Request /\ ReqOK(req[p]) /\ req[p].at = "create.member"
      /\ UNCHANGED <<team, subs, answer, crashed>> /\ crashed \in SUBSET TeamIds
  BY DEF TeamsInv, TypeOK, ReqsOK, CreateInsertLeader, history
<1>1. PICK t : t = req[p].team
  OBVIOUS
<1>2. /\ t \in TeamIds /\ team[t].state # "unused" /\ req[p].who \in Students
      /\ Exists(t) => req[p].who = team[t].leader
  BY <1>0, <1>1 DEF ReqOK, Nameless, Responding, Seating
<1>3. req[p].at \notin Drafting
  BY <1>0 DEF Drafting
<1>4. ASSUME Exists(t), InsertMember(t, req[p].who, "KETUA", "ACCEPTED", req[p].who), Done(p)
      PROVE  TeamsInv'
  BY <1>0, <1>1, <1>2, <1>3, <1>4, Finishes, IdleOK, InsertKeepsInv
<1>5. ASSUME Goto(p, "create.rollback"), UNCHANGED members PROVE TeamsInv'
  <2>1. "create.rollback" \in Places
    BY DEF Places
  <2>2. PICK r \in Request : /\ Moves(p, r) /\ r.at = "create.rollback"
                             /\ r.who = req[p].who /\ r.team = t
    BY <1>1, <1>5, <2>1, GoesTo DEF TeamsInv
  <2>3. ReqOK(r)
    BY <1>2, <2>2 DEF ReqOK, Nameless, Dropping, Responding, Seating, Fixing, Inviting
  <2>4. req'[p] = r
    BY <2>2, MovesTo DEF TeamsInv
  <2>5. SeatsKept(p) /\ DraftsKept(p)
    BY <1>0, <1>1, <1>3, <1>5, <2>2, <2>4
    DEF SeatsKept, DraftsKept, At, Seating, Exists, Active
  <2> QED BY <1>0, <1>5, <2>2, <2>3, <2>5, NoWrites
<1> QED BY <1>1, <1>4, <1>5 DEF CreateInsertLeader
(* The answer: only the party that did not make the row gives it.          *)
LEMMA RespondWriteKeepsInv ==
  ASSUME TeamsInv, NEW p \in Requests, RespondWrite(p)
  PROVE  TeamsInv'
<1>0. /\ req[p] \in Request /\ ReqOK(req[p]) /\ req[p].at = "respond.write"
      /\ UNCHANGED <<team, subs, crashed>> /\ Moves(p, Idle)
  BY Finishes DEF TeamsInv, TypeOK, ReqsOK, RespondWrite
<1>1. PICK m : m = req[p].row
  OBVIOUS
<1>2. PICK s \in Students : s = req[p].who
  BY <1>0 DEF ReqOK
<1>3. m \in RowIds /\ (Live(m) => members[m].role = "ANGGOTA" /\ MayAnswer(s, m))
  BY <1>0, <1>1, <1>2 DEF ReqOK, Responding
<1>4. req[p].at \notin Seating \cup Drafting
  BY <1>0 DEF Seating, Drafting
<1>5. CASE Live(m)
  <2>1. PICK st \in {"ACCEPTED", "REJECTED"} :
          st = IF req[p].accept THEN "ACCEPTED" ELSE "REJECTED"
    OBVIOUS
  <2>2. PICK row : row = [members[m] EXCEPT !.state = st]
    OBVIOUS
  <2>3. members[m] \in MemberRow
    BY <1>3 DEF TeamsInv, TypeOK
  <2>4. /\ row \in MemberRow /\ row.state = st /\ row.team = members[m].team
        /\ row.student = members[m].student /\ row.role = members[m].role
        /\ row.by = members[m].by
    BY <2>2, <2>3 DEF MemberRow, InvitationStatus
  <2>5. members' = [members EXCEPT ![m] = row] /\ answer' = [answer EXCEPT ![m] = s]
    BY <1>1, <1>2, <1>5, <2>1, <2>2 DEF RespondWrite
  <2>6. /\ members'[m] = row /\ answer'[m] = s
        /\ answer' \in [RowIds -> Students \cup {None}]
        /\ \A k \in RowIds \ {m} : answer'[k] = answer[k]
    BY <1>3, <2>5 DEF TeamsInv, TypeOK
  <2>7. RowOK(m)'
    <3>1. RowOK(m) /\ members[m].role = "ANGGOTA" /\ MayAnswer(s, m)
      BY <1>3, <1>5 DEF TeamsInv, RowsOK
    <3>2. /\ members[m].team \in TeamIds /\ Exists(members[m].team)
          /\ members[m].student \in Students
          /\ members[m].by \in {members[m].student, team[members[m].team].leader}
      BY <1>5, <3>1 DEF RowOK
    <3>3. {members[m].by, s} = {members[m].student, team[members[m].team].leader}
      BY <3>1, <3>2 DEF MayAnswer
    <3> QED BY <1>0, <2>4, <2>6, <3>1, <3>2, <3>3 DEF RowOK, Exists
  <2>8. row.state # "unused" /\ \A t \in TeamIds : ~At(p, t, Seating)
    BY <1>4, <2>1, <2>4 DEF At
  <2> QED BY <1>0, <1>3, <1>4, <1>5, <2>4, <2>5, <2>6, <2>7, <2>8, IdleOK, RowWriteKeepsInv
<1>6. CASE ~Live(m)
  <2>1. UNCHANGED <<members, answer>>
    BY <1>1, <1>6 DEF RespondWrite
  <2> QED BY <1>0, <1>4, <2>1, IdleOK, OnlyReads DEF tables, history
<1> QED BY <1>5, <1>6

-----------------------------------------------------------------------------
(* Steps that write one submission                                         *)

LEMMA SubWriteLasts ==
  ASSUME TeamsInv, UNCHANGED <<team, members, answer>>, NEW x \in SubIds, NEW row \in SubRow,
         row.state # "unused", subs' = [subs EXCEPT ![x] = row],
         subs[x].state # "unused" /\ row.state = "active" =>
           subs[x].state = "active" /\ row.team = subs[x].team
  PROVE  /\ subs' \in [SubIds -> SubRow] /\ subs'[x] = row
         /\ \A y \in SubIds \ {x} : subs'[y] = subs[y]
         /\ RowsOK' /\ Lasting
<1>1. /\ subs' \in [SubIds -> SubRow] /\ subs'[x] = row
      /\ \A y \in SubIds \ {x} : subs'[y] = subs[y]
  BY DEF TeamsInv, TypeOK
<1>2. RowsOK'
  BY DEF TeamsInv, RowsOK, RowOK, Live, Exists
<1>3. Lasting
  <2>1. ASSUME NEW y \in SubIds, subs[y].state # "unused"
        PROVE  /\ subs'[y].state # "unused"
               /\ subs'[y].state = "active" => /\ subs[y].state = "active"
                                               /\ subs'[y].team = subs[y].team
    <3>1. CASE y = x
      BY <1>1, <2>1, <3>1
    <3>2. CASE y # x
      BY <1>1, <2>1, <3>2
    <3> QED BY <3>1, <3>2
  <2> QED BY <2>1 DEF Lasting, Exists, Live, Seated, RowsOf
<1> QED BY <1>1, <1>2, <1>3

LEMMA SubWriteKeepsInv ==
  ASSUME TeamsInv, NEW p \in Requests, NEW r, Moves(p, r), ReqOK(r)',
         UNCHANGED <<team, members, answer>>, crashed' \in SUBSET TeamIds,
         NEW x \in SubIds, NEW row \in SubRow, row.state # "unused",
         subs' = [subs EXCEPT ![x] = row],
         subs[x].state # "unused" /\ row.state = "active" =>
           subs[x].state = "active" /\ row.team = subs[x].team,
         req[p].at \notin Seating,
         \A t \in TeamIds : Exists(t) /\ t \in crashed => t \in crashed' \/ Seated(t),
         DraftsKept(p)
  PROVE  TeamsInv'
<1>1. subs' \in [SubIds -> SubRow] /\ RowsOK' /\ Lasting
  BY SubWriteLasts
<1>2. TypeOK'
  BY <1>1 DEF TeamsInv, TypeOK, Moves
<1>3. \A t \in TeamIds : Seated(t)' = Seated(t) /\ Exists(t)' = Exists(t)
  BY DEF Seated, RowsOf, Live, Exists
<1>4. SeatsKept(p)
  BY <1>3 DEF SeatsKept, At
<1> QED BY <1>1, <1>2, <1>4, Keeping

(* INSERT of a draft of a team that is there.                              *)
LEMMA InsertDraftKeepsInv ==
  ASSUME TeamsInv, NEW p \in Requests, Moves(p, Idle), UNCHANGED <<team, members, answer>>,
         NEW t \in TeamIds, InsertDraft(t), req[p].at \notin Seating,
         At(p, t, Drafting) \/ req[p].at \notin Drafting,
         crashed' = crashed \/ (Seated(t) /\ crashed' = crashed \ {t})
  PROVE  TeamsInv'
<1>1. PICK row : row = [state |-> "active", team |-> t, letter |-> FALSE]
  OBVIOUS
<1>2. row \in SubRow /\ row.state = "active" /\ row.team = t
  BY <1>1 DEF SubRow
<1>3. PICK x \in SubIds : subs[x].state = "unused" /\ subs' = [subs EXCEPT ![x] = row]
  BY <1>1 DEF InsertDraft, FreeSubs
<1>4. subs'[x] = row /\ \A y \in SubIds \ {x} : subs'[y] = subs[y]
  BY <1>3 DEF TeamsInv, TypeOK
<1>5. DraftsKept(p)
  <2>1. Active(t)' # {}
    BY <1>2, <1>4 DEF Active
  <2>2. \A u \in TeamIds : Active(u) \subseteq Active(u)'
    BY <1>3, <1>4 DEF Active
  <2>3. \A u \in TeamIds : At(p, u, Drafting) => u = t
    BY DEF At
  <2>4. \A u \in TeamIds \ {t} : u \in crashed => u \in crashed'
    OBVIOUS
  <2>5. \A u \in TeamIds : Active(u) # {} => Active(u)' # {}
    BY <2>2
  <2> QED BY <2>1, <2>3, <2>4, <2>5 DEF DraftsKept
<1>6. crashed' \in SUBSET TeamIds
  BY DEF TeamsInv, TypeOK
<1>7. \A u \in TeamIds : Exists(u) /\ u \in crashed => u \in crashed' \/ Seated(u)
  OBVIOUS
<1> QED BY <1>2, <1>3, <1>5, <1>6, <1>7, IdleOK, SubWriteKeepsInv

LEMMA DraftsKeepInv ==
  ASSUME TeamsInv, NEW p \in Requests, FinalizeInsert(p) \/ DraftInsert(p)
  PROVE  TeamsInv'
<1>0. /\ req[p] \in Request /\ ReqOK(req[p])
      /\ req[p].at \in {"finalize.insert", "draft.insert"} /\ Moves(p, Idle)
      /\ UNCHANGED <<team, members, answer>>
  BY Finishes DEF TeamsInv, TypeOK, ReqsOK, FinalizeInsert, DraftInsert, history
<1>1. PICK t : t = req[p].team
  OBVIOUS
<1>2. /\ t \in TeamIds
      /\ req[p].at = "finalize.insert" /\ Exists(t) => Seated(t)
  BY <1>0, <1>1 DEF ReqOK, Nameless, Responding, Fixing
<1>3. req[p].at \notin Seating
  BY <1>0 DEF Seating
<1>4. At(p, t, Drafting) \/ req[p].at \notin Drafting
  BY <1>1 DEF At
<1>5. CASE Exists(t)
  <2>1. /\ InsertDraft(t)
        /\ crashed' = crashed \/ (Seated(t) /\ crashed' = crashed \ {t})
    BY <1>0, <1>1, <1>2, <1>5 DEF FinalizeInsert, DraftInsert, history
  <2> QED BY <1>0, <1>2, <1>3, <1>4, <2>1, InsertDraftKeepsInv
<1>6. CASE ~Exists(t)
  <2>1. UNCHANGED <<subs, crashed>>
    BY <1>1, <1>6 DEF FinalizeInsert, DraftInsert, history
  <2>2. SeatsKept(p) /\ DraftsKept(p)
    BY <1>0, <1>1, <1>3, <1>6, <2>1 DEF SeatsKept, DraftsKept, At, Exists, Active
  <2> QED BY <1>0, <2>1, <2>2, IdleOK, NoWrites DEF TeamsInv, TypeOK
<1> QED BY <1>5, <1>6
(* resetTeam archives the drafts it read, one by one.                      *)
LEMMA ArchiveKeepsInv ==
  ASSUME TeamsInv, NEW p \in Requests, ResetArchive(p)
  PROVE  TeamsInv'
<1>0. /\ req[p] \in Request /\ ReqOK(req[p]) /\ req[p].at = "reset.archive"
      /\ UNCHANGED <<team, members, answer, crashed>>
  BY DEF TeamsInv, TypeOK, ReqsOK, ResetArchive, history
<1>1. PICK x :
        /\ x \in req[p].subs
        /\ req' = [req EXCEPT ![p].subs = @ \ {x},
             ![p].at = IF req[p].subs = {x} THEN "reset.unfix" ELSE @]
        /\ subs' = IF subs[x].state = "active"
                   THEN [subs EXCEPT ![x].state = "archived"] ELSE subs
  BY DEF ResetArchive
<1>2. PICK t : t = req[p].team
  OBVIOUS
<1>3. PICK X : X = req[p].subs \ {x}
  OBVIOUS
<1>4. PICK a : a = IF req[p].subs = {x} THEN "reset.unfix" ELSE req[p].at
  OBVIOUS
<1>5. PICK n : n = [req[p] EXCEPT !.subs = X]
  OBVIOUS
<1>6. PICK r : r = [n EXCEPT !.at = a]
  OBVIOUS
<1>7. req[p].subs \in SUBSET SubIds
  BY <1>0 DEF Request
<1>8. /\ t \in TeamIds /\ team[t].state # "unused" /\ req[p].who \in Students /\ x \in SubIds
      /\ \A y \in req[p].subs : /\ subs[y].state # "unused"
                                /\ subs[y].state = "active" => subs[y].team = t
  BY <1>0, <1>1, <1>2, <1>7 DEF ReqOK, Nameless, Responding
<1>9. n \in Request /\ n.who = req[p].who /\ n.team = t /\ n.subs = X
  <2>1. X \in SUBSET SubIds
    BY <1>3, <1>7
  <2>2. n \in Request
    BY <1>0, <1>5, <2>1, TakesSubs
  <2> QED BY <1>0, <1>2, <1>5, <2>2 DEF Request
<1>10. a \in Places /\ a \in {"reset.archive", "reset.unfix"}
  BY <1>0, <1>4 DEF Places
<1>11. r \in Request /\ r.at = a /\ r.who = req[p].who /\ r.team = t /\ r.subs = X
  <2>1. r \in Request
    BY <1>6, <1>9, <1>10, AtPlace
  <2> QED BY <1>6, <1>9, <2>1 DEF Request
<1>12. Moves(p, r)
  <2>1. req' = [req EXCEPT ![p] = r]
    BY <1>1, <1>3, <1>4, <1>5, <1>6
  <2> QED BY <1>11, <2>1 DEF Moves
<1>13. req'[p] = r /\ req[p].at \notin Seating /\ At(p, t, Drafting)'
  BY <1>0, <1>10, <1>11, <1>12, MovesTo DEF TeamsInv, Seating, At, Drafting
<1>14. CASE subs[x].state # "active"
  <2>1. subs' = subs
    BY <1>1, <1>14
  <2>2. ReqOK(r)
    BY <1>3, <1>8, <1>10, <1>11
    DEF ReqOK, Nameless, Dropping, Responding, Seating, Fixing, Inviting
  <2>3. SeatsKept(p) /\ DraftsKept(p)
    <3>1. \A u \in TeamIds : At(p, u, Drafting) => u = t
      BY <1>2 DEF At
    <3> QED BY <1>0, <1>13, <2>1, <3>1 DEF SeatsKept, DraftsKept, At, Exists, Active
  <2> QED BY <1>0, <1>12, <2>1, <2>2, <2>3, NoWrites DEF TeamsInv, TypeOK
<1>15. CASE subs[x].state = "active"
  <2>1. PICK row : row = [subs[x] EXCEPT !.state = "archived"]
    OBVIOUS
  <2>2. subs[x] \in SubRow
    BY <1>8 DEF TeamsInv, TypeOK
  <2>3. row \in SubRow /\ row.state = "archived" /\ row.team = subs[x].team
    BY <2>1, <2>2 DEF SubRow
  <2>4. subs' = [subs EXCEPT ![x] = row]
    BY <1>1, <1>15, <2>1
  <2>5. subs'[x] = row /\ \A y \in SubIds \ {x} : subs'[y] = subs[y]
    BY <1>8, <2>4 DEF TeamsInv, TypeOK
  <2>6. ReqOK(r)'
    <3>1. \A y \in X : /\ subs'[y].state # "unused"
                       /\ subs'[y].state = "active" => subs'[y].team = t
      BY <1>3, <1>7, <1>8, <2>5
    <3> QED BY <1>0, <1>8, <1>10, <1>11, <3>1
        DEF ReqOK, Nameless, Dropping, Responding, Seating, Fixing, Inviting
  <2>7. DraftsKept(p)
    <3>1. \A u \in TeamIds \ {t} : Active(u) \subseteq Active(u)'
      BY <1>1, <1>8, <2>5 DEF Active
    <3>2. \A u \in TeamIds : At(p, u, Drafting) => u = t
      BY <1>2 DEF At
    <3>3. \A u \in TeamIds \ {t} : Active(u) # {} => Active(u)' # {}
      BY <3>1
    <3> QED BY <1>0, <1>13, <3>2, <3>3 DEF DraftsKept
  <2> QED BY <1>0, <1>8, <1>12, <1>13, <2>3, <2>4, <2>6, <2>7, SubWriteKeepsInv
      DEF TeamsInv, TypeOK
<1> QED BY <1>14, <1>15

LEMMA LetterKeepsInv ==
  ASSUME TeamsInv, NEW x \in SubIds, LetterArrives(x)
  PROVE  TeamsInv'
<1>0. UNCHANGED <<team, members, req, answer, crashed>>
  BY DEF LetterArrives, history
<1>1. PICK row : row = [subs[x] EXCEPT !.letter = TRUE]
  OBVIOUS
<1>2. subs[x] \in SubRow /\ subs[x].state \in {"active", "archived"}
  BY DEF TeamsInv, TypeOK, LetterArrives
<1>3. row \in SubRow /\ row.state = subs[x].state /\ row.team = subs[x].team
  <2>1. PICK s \in SubRow : s = subs[x]
    BY <1>2
  <2>2. row = [s EXCEPT !.letter = TRUE]
    BY <1>1, <2>1
  <2> QED BY <2>1, <2>2 DEF SubRow
<1>4. subs' = [subs EXCEPT ![x] = row]
  BY <1>1 DEF LetterArrives
<1>5. /\ subs' \in [SubIds -> SubRow] /\ subs'[x] = row
      /\ \A y \in SubIds \ {x} : subs'[y] = subs[y]
      /\ RowsOK' /\ Lasting
  BY <1>0, <1>2, <1>3, <1>4, SubWriteLasts
<1>6. TypeOK'
  BY <1>0, <1>5 DEF TeamsInv, TypeOK
<1>7. ReqsOK'
  <2> SUFFICES ASSUME NEW q \in Requests PROVE ReqOK(req[q])'
    BY DEF ReqsOK
  <2>1. PICK k \in Request : k = req[q] /\ ReqOK(k)
    BY DEF TeamsInv, TypeOK, ReqsOK
  <2>2. ReqOK(k)'
    BY <1>5, <2>1, StillKnows DEF TeamsInv
  <2>3. k = req'[q]
    BY <1>0, <2>1
  <2> QED BY <2>2, <2>3 DEF ReqOK
<1>8. LeaderSeated'
  BY <1>0 DEF TeamsInv, LeaderSeated, Exists, Seated, RowsOf, Live
<1>9. FixedTeamHasDraft'
  <2>1. \A t \in TeamIds : Active(t) \subseteq Active(t)'
    BY <1>3, <1>5 DEF Active
  <2>2. \A t \in TeamIds : Active(t) # {} => Active(t)' # {}
    BY <2>1
  <2> SUFFICES ASSUME NEW t \in TeamIds, team'[t].state = "FIXED", Active(t)' = {},
                      t \notin crashed'
               PROVE  \E q \in Requests : At(q, t, Drafting)'
    BY DEF FixedTeamHasDraft, At, Drafting
  <2>3. PICK q \in Requests : At(q, t, Drafting)
    BY <1>0, <2>2 DEF TeamsInv, FixedTeamHasDraft, At, Drafting
  <2> QED BY <1>0, <2>3 DEF At
<1> QED BY <1>5, <1>6, <1>7, <1>8, <1>9 DEF TeamsInv

-----------------------------------------------------------------------------
LEMMA StepsKeepInv ==
  ASSUME TeamsInv, NEW p \in Requests, Step(p)
  PROVE  TeamsInv'
BY ReadsKeepInv, InsertTeamKeepsInv, InsertLeaderKeepsInv, DropsKeepInv, RowDeletesKeepInv,
   FinalizeFixKeepsInv, FinalizeLookKeepsInv, DraftsKeepInv, InviteLookKeepsInv,
   InsertsKeepInv, RespondLookKeepsInv, DisbandKeepsInv, RespondWriteKeepsInv,
   ResetLookKeepsInv, ArchiveKeepsInv, ResetUnfixKeepsInv DEF Step

LEMMA NextKeepsInv == TeamsInv /\ [Next]_vars => TeamsInv'
<1>1. ASSUME TeamsInv, UNCHANGED vars PROVE TeamsInv'
  <2>1. UNCHANGED <<team, members, subs, req, answer, crashed>>
    BY <1>1 DEF vars
  <2>2. TypeOK' /\ RowsOK'
    BY <1>1, <2>1 DEF TeamsInv, TypeOK, RowsOK, RowOK, Live, Exists
  <2>3. ReqsOK'
    <3> SUFFICES ASSUME NEW q \in Requests PROVE ReqOK(req[q])'
      BY DEF ReqsOK
    <3>1. ReqOK(req[q])
      BY <1>1 DEF TeamsInv, ReqsOK
    <3> QED BY <2>1, <3>1 DEF ReqOK, Live, MayAnswer, Exists, Seated, RowsOf
  <2>4. LeaderSeated'
    BY <1>1, <2>1 DEF TeamsInv, LeaderSeated, Exists, Seated, RowsOf, Live
  <2>5. FixedTeamHasDraft'
    BY <1>1, <2>1 DEF TeamsInv, FixedTeamHasDraft, Active
  <2> QED BY <2>2, <2>3, <2>4, <2>5 DEF TeamsInv
<1>2. ASSUME TeamsInv, NEW p \in Requests, Step(p) \/ Die(p) \/ \E s \in Students : Call(p, s)
      PROVE  TeamsInv'
  BY <1>2, StepsKeepInv, DieKeepsInv, CallsKeepInv
<1>3. ASSUME TeamsInv, NEW x \in SubIds, LetterArrives(x) PROVE TeamsInv'
  BY <1>3, LetterKeepsInv
<1> QED BY <1>1, <1>2, <1>3 DEF Next

LEMMA TeamsInvHolds == Spec => []TeamsInv
BY TeamsInitially, NextKeepsInv, PTL DEF Spec
(* Every variable keeps its type.                                          *)
THEOREM TeamTypesHold == Spec => []TypeOK
BY TeamsInvHolds, PTL DEF TeamsInv

(* An accepted member and the leader agreed: one made the row and the      *)
(* other answered it, however the requests of both overlap.                *)
THEOREM ConsentIsAlwaysMutual == Spec => []TwoPartyConsent
<1>1. TeamsInv => TwoPartyConsent
  <2> SUFFICES ASSUME TeamsInv, NEW m \in RowIds, members[m].state = "ACCEPTED",
                      members[m].role = "ANGGOTA"
               PROVE  {members[m].by, answer[m]} =
                        {members[m].student, team[members[m].team].leader}
    BY DEF TwoPartyConsent
  <2>1. Live(m) /\ RowOK(m)
    BY DEF Live, InvitationStatus, TeamsInv, RowsOK
  <2> QED BY <2>1 DEF RowOK
<1> QED BY <1>1, TeamsInvHolds, PTL

(* A team keeps its leader's row, unless createTeam has not inserted it or *)
(* died before it did.                                                     *)
THEOREM LeaderAlwaysSeated == Spec => []LeaderSeated
BY TeamsInvHolds, PTL DEF TeamsInv

(* A FIXED team has its draft, unless a finalization or a reset is at it   *)
(* or died there.                                                          *)
THEOREM FixedTeamAlwaysHasDraft == Spec => []FixedTeamHasDraft
BY TeamsInvHolds, PTL DEF TeamsInv

-----------------------------------------------------------------------------
(* Only five kinds of step touch the rows of a team that stays.            *)
LEMMA RowsChange ==
  ASSUME TeamsInv, [Next]_vars, NEW m \in RowIds, NEW t \in TeamIds, m \in RowsOf(t),
         ~Live(m)', Exists(t)'
  PROVE  \E p \in Requests : RowDelete(p) \/ InviteDrop(p)
<1>0. members[m].state # "unused" /\ members'[m] # members[m] /\ m \in RowIds
  BY DEF RowsOf, Live, InvitationStatus
<1>1. ASSUME NEW u, NEW s, NEW role, NEW state, NEW by, InsertMember(u, s, role, state, by)
      PROVE  FALSE
  BY <1>0, <1>1 DEF InsertMember, FreeRows, TeamsInv, TypeOK
<1>2. ASSUME NEW u, DropTeam(u) PROVE FALSE
  <2>1. CASE u = t
    BY <2>1, <1>2 DEF DropTeam, Exists, TeamsInv, TypeOK
  <2>2. CASE u # t
    BY <1>0, <1>2, <2>2 DEF DropTeam, RowsOf
  <2> QED BY <2>1, <2>2
<1>3. ASSUME NEW p \in Requests, RespondWrite(p) PROVE FALSE
  <2>1. Live(req[p].row) /\ members' = [members EXCEPT ![req[p].row].state =
          IF req[p].accept THEN "ACCEPTED" ELSE "REJECTED"]
    BY <1>0, <1>3 DEF RespondWrite
  <2>2. members'[m].state \in InvitationStatus
    BY <1>0, <2>1 DEF TeamsInv, TypeOK, MemberRow, InvitationStatus
  <2> QED BY <2>2 DEF Live
<1>4. PICK p \in Requests : Step(p)
  <2>1. ASSUME NEW p \in Requests, NEW s \in Students, Call(p, s) PROVE members' = members
    BY <2>1 DEF Call, CreateBegin, LeaveBegin, RemoveBegin, CancelBegin, RespondBegin,
       DeleteBegin, FinalizeBegin, JoinBegin, DraftBegin, ResetBegin, InviteBegin, tables
  <2>2. ASSUME NEW p \in Requests, Die(p) PROVE members' = members
    BY <2>2 DEF Die, tables
  <2>3. ASSUME NEW x \in SubIds, LetterArrives(x) PROVE members' = members
    BY <2>3 DEF LetterArrives
  <2> QED BY <1>0, <2>1, <2>2, <2>3 DEF Next, vars
<1>5. ASSUME \/ CreateMemberships(p) \/ CreateInsertTeam(p) \/ DeleteLetters(p)
             \/ FinalizeFix(p) \/ FinalizeLook(p) \/ FinalizeInsert(p) \/ InviteLook(p)
             \/ RespondLook(p) \/ JoinMemberships(p) \/ JoinCount(p) \/ DraftMember(p)
             \/ DraftLook(p) \/ DraftInsert(p) \/ ResetLook(p) \/ ResetArchive(p)
             \/ ResetUnfix(p)
      PROVE  members' = members
  BY <1>5 DEF CreateMemberships, CreateInsertTeam, DeleteLetters, FinalizeFix, FinalizeLook,
     FinalizeInsert, InviteLook, RespondLook, JoinMemberships, JoinCount, DraftMember,
     DraftLook, DraftInsert, ResetLook, ResetArchive, ResetUnfix, tables
<1>6. ASSUME \/ CreateInsertLeader(p) \/ InviteInsert(p) \/ JoinInsert(p)
      PROVE  members' = members
  BY <1>1, <1>6 DEF CreateInsertLeader, InviteInsert, JoinInsert
<1>7. ASSUME CreateRollback(p) \/ DeleteTeamRow(p) \/ RespondDisband(p)
      PROVE  members' = members
  BY <1>2, <1>7 DEF CreateRollback, DeleteTeamRow, RespondDisband, tables
<1> QED BY <1>0, <1>3, <1>4, <1>5, <1>6, <1>7 DEF Step

(* A row that goes while its team stays was deleted for its own student or *)
(* for the leader: what authorized the request still holds many statements *)
(* later.                                                                  *)
THEOREM RowsAlwaysRemovedByParties == Spec => RemovedByItsParties
<1> DEFINE ByParties ==
      \A m \in RowIds, t \in TeamIds :
        m \in RowsOf(t) /\ ~Live(m)' /\ Exists(t)' =>
          \E p \in Requests :
            /\ req[p].row = m /\ req[p].at \in {"row.delete", "invite.drop"}
            /\ req[p].who \in {members[m].student, team[t].leader}
<1>1. TeamsInv /\ [Next]_vars => [ByParties]_vars
  <2> SUFFICES ASSUME TeamsInv, [Next]_vars, NEW m \in RowIds, NEW t \in TeamIds,
                      m \in RowsOf(t), ~Live(m)', Exists(t)'
               PROVE  \E p \in Requests :
                        /\ req[p].row = m /\ req[p].at \in {"row.delete", "invite.drop"}
                        /\ req[p].who \in {members[m].student, team[t].leader}
    OBVIOUS
  <2>1. PICK p \in Requests : RowDelete(p) \/ InviteDrop(p)
    BY RowsChange
  <2>2. Live(m) /\ members[m].team = t /\ members'[m] # members[m]
    BY DEF RowsOf, Live
  <2>3. req[p].row = m /\ req[p].at \in {"row.delete", "invite.drop"}
    BY <2>1, <2>2 DEF RowDelete, InviteDrop, DropRow, TeamsInv, TypeOK
  <2>4. req[p].who \in {members[m].student, team[t].leader}
    BY <2>2, <2>3 DEF TeamsInv, ReqsOK, ReqOK, Dropping
  <2> QED BY <2>3, <2>4
<1>2. Spec => [][ByParties]_vars
  BY <1>1, TeamsInvHolds, PTL DEF Spec
<1> QED BY <1>2 DEF RemovedByItsParties
-----------------------------------------------------------------------------
(* The pages: what the rows of a team that has its leader's row say.       *)

LEMMA KnownTeam ==
  ASSUME TeamsInv, NEW t \in TeamIds, Known(t)
  PROVE  /\ Effective(RowsOf(t)) = Accepted(t)
         /\ Heads(Accepted(t)) = {team[t].leader}
         /\ RowsOf(t) # {} /\ team[t].leader \in Students
         /\ Accepted(t) \cap RowsFor(t, team[t].leader) # {}
<1>1. PICK k \in RowsOf(t) : members[k].role = "KETUA"
  BY DEF Known, Seated
<1>2. \A m \in RowsOf(t) : /\ m \in RowIds /\ Live(m) /\ members[m].team = t
                           /\ members[m].student \in Students
                           /\ members[m].role = "KETUA" =>
                                /\ members[m].state = "ACCEPTED"
                                /\ members[m].student = team[t].leader
  BY DEF RowsOf, TeamsInv, RowsOK, RowOK
<1>3. /\ k \in Accepted(t) /\ k \in RowsFor(t, team[t].leader)
      /\ team[t].leader \in Students
  BY <1>1, <1>2 DEF Accepted, RowsFor
<1>4. Effective(RowsOf(t)) = Accepted(t)
  BY <1>3 DEF Effective, Accepted
<1>5. Heads(Accepted(t)) = {team[t].leader}
  <2>1. PICK K : K = {m \in Accepted(t) : members[m].role = "KETUA"}
    OBVIOUS
  <2>2. k \in K /\ \A m \in K : members[m].student = team[t].leader
    BY <1>1, <1>2, <1>3, <2>1 DEF Accepted
  <2>3. Who(K) = {team[t].leader}
    BY <2>2 DEF Who
  <2>4. K # {}
    BY <2>2
  <2> QED BY <2>1, <2>3, <2>4 DEF Heads
<1> QED BY <1>3, <1>4, <1>5

(* The letters and the dashboard name the same people.                     *)
LEMMA LettersAgree ==
  ASSUME TeamsInv, NEW t \in TeamIds, Known(t)
  PROVE  LET doc == CoverLetter(t) IN
         /\ doc = [names |-> DashboardMembers(t), head |-> {team[t].leader}]
         /\ AnswerPage(t, Snapshot(t)) = doc
         /\ \A s \in doc.names : <<s, "SURAT_KESEDIAAN">> \in LetterCards(t)
<1>1. PICK leader : leader = team[t].leader
  OBVIOUS
<1>2. PICK doc : doc = [names |-> DashboardMembers(t), head |-> {leader}]
  OBVIOUS
<1>3. CoverLetter(t) = doc /\ Snapshot(t) = doc
  BY <1>1, <1>2, KnownTeam DEF CoverLetter, Snapshot, DashboardMembers
<1>4. doc.names = Who(Accepted(t)) /\ doc.head = {leader} /\ {leader} # {}
  BY <1>2 DEF DashboardMembers
<1>5. AnswerPage(t, doc) = doc
  <2>1. Shown(t, doc) = DashboardMembers(t)
    BY KnownTeam DEF Shown, DashboardMembers
  <2>2. doc.head # {}
    BY <1>4
  <2> QED BY <1>2, <1>4, <2>1, <2>2 DEF AnswerPage
<1> QED BY <1>1, <1>2, <1>3, <1>4, <1>5 DEF LetterCards

(* A student of one team who leads no broken one finds it everywhere.      *)
LEMMA DashboardsAgree ==
  ASSUME TeamsInv, NEW s \in Students, Cardinality(JoinedTeams(s)) = 1,
         \A t \in Led(s) : Known(t)
  PROVE  DashboardTeams(s) = JoinedTeams(s) /\ KesediaanTeams(s, s) = QueueTeams(s)
<1>1. IsFiniteSet(JoinedTeams(s))
  <2>1. JoinedTeams(s) \subseteq TeamIds
    BY DEF JoinedTeams
  <2> QED BY <2>1, BoundsAssumption, FS_Subset
<1>2. PICK u : JoinedTeams(s) = {u}
  BY <1>1, FS_Singleton
<1>3. Led(s) \subseteq {u}
  <2> SUFFICES ASSUME NEW t \in Led(s) PROVE t \in JoinedTeams(s)
    BY <1>2
  <2>1. t \in TeamIds /\ Known(t) /\ team[t].leader = s
    BY DEF Led
  <2> QED BY <2>1, KnownTeam DEF JoinedTeams
<1>4. JoinedTeams(s) \cup Led(s) = {u}
  BY <1>2, <1>3
<1>5. DashboardTeams(s) = {u}
  <2>1. PICK busy : busy = {t \in {u} : Active(t) # {}}
    OBVIOUS
  <2>2. PICK among : among = IF busy = {} THEN {u} ELSE busy
    OBVIOUS
  <2>3. among = {u}
    BY <2>1, <2>2
  <2>4. PICK fixed : fixed = {t \in among : team[t].state = "FIXED"}
    OBVIOUS
  <2>5. DashboardTeams(s) = IF fixed = {} THEN among ELSE fixed
    BY <1>4, <2>1, <2>2, <2>4 DEF DashboardTeams
  <2> QED BY <2>3, <2>4, <2>5
<1>6. KesediaanTeams(s, s) = {u}
  <2>1. PICK fixed : fixed = {t \in {u} : team[t].state = "FIXED"}
    OBVIOUS
  <2>2. JoinedTeams(s) \cap JoinedTeams(s) = {u}
    BY <1>2
  <2>3. KesediaanTeams(s, s) = IF fixed = {} THEN {u} ELSE fixed
    BY <2>1, <2>2 DEF KesediaanTeams
  <2> QED BY <2>1, <2>3
<1> QED BY <1>2, <1>5, <1>6 DEF QueueTeams

(* What waits for an answer is shown to somebody who may give it.          *)
LEMMA SomebodyAnswers ==
  ASSUME TeamsInv, NEW m \in RowIds, members[m].state = "PENDING", Known(members[m].team)
  PROVE  \E s \in Students :
           /\ MayAnswer(s, m)
           /\ \/ m \in Inbox(s)
              \/ members[m].team \in JoinedTeams(s) /\ m \in TeamPage(members[m].team)
<1>1. PICK t : t = members[m].team
  OBVIOUS
<1>2. Live(m) /\ t \in TeamIds /\ Exists(t) /\ members[m].student \in Students
  BY <1>1 DEF Live, InvitationStatus, TeamsInv, RowsOK, RowOK
<1>3. CASE members[m].by = team[t].leader
  BY <1>1, <1>2, <1>3 DEF MayAnswer, Inbox
<1>4. CASE members[m].by # team[t].leader
  <2>1. team[t].leader \in Students /\ t \in JoinedTeams(team[t].leader)
    BY <1>1, <1>2, KnownTeam DEF JoinedTeams
  <2>2. MayAnswer(team[t].leader, m) /\ m \in TeamPage(t)
    BY <1>1, <1>2, <1>4 DEF MayAnswer, TeamPage, RowsOf
  <2> QED BY <1>1, <2>1, <2>2
<1> QED BY <1>3, <1>4

(* A team that has its leader's row is the same in the letters, on the     *)
(* dashboard and in the lists, whatever overlapping requests left in the   *)
(* tables, and no invitation or request to join is out of everyone's sight.*)
THEOREM PagesAlwaysAgree == Spec => []PagesAgree
<1>1. TeamsInv => PagesAgree
  BY LettersAgree, DashboardsAgree, SomebodyAnswers DEF PagesAgree
<1> QED BY <1>1, TeamsInvHolds, PTL
-----------------------------------------------------------------------------
(* Requests that do not overlap                                            *)

(* The claims at the end of Teams are refuted by overlapping requests.     *)
(* Two of them are kept by every behaviour in which requests run one after *)
(* the other: what a request has looked up is then still true when it      *)
(* writes (CalmOK).                                                        *)
OneAtATime ==
  \A p, q \in Requests : req[p].at # "idle" /\ req[q].at # "idle" => p = q

Inserting == {"finalize.insert", "draft.insert"}

CalmOK(r) ==
  /\ r.at \in Inserting => Active(r.team) = {}
  /\ r.at \in Responding /\ Live(r.row) => members[r.row].state = "PENDING"

Calm ==
  /\ \A p \in Requests : CalmOK(req[p])
  /\ \A t \in TeamIds : \A x, y \in Active(t) : x = y

LEMMA Lands ==
  ASSUME TypeOK, NEW p \in Requests, NEW place, Goto(p, place)
  PROVE  /\ req'[p].at = place /\ req'[p].team = req[p].team /\ req'[p].row = req[p].row
         /\ \A q \in Requests \ {p} : req'[q] = req[q]
<1>1. req[p] \in Request /\ req' = [req EXCEPT ![p] = [req[p] EXCEPT !.at = place]]
  BY DEF TypeOK, Goto
<1> QED BY <1>1 DEF TypeOK, Request

LEMMA Ends ==
  ASSUME TypeOK, NEW p \in Requests, Done(p)
  PROVE  req'[p].at = "idle" /\ \A q \in Requests \ {p} : req'[q] = req[q]
BY IdleOK DEF TypeOK, Done

LEMMA Begins ==
  ASSUME TypeOK, NEW p \in Requests, NEW r, Begin(p, r)
  PROVE  /\ req[p].at = "idle" /\ req'[p] = r
         /\ \A q \in Requests \ {p} : req'[q] = req[q]
BY DEF TypeOK, Begin

(* Most steps end a request or send it to a place where it has found       *)
(* nothing that it relies on; they add no draft and change no row that was *)
(* there, except that they may delete one.                                 *)
Shrinks ==
  /\ \A t \in TeamIds : Active(t)' \subseteq Active(t)
  /\ \A m \in RowIds : members'[m] = members[m] \/ members[m].state = "unused"
                       \/ members'[m].state = "deleted"

Careless == Places \ (Inserting \cup Responding)

LEMMA DropShrinks == ASSUME TypeOK, NEW t, DropTeam(t) PROVE Shrinks
<1>1. \A m \in RowIds : members'[m] = members[m] \/ members'[m].state = "deleted"
  BY DEF DropTeam, NoMember
<1>2. \A x \in SubIds : subs'[x] = subs[x] \/ subs'[x].state = "deleted"
  BY DEF DropTeam, NoSub
<1> QED BY <1>1, <1>2 DEF Shrinks, Active

LEMMA SameShrinks == ASSUME UNCHANGED <<members, subs>> PROVE Shrinks
BY DEF Shrinks, Active

LEMMA RowsShrink ==
  ASSUME TypeOK, UNCHANGED subs,
         \/ UNCHANGED members
         \/ \E m \in RowIds : DropRow(m)
         \/ \E t, s, role, state, by : InsertMember(t, s, role, state, by)
  PROVE  Shrinks
<1>1. \A t \in TeamIds : Active(t)' \subseteq Active(t)
  BY DEF Active
<1>2. ASSUME NEW m \in RowIds, DropRow(m) PROVE Shrinks
  BY <1>1, <1>2 DEF Shrinks, DropRow, NoMember, TypeOK
<1>3. ASSUME NEW t, NEW s, NEW role, NEW state, NEW by, InsertMember(t, s, role, state, by)
      PROVE  Shrinks
  BY <1>1, <1>3 DEF Shrinks, InsertMember, FreeRows, TypeOK
<1> QED BY <1>2, <1>3, SameShrinks

(* Where a step of request p leaves it, and the other requests.            *)
Leaves(p, places) ==
  /\ req[p].at # "idle" /\ req'[p].at \in places
  /\ \A q \in Requests \ {p} : req'[q] = req[q]

LEMMA CarelessSteps ==
  ASSUME TeamsInv, NEW p \in Requests,
         \/ CreateMemberships(p) \/ CreateInsertTeam(p) \/ CreateInsertLeader(p)
         \/ CreateRollback(p) \/ RowDelete(p) \/ DeleteLetters(p) \/ DeleteTeamRow(p)
         \/ FinalizeFix(p) \/ InviteLook(p) \/ InviteDrop(p) \/ InviteInsert(p)
         \/ JoinMemberships(p) \/ JoinCount(p) \/ JoinInsert(p) \/ DraftMember(p)
         \/ ResetLook(p) \/ ResetUnfix(p) \/ Die(p)
  PROVE  Shrinks /\ Leaves(p, Careless)
<1>0. TypeOK /\ req[p] \in Request /\ req \in [Requests -> Request]
  BY DEF TeamsInv, TypeOK
<1>1. \A place \in Careless : Goto(p, place) /\ req[p].at # "idle" => Leaves(p, Careless)
  BY <1>0, Lands DEF Leaves
<1>2. Done(p) /\ req[p].at # "idle" => Leaves(p, Careless)
  BY <1>0, Ends DEF Leaves, Careless, Places, Inserting, Responding
<1>3. /\ "create.team" \in Careless /\ "create.member" \in Careless
      /\ "create.rollback" \in Careless /\ "team.delete" \in Careless
      /\ "finalize.look" \in Careless /\ "invite.drop" \in Careless
      /\ "invite.insert" \in Careless /\ "join.count" \in Careless
      /\ "join.insert" \in Careless /\ "draft.look" \in Careless
      /\ "reset.unfix" \in Careless /\ "reset.archive" \in Careless
  BY DEF Careless, Places, Inserting, Responding
<1>4. Leaves(p, Careless)
  <2>1. CASE \/ CreateMemberships(p) \/ CreateInsertLeader(p) \/ CreateRollback(p)
             \/ RowDelete(p) \/ DeleteLetters(p) \/ DeleteTeamRow(p) \/ FinalizeFix(p)
    BY <1>1, <1>2, <1>3, <2>1 DEF CreateMemberships, CreateInsertLeader, CreateRollback,
       RowDelete, DeleteLetters, DeleteTeamRow, FinalizeFix, Proceed
  <2>2. CASE InviteDrop(p) \/ InviteInsert(p) \/ JoinInsert(p) \/ ResetUnfix(p) \/ Die(p)
    BY <1>1, <1>2, <1>3, <2>2 DEF InviteDrop, InviteInsert, JoinInsert, ResetUnfix, Die
  <2>7. CASE JoinMemberships(p) \/ JoinCount(p)
    BY <1>1, <1>2, <1>3, <2>7 DEF JoinMemberships, JoinCount, Proceed
  <2>6. CASE DraftMember(p)
    <3>1. req[p].at = "draft.member" /\ (Done(p) \/ Goto(p, "draft.look"))
      BY <2>6 DEF DraftMember, Proceed
    <3> QED BY <1>1, <1>2, <1>3, <3>1
  <2>3. CASE CreateInsertTeam(p)
    <3>1. PICK t : req' = [req EXCEPT ![p].at = "create.member", ![p].team = t]
      BY <2>3 DEF CreateInsertTeam
    <3>2. req'[p].at = "create.member" /\ \A q \in Requests \ {p} : req'[q] = req[q]
      BY <1>0, <3>1 DEF Request
    <3>3. req[p].at # "idle"
      BY <2>3 DEF CreateInsertTeam
    <3> QED BY <1>3, <3>2, <3>3 DEF Leaves
  <2>4. CASE InviteLook(p)
    <3>1. ASSUME NEW m, req' = [req EXCEPT ![p].at = "invite.drop", ![p].row = m]
          PROVE  req'[p].at = "invite.drop" /\ \A q \in Requests \ {p} : req'[q] = req[q]
      BY <1>0, <3>1 DEF Request
    <3> QED BY <1>1, <1>2, <1>3, <2>4, <3>1 DEF InviteLook, Leaves
  <2>5. CASE ResetLook(p)
    <3>1. ASSUME NEW X, NEW a, req' = [req EXCEPT ![p].subs = X, ![p].at = a]
          PROVE  req'[p].at = a /\ \A q \in Requests \ {p} : req'[q] = req[q]
      BY <1>0, <3>1 DEF Request
    <3>2. CASE ~Exists(req[p].team)
      BY <1>2, <2>5, <3>2 DEF ResetLook, Done
    <3>3. CASE Exists(req[p].team)
      <4>1. PICK X : X = Active(req[p].team)
        OBVIOUS
      <4>2. PICK a : a = IF X = {} THEN "reset.unfix" ELSE "reset.archive"
        OBVIOUS
      <4>3. req' = [req EXCEPT ![p].subs = X, ![p].at = a] /\ req[p].at # "idle"
        BY <2>5, <3>3, <4>1, <4>2 DEF ResetLook
      <4> QED BY <1>3, <3>1, <4>2, <4>3 DEF Leaves
    <3> QED BY <3>2, <3>3
  <2> QED BY <2>1, <2>2, <2>3, <2>4, <2>5, <2>6, <2>7
<1>5. Shrinks
  <2>1. CASE CreateRollback(p) \/ DeleteTeamRow(p)
    BY <1>0, <2>1, DropShrinks, SameShrinks DEF CreateRollback, DeleteTeamRow, tables
  <2>2. CASE RowDelete(p) \/ InviteDrop(p)
    <3>1. req[p].at \in Dropping /\ req[p].row \in RowIds
      BY <2>2 DEF RowDelete, InviteDrop, TeamsInv, ReqsOK, ReqOK, Dropping
    <3> QED BY <1>0, <2>2, <3>1, RowsShrink DEF RowDelete, InviteDrop
  <2>3. CASE CreateInsertLeader(p) \/ InviteInsert(p) \/ JoinInsert(p)
    BY <1>0, <2>3, RowsShrink DEF CreateInsertLeader, InviteInsert, JoinInsert
  <2>4. CASE \/ CreateMemberships(p) \/ CreateInsertTeam(p) \/ DeleteLetters(p)
             \/ FinalizeFix(p) \/ InviteLook(p) \/ JoinMemberships(p) \/ JoinCount(p)
             \/ DraftMember(p) \/ ResetLook(p) \/ ResetUnfix(p) \/ Die(p)
    BY <2>4, SameShrinks DEF CreateMemberships, CreateInsertTeam, DeleteLetters, FinalizeFix,
       InviteLook, JoinMemberships, JoinCount, DraftMember, ResetLook, ResetUnfix, Die, tables
  <2> QED BY <2>1, <2>2, <2>3, <2>4
<1> QED BY <1>4, <1>5
LEMMA OthersCalm ==
  ASSUME TeamsInv, Calm, OneAtATime, OneAtATime', NEW p \in Requests,
         \A q \in Requests \ {p} : req'[q] = req[q],
         req[p].at # "idle" \/ req'[p].at # "idle",
         CalmOK(req[p])', \A t \in TeamIds : \A x, y \in Active(t)' : x = y
  PROVE  Calm'
<1> SUFFICES ASSUME NEW q \in Requests \ {p} PROVE CalmOK(req[q])'
  BY DEF Calm
<1>1. req'[q].at = "idle"
  BY DEF OneAtATime
<1> QED BY <1>1 DEF CalmOK, Inserting, Responding

LEMMA ShrinkingKeepsCalm ==
  ASSUME TeamsInv, Calm, OneAtATime, OneAtATime', NEW p \in Requests, Shrinks,
         Leaves(p, Careless)
  PROVE  Calm'
<1>1. CalmOK(req[p])'
  BY DEF Leaves, Careless, CalmOK
<1>2. \A t \in TeamIds : \A x, y \in Active(t)' : x = y
  BY DEF Calm, Shrinks
<1> QED BY <1>1, <1>2, OthersCalm DEF Leaves

(* finalizeTeam and createSubmission look for a draft, then insert one.    *)
LEMMA DraftingKeepsCalm ==
  ASSUME TeamsInv, Calm, OneAtATime, OneAtATime', NEW p \in Requests,
         FinalizeLook(p) \/ DraftLook(p) \/ FinalizeInsert(p) \/ DraftInsert(p)
  PROVE  Calm'
<1>0. TypeOK /\ CalmOK(req[p]) /\ req[p].at # "idle"
  BY DEF TeamsInv, Calm, FinalizeLook, DraftLook, FinalizeInsert, DraftInsert
<1>1. CASE FinalizeLook(p) \/ DraftLook(p)
  <2>1. UNCHANGED <<members, subs>> /\ Shrinks
    BY <1>1, SameShrinks DEF FinalizeLook, DraftLook, tables
  <2>2. CASE Done(p)
    <3>1. Leaves(p, Careless)
      BY <1>0, <2>2, Ends DEF Leaves, Careless, Places, Inserting, Responding
    <3> QED BY <2>1, <3>1, ShrinkingKeepsCalm
  <2>3. CASE ~Done(p)
    <3>1. PICK place \in Inserting : Goto(p, place) /\ Active(req[p].team) = {}
      BY <1>1, <2>3 DEF FinalizeLook, DraftLook, Proceed, Inserting
    <3>2. /\ req'[p].at = place /\ req'[p].team = req[p].team
          /\ \A q \in Requests \ {p} : req'[q] = req[q]
      BY <1>0, <3>1, Lands
    <3>3. CalmOK(req[p])'
      BY <2>1, <3>1, <3>2 DEF CalmOK, Active, Inserting, Responding
    <3>4. \A t \in TeamIds : \A x, y \in Active(t)' : x = y
      BY <2>1 DEF Calm, Active
    <3> QED BY <1>0, <3>2, <3>3, <3>4, OthersCalm
  <2> QED BY <2>2, <2>3
<1>2. CASE FinalizeInsert(p) \/ DraftInsert(p)
  <2>1. /\ Done(p) /\ UNCHANGED members /\ Active(req[p].team) = {}
        /\ req'[p].at = "idle" /\ \A q \in Requests \ {p} : req'[q] = req[q]
    BY <1>0, <1>2, Ends DEF FinalizeInsert, DraftInsert, CalmOK, Inserting
  <2>2. CASE InsertDraft(req[p].team)
    <3>0. PICK t : t = req[p].team
      OBVIOUS
    <3>1. PICK x \in SubIds :
            /\ \A y \in SubIds \ {x} : subs'[y] = subs[y]
            /\ subs'[x].team = t
      BY <1>0, <2>2, <3>0 DEF InsertDraft, FreeSubs, TypeOK
    <3>2. \A u \in TeamIds : u # t => Active(u)' \subseteq Active(u)
      BY <3>1 DEF Active
    <3>3. Active(t)' \subseteq {x}
      BY <2>1, <3>0, <3>1 DEF Active
    <3>4. \A u \in TeamIds : \A y, z \in Active(u)' : y = z
      BY <3>2, <3>3 DEF Calm
    <3>5. CalmOK(req[p])'
      BY <2>1 DEF CalmOK, Inserting, Responding
    <3> QED BY <1>0, <2>1, <3>4, <3>5, OthersCalm
  <2>3. CASE UNCHANGED subs
    <3>1. Leaves(p, Careless)
      BY <1>0, <2>1 DEF Leaves, Careless, Places, Inserting, Responding
    <3> QED BY <2>1, <2>3, <3>1, SameShrinks, ShrinkingKeepsCalm
  <2> QED BY <1>2, <2>2, <2>3 DEF FinalizeInsert, DraftInsert, history
<1> QED BY <1>1, <1>2

LEMMA ArchivingKeepsCalm ==
  ASSUME TeamsInv, Calm, OneAtATime, OneAtATime', NEW p \in Requests, ResetArchive(p)
  PROVE  Calm'
<1>0. TypeOK /\ req \in [Requests -> Request] /\ req[p] \in Request
  BY DEF TeamsInv, TypeOK
<1>1. PICK x, X, a :
        /\ a \in {"reset.unfix", "reset.archive"}
        /\ req' = [req EXCEPT ![p].subs = X, ![p].at = a]
        /\ subs' = IF subs[x].state = "active"
                   THEN [subs EXCEPT ![x].state = "archived"] ELSE subs
  BY DEF ResetArchive
<1>2. req'[p].at = a /\ \A q \in Requests \ {p} : req'[q] = req[q]
  BY <1>0, <1>1 DEF Request
<1>3. Leaves(p, Careless)
  BY <1>1, <1>2 DEF ResetArchive, Leaves, Careless, Places, Inserting, Responding
<1>4. \A y \in SubIds : subs'[y] = subs[y] \/ subs'[y].state # "active"
  BY <1>0, <1>1 DEF TypeOK, SubRow
<1>5. Shrinks
  BY <1>4 DEF ResetArchive, Shrinks, Active
<1> QED BY <1>3, <1>5, ShrinkingKeepsCalm

(* respondToInvitation read PENDING, and nobody else wrote since.          *)
LEMMA AnsweringKeepsCalm ==
  ASSUME TeamsInv, Calm, OneAtATime, OneAtATime', NEW p \in Requests,
         RespondLook(p) \/ RespondDisband(p) \/ RespondWrite(p)
  PROVE  Calm'
<1>0. /\ TypeOK /\ req \in [Requests -> Request] /\ req[p] \in Request /\ CalmOK(req[p])
      /\ req[p].at \in Responding /\ req[p].row \in RowIds
  BY DEF TeamsInv, TypeOK, Calm, RespondLook, RespondDisband, RespondWrite, Responding,
     ReqsOK, ReqOK
<1>1. CASE RespondWrite(p)
  <2>1. UNCHANGED subs /\ req'[p].at = "idle" /\ \A q \in Requests \ {p} : req'[q] = req[q]
    BY <1>0, <1>1, Ends DEF RespondWrite
  <2>2. CalmOK(req[p])' /\ \A t \in TeamIds : \A x, y \in Active(t)' : x = y
    BY <2>1 DEF CalmOK, Inserting, Responding, Calm, Active
  <2> QED BY <1>0, <2>1, <2>2, OthersCalm DEF Responding
<1>2. CASE RespondLook(p) \/ RespondDisband(p)
  <2>1. ASSUME NEW T, NEW a, req' = [req EXCEPT ![p].teams = T, ![p].at = a]
        PROVE  /\ req'[p].at = a /\ req'[p].row = req[p].row
               /\ \A q \in Requests \ {p} : req'[q] = req[q]
    BY <1>0, <2>1 DEF Request
  <2>2. /\ req'[p].at \in {"respond.write", "respond.disband"} /\ req'[p].row = req[p].row
        /\ \A q \in Requests \ {p} : req'[q] = req[q]
    <3>1. CASE RespondLook(p)
      <4>1. PICK T : T = Led(req[p].who)
        OBVIOUS
      <4>2. PICK a : a = IF T = {} THEN "respond.write" ELSE "respond.disband"
        OBVIOUS
      <4>3. req' = [req EXCEPT ![p].teams = T, ![p].at = a]
        BY <3>1, <4>1, <4>2 DEF RespondLook
      <4> QED BY <2>1, <4>2, <4>3
    <3>2. CASE RespondDisband(p)
      <4>1. PICK t : req' = [req EXCEPT ![p].teams = @ \ {t},
                      ![p].at = IF req[p].teams = {t} THEN "respond.write" ELSE @]
        BY <3>2 DEF RespondDisband
      <4>2. PICK T : T = req[p].teams \ {t}
        OBVIOUS
      <4>3. PICK a : a = IF req[p].teams = {t} THEN "respond.write" ELSE req[p].at
        OBVIOUS
      <4>4. req' = [req EXCEPT ![p].teams = T, ![p].at = a]
        <5>1. PICK n : n = [req[p] EXCEPT !.teams = T]
          OBVIOUS
        <5>2. PICK r : r = [n EXCEPT !.at = a]
          OBVIOUS
        <5>3. req' = [req EXCEPT ![p] = r]
          BY <4>1, <4>2, <4>3, <5>1, <5>2
        <5> QED BY <5>1, <5>2, <5>3
      <4>5. a \in {"respond.write", "respond.disband"}
        BY <3>2, <4>3 DEF RespondDisband
      <4> QED BY <2>1, <4>4, <4>5
    <3> QED BY <1>2, <3>1, <3>2
  <2>3. Shrinks
    BY <1>0, <1>2, DropShrinks, SameShrinks DEF RespondLook, RespondDisband, tables
  <2>4. members[req[p].row].state # "unused"
    BY <1>0 DEF TeamsInv, ReqsOK, ReqOK
  <2>5. CalmOK(req[p])'
    BY <1>0, <2>2, <2>3, <2>4 DEF CalmOK, Inserting, Responding, Shrinks, Live,
       InvitationStatus
  <2>6. \A t \in TeamIds : \A x, y \in Active(t)' : x = y
    BY <2>3 DEF Calm, Shrinks
  <2> QED BY <1>0, <2>2, <2>5, <2>6, OthersCalm DEF Responding
<1> QED BY <1>1, <1>2

LEMMA BeginningKeepsCalm ==
  ASSUME TeamsInv, Calm, OneAtATime, OneAtATime', NEW p \in Requests, NEW r, Begin(p, r),
         UNCHANGED tables, r.at \notin Inserting, r.at # "idle",
         r.at \in Responding => members[r.row].state = "PENDING"
  PROVE  Calm'
<1>1. req'[p] = r /\ \A q \in Requests \ {p} : req'[q] = req[q]
  BY Begins DEF TeamsInv
<1>2. CalmOK(req[p])'
  BY <1>1 DEF CalmOK, tables
<1>3. \A t \in TeamIds : \A x, y \in Active(t)' : x = y
  BY DEF Calm, Active, tables
<1> QED BY <1>1, <1>2, <1>3, OthersCalm

LEMMA CallingKeepsCalm ==
  ASSUME TeamsInv, Calm, OneAtATime, OneAtATime', NEW p \in Requests, NEW s \in Students,
         Call(p, s)
  PROVE  Calm'
<1> DEFINE Begun == \E r : /\ Begin(p, r) /\ r.at \notin Inserting /\ r.at # "idle"
                           /\ r.at \in Responding => members[r.row].state = "PENDING"
<1>1. UNCHANGED tables
  BY DEF Call, CreateBegin, LeaveBegin, RemoveBegin, CancelBegin, RespondBegin,
     DeleteBegin, FinalizeBegin, JoinBegin, DraftBegin, ResetBegin, InviteBegin
<1>2. CASE CreateBegin(p, s)
  <2>1. PICK r : r = [Idle EXCEPT !.at = "create.memberships", !.who = s]
    OBVIOUS
  <2>2. Begin(p, r) /\ r.at = "create.memberships"
    BY <1>2, <2>1 DEF CreateBegin, Idle
  <2> QED BY <1>1, <2>2, BeginningKeepsCalm DEF Inserting, Responding
<1>3. ASSUME NEW m \in RowIds, LeaveBegin(p, s, m) \/ RemoveBegin(p, s, m) \/ CancelBegin(p, s, m)
      PROVE  Calm'
  <2>1. PICK r : r = [Idle EXCEPT !.at = "row.delete", !.who = s, !.row = m,
                                  !.team = members[m].team]
    OBVIOUS
  <2>2. Begin(p, r) /\ r.at = "row.delete"
    BY <1>3, <2>1 DEF LeaveBegin, RemoveBegin, CancelBegin, Idle
  <2> QED BY <1>1, <2>2, BeginningKeepsCalm DEF Inserting, Responding
<1>4. ASSUME NEW m \in RowIds, NEW yes \in BOOLEAN, RespondBegin(p, s, m, yes) PROVE Calm'
  <2>1. PICK a : a = IF yes /\ members[m].student = s THEN "respond.look"
                                                      ELSE "respond.write"
    OBVIOUS
  <2>2. PICK r : r = [Idle EXCEPT !.who = s, !.row = m, !.accept = yes, !.at = a]
    OBVIOUS
  <2>3. Begin(p, r) /\ r.at = a /\ r.row = m /\ members[m].state = "PENDING"
    BY <1>4, <2>1, <2>2 DEF RespondBegin, Idle
  <2> QED BY <1>1, <2>1, <2>3, BeginningKeepsCalm DEF Inserting
<1>5. ASSUME NEW t \in TeamIds, DeleteBegin(p, s, t) \/ FinalizeBegin(p, s, t) PROVE Calm'
  <2>1. PICK a \in {"team.letters", "team.delete", "finalize.look", "finalize.fix"} :
          Begin(p, [Idle EXCEPT !.who = s, !.team = t, !.at = a])
    BY <1>5 DEF DeleteBegin, FinalizeBegin
  <2>2. PICK r : r = [Idle EXCEPT !.who = s, !.team = t, !.at = a]
    OBVIOUS
  <2>3. Begin(p, r) /\ r.at = a
    BY <2>1, <2>2 DEF Idle
  <2> QED BY <1>1, <2>3, BeginningKeepsCalm DEF Inserting, Responding
<1>6. ASSUME NEW t \in TeamIds, JoinBegin(p, s, t) \/ DraftBegin(p, s, t) \/ ResetBegin(p, s, t)
      PROVE  Calm'
  <2>1. PICK a \in {"join.memberships", "draft.member", "reset.look"} :
          Begin(p, [Idle EXCEPT !.at = a, !.who = s, !.team = t])
    BY <1>6 DEF JoinBegin, DraftBegin, ResetBegin
  <2>2. PICK r : r = [Idle EXCEPT !.at = a, !.who = s, !.team = t]
    OBVIOUS
  <2>3. Begin(p, r) /\ r.at = a
    BY <2>1, <2>2 DEF Idle
  <2> QED BY <1>1, <2>3, BeginningKeepsCalm DEF Inserting, Responding
<1>7. ASSUME NEW t \in TeamIds, NEW u \in Students, InviteBegin(p, s, t, u) PROVE Calm'
  <2>1. PICK r : r = [Idle EXCEPT !.at = "invite.look", !.who = s, !.team = t, !.subject = u]
    OBVIOUS
  <2>2. Begin(p, r) /\ r.at = "invite.look"
    BY <1>7, <2>1 DEF InviteBegin, Idle
  <2> QED BY <1>1, <2>2, BeginningKeepsCalm DEF Inserting, Responding
<1> QED BY <1>2, <1>3, <1>4, <1>5, <1>6, <1>7 DEF Call

LEMMA NextKeepsCalm ==
  TeamsInv /\ Calm /\ OneAtATime /\ OneAtATime' /\ [Next]_vars => Calm'
<1> SUFFICES ASSUME TeamsInv, Calm, OneAtATime, OneAtATime', [Next]_vars PROVE Calm'
  OBVIOUS
<1>1. ASSUME UNCHANGED <<members, req>>, \A t \in TeamIds : Active(t)' = Active(t)
      PROVE  Calm'
  <2> SUFFICES ASSUME NEW p \in Requests PROVE CalmOK(req[p])'
    BY <1>1 DEF Calm
  <2>1. CalmOK(req[p]) /\ (req[p].at \in Inserting => req[p].team \in TeamIds)
    BY DEF Calm, TeamsInv, ReqsOK, ReqOK, Inserting, Nameless, Responding
  <2> QED BY <1>1, <2>1 DEF CalmOK, Live
<1>2. CASE UNCHANGED vars
  BY <1>1, <1>2 DEF vars, Active
<1>3. ASSUME NEW x \in SubIds, LetterArrives(x) PROVE Calm'
  <2>1. \A t \in TeamIds : Active(t)' = Active(t)
    BY <1>3 DEF LetterArrives, TeamsInv, TypeOK, SubRow, Active
  <2> QED BY <1>1, <1>3, <2>1 DEF LetterArrives
<1>4. ASSUME NEW p \in Requests, Step(p) \/ Die(p) PROVE Calm'
  BY <1>4, CarelessSteps, ShrinkingKeepsCalm, DraftingKeepsCalm, ArchivingKeepsCalm,
     AnsweringKeepsCalm DEF Step
<1> QED BY <1>2, <1>3, <1>4, CallingKeepsCalm DEF Next

LEMMA CalmInitially == Init => Calm
<1>1. Init => \A p \in Requests : req[p].at \notin Inserting \cup Responding
  BY IdleOK DEF Init, Inserting, Responding
<1>2. Init => \A t \in TeamIds : Active(t) = {}
  BY DEF Init, Active, NoSub
<1> QED BY <1>1, <1>2 DEF Calm, CalmOK

LEMMA CalmHolds == Spec /\ []OneAtATime => []Calm
BY CalmInitially, NextKeepsCalm, TeamsInvHolds, PTL DEF Spec

(* A team has one active submission, unless requests overlap: no sequence  *)
(* of finalizations, resets and draft creations alone gives it a second    *)
(* one, also when some of them die half-way.                               *)
THEOREM OneDraftOneAtATime == Spec /\ []OneAtATime => []OneActiveSubmission
<1>1. Calm => OneActiveSubmission
  <2> SUFFICES ASSUME Calm, NEW t \in TeamIds PROVE Cardinality(Active(t)) <= 1
    BY DEF OneActiveSubmission
  <2>1. CASE Active(t) = {}
    BY <2>1, FS_EmptySet
  <2>2. CASE Active(t) # {}
    <3>1. PICK S : S = Active(t)
      OBVIOUS
    <3>2. PICK x : x \in S
      BY <2>2, <3>1
    <3>3. \A y \in S : y = x
      BY <3>1, <3>2 DEF Calm
    <3>4. S = {x}
      BY <3>2, <3>3
    <3>5. Cardinality(S) = 1
      BY <3>4, FS_Singleton
    <3> QED BY <3>1, <3>5
  <2> QED BY <2>1, <2>2
<1> QED BY <1>1, CalmHolds, PTL

(* An answer to an invitation is final, unless requests overlap.           *)
THEOREM AnswersFinalOneAtATime == Spec /\ []OneAtATime => AnswerIsFinal
<1> DEFINE Final ==
      \A m \in RowIds :
        members[m].state \in {"ACCEPTED", "REJECTED"} =>
          members[m].state' \in {members[m].state, "deleted"}
<1>1. TeamsInv /\ Calm /\ [Next]_vars => [Final]_vars
  <2> SUFFICES ASSUME TeamsInv, Calm, [Next]_vars, NEW m \in RowIds,
                      members[m].state \in {"ACCEPTED", "REJECTED"}
               PROVE  members[m].state' \in {members[m].state, "deleted"}
    OBVIOUS
  <2>1. ASSUME Shrinks PROVE members[m].state' \in {members[m].state, "deleted"}
    BY <2>1 DEF Shrinks
  <2>2. ASSUME NEW p \in Requests, RespondWrite(p) PROVE members[m].state' = members[m].state
    <3>1. CalmOK(req[p]) /\ req[p].at \in Responding
      BY <2>2 DEF Calm, RespondWrite, Responding
    <3>2. Live(req[p].row) => members[req[p].row].state = "PENDING"
      BY <3>1 DEF CalmOK
    <3> QED BY <2>2, <3>2 DEF RespondWrite, TeamsInv, TypeOK
  <2>3. ASSUME UNCHANGED members PROVE members[m].state' = members[m].state
    BY <2>3
  <2>4. ASSUME NEW p \in Requests, RespondDisband(p)
        PROVE  members[m].state' \in {members[m].state, "deleted"}
    BY <2>1, <2>3, <2>4, DropShrinks DEF RespondDisband, tables, TeamsInv
  <2>5. ASSUME NEW p \in Requests,
               \/ FinalizeLook(p) \/ FinalizeInsert(p) \/ RespondLook(p) \/ DraftLook(p)
               \/ DraftInsert(p) \/ ResetArchive(p)
        PROVE  UNCHANGED members
    BY <2>5 DEF FinalizeLook, FinalizeInsert, RespondLook, DraftLook, DraftInsert,
       ResetArchive, tables
  <2>6. ASSUME NEW p \in Requests, NEW s \in Students, Call(p, s) PROVE UNCHANGED members
    BY <2>6 DEF Call, CreateBegin, LeaveBegin, RemoveBegin, CancelBegin, RespondBegin,
       DeleteBegin, FinalizeBegin, JoinBegin, DraftBegin, ResetBegin, InviteBegin, tables
  <2>7. ASSUME NEW x \in SubIds, LetterArrives(x) PROVE UNCHANGED members
    BY <2>7 DEF LetterArrives
  <2>8. ASSUME NEW p \in Requests, Step(p) \/ Die(p)
        PROVE  members[m].state' \in {members[m].state, "deleted"}
    BY <2>1, <2>2, <2>3, <2>4, <2>5, <2>8, CarelessSteps DEF Step
  <2> QED BY <2>3, <2>6, <2>7, <2>8 DEF Next, vars
<1>2. Spec /\ []OneAtATime => [][Final]_vars
  BY <1>1, TeamsInvHolds, CalmHolds, PTL DEF Spec
<1> QED BY <1>2 DEF AnswerIsFinal
-----------------------------------------------------------------------------
(* Membership as MembershipPromise sees it                                 *)

(* What the promise needs over and above TeamsInv: a member is not the     *)
(* leader once more, a fresh row has no answer, and a request that asks    *)
(* for a place asks it of a team with a leader's row, for somebody else.   *)
Joining == {"join.memberships", "join.count", "join.insert"}

RowsApart ==
  \A m \in RowIds :
    /\ members[m].state = "unused" => answer[m] = None
    /\ Live(m) /\ members[m].role = "ANGGOTA" =>
         members[m].student # team[members[m].team].leader

SeekOK(r) ==
  /\ r.at \in Inviting \cup Joining /\ Exists(r.team) => Seated(r.team)
  /\ r.at \in Inviting \ {"invite.look"} /\ Exists(r.team) =>
       r.subject # team[r.team].leader
  /\ r.at \in Joining /\ Exists(r.team) => r.who # team[r.team].leader
  /\ r.at \in Seating /\ Exists(r.team) => ~Seated(r.team)

(* No two requests are about to give the same team its leader's row.       *)
SeatersApart ==
  \A p, q \in Requests :
    req[p].at \in Seating /\ At(q, req[p].team, Seating) /\ Exists(req[p].team) => p = q

Apart == RowsApart /\ (\A p \in Requests : SeekOK(req[p])) /\ SeatersApart

(* What every step does to teams and their leaders' rows.                  *)
TeamsStay ==
  \A t \in TeamIds :
    /\ team[t].state # "unused" /\ Exists(t)' =>
         Exists(t) /\ team'[t].leader = team[t].leader
    /\ Seated(t) /\ Exists(t)' => Seated(t)'

LEMMA ApartInitially == Init => Apart
<1>1. Init => \A m \in RowIds : members[m].state = "unused" /\ answer[m] = None
  BY DEF Init, NoMember
<1>2. Init => \A p \in Requests : req[p].at \notin Inviting \cup Joining \cup Seating
  BY IdleOK DEF Init, Inviting, Joining, Seating
<1> QED BY <1>1, <1>2 DEF Apart, RowsApart, SeekOK, SeatersApart, Live, InvitationStatus

LEMMA KeepingApart ==
  ASSUME TeamsInv, Apart, TeamsStay, RowsApart', NEW p \in Requests,
         \A q \in Requests \ {p} : req'[q] = req[q],
         SeekOK(req[p])',
         \A t \in TeamIds : Exists(t) /\ Seated(t)' => Seated(t) \/ At(p, t, Seating),
         req'[p].at \in Seating =>
           team[req'[p].team].state = "unused" \/ At(p, req'[p].team, Seating)
  PROVE  Apart'
<1> USE DEF At
<1>1. ASSUME NEW q \in Requests, req[q].at \in Inviting \cup Joining \cup Seating
      PROVE  /\ req[q].team \in TeamIds /\ team[req[q].team].state # "unused"
             /\ SeekOK(req[q])
  BY <1>1 DEF TeamsInv, ReqsOK, ReqOK, Apart, Inviting, Joining, Seating, Nameless, Responding
<1>2. ASSUME NEW q \in Requests \ {p} PROVE SeekOK(req[q])'
  <2>1. CASE req[q].at \in Inviting \cup Joining \cup Seating /\ Exists(req[q].team)'
    <3>1. PICK t \in TeamIds : t = req[q].team
      BY <1>1, <2>1
    <3>2. /\ Exists(t) /\ team'[t].leader = team[t].leader
          /\ Seated(t) => Seated(t)'
      BY <1>1, <2>1, <3>1 DEF TeamsStay
    <3>3. req[q].at \in Seating => ~Seated(t)'
      BY <1>1, <2>1, <3>1, <3>2 DEF SeekOK, Apart, SeatersApart
    <3> QED BY <1>1, <2>1, <3>1, <3>2, <3>3 DEF SeekOK
  <2>2. CASE ~(req[q].at \in Inviting \cup Joining \cup Seating /\ Exists(req[q].team)')
    BY <2>2 DEF SeekOK, Exists
  <2> QED BY <2>1, <2>2
<1>3. SeatersApart'
  <2>1. ASSUME NEW q \in Requests \ {p}, req[q].at \in Seating, req'[p].at \in Seating,
               req'[p].team = req[q].team, Exists(req[q].team)'
        PROVE  FALSE
    <3>1. team[req[q].team].state # "unused" /\ Exists(req[q].team)
      BY <1>1, <2>1 DEF TeamsStay
    <3> QED BY <2>1, <3>1 DEF Apart, SeatersApart
  <2>2. ASSUME NEW q \in Requests \ {p}, NEW k \in Requests \ {p},
               req[q].at \in Seating, req[k].at \in Seating,
               req[k].team = req[q].team, Exists(req[q].team)'
        PROVE  q = k
    <3>1. Exists(req[q].team)
      BY <1>1, <2>2 DEF TeamsStay
    <3> QED BY <2>2, <3>1 DEF Apart, SeatersApart
  <2> SUFFICES ASSUME NEW q \in Requests, NEW k \in Requests, req'[q].at \in Seating,
                      req'[k].at \in Seating, req'[k].team = req'[q].team,
                      Exists(req[q].team)'
               PROVE  q = k
    BY DEF SeatersApart
  <2>3. CASE q = p \/ k = p
    BY <2>1, <2>3
  <2>4. CASE q # p /\ k # p
    BY <2>2, <2>4
  <2> QED BY <2>3, <2>4
<1> QED BY <1>2, <1>3 DEF Apart

(* What is left alone keeps its place.                                     *)
Untouched ==
  /\ UNCHANGED <<members, answer>>
  /\ \A t \in TeamIds :
       UNCHANGED <<Exists(t), team[t].state = "unused", team[t].leader>>

PromiseStep == Promise!Next \/ UNCHANGED <<Circles, PlacesSeen>>

(* What the promise's own notions are in terms of the tables.              *)
LEMMA TeamsSeen ==
  ASSUME NEW t \in TeamIds
  PROVE  /\ Circles[t] = CircleOf(t)
         /\ CircleOf(t).leader = team[t].leader
         /\ CircleOf(t).state = "there" <=> Exists(t)
         /\ CircleOf(t).state = "none" <=> team[t].state = "unused"
BY DEF Circles, CircleOf, Exists

LEMMA RowSeen ==
  ASSUME NEW m \in RowIds
  PROVE  /\ PlacesSeen[m] = PlaceOf(m)
         /\ PlaceOf(m).state \in InvitationStatus <=> Live(m)
         /\ Live(m) => /\ PlaceOf(m).team = members[m].team
                       /\ PlaceOf(m).student = members[m].student
                       /\ PlaceOf(m).leads <=> members[m].role = "KETUA"
                       /\ PlaceOf(m).maker = members[m].by
         /\ members[m].state = "unused" => PlaceOf(m).state = "none"
BY DEF PlacesSeen, PlaceOf, Live, InvitationStatus

LEMMA SeatsSeen ==
  ASSUME NEW t \in TeamIds
  PROVE  /\ Promise!There(t) <=> Exists(t)
         /\ Promise!Of(t) = RowsOf(t)
         /\ Promise!HasLeader(t) <=> Seated(t)
<1>1. \A m \in RowIds : Promise!Held(m) <=> Live(m)
  BY RowSeen DEF Promise!Held, Promise!Standing, InvitationStatus
<1>2. Promise!Of(t) = RowsOf(t)
  BY <1>1, RowSeen DEF Promise!Of, RowsOf
<1>3. Promise!HasLeader(t) <=> Seated(t)
  BY <1>2, RowSeen DEF Promise!HasLeader, Seated, RowsOf
<1> QED BY <1>2, <1>3, TeamsSeen DEF Promise!There

(* One team, or one row, is written.                                       *)
LEMMA CircleWritten ==
  ASSUME NEW t \in TeamIds, NEW c, CircleOf(t)' = c,
         \A u \in TeamIds \ {t} : CircleOf(u)' = CircleOf(u)
  PROVE  Circles' = [Circles EXCEPT ![t] = c]
<1>1. Circles' = [u \in TeamIds |-> CircleOf(u)']
  BY DEF Circles
<1>2. [Circles EXCEPT ![t] = c] = [u \in TeamIds |-> IF u = t THEN c ELSE CircleOf(u)]
  BY DEF Circles
<1> QED BY <1>1, <1>2

LEMMA PlaceWritten ==
  ASSUME NEW m \in RowIds, NEW c, PlaceOf(m)' = c,
         \A k \in RowIds \ {m} : members'[k] = members[k] /\ answer'[k] = answer[k]
  PROVE  PlacesSeen' = [PlacesSeen EXCEPT ![m] = c]
<1>1. \A k \in RowIds \ {m} : PlaceOf(k)' = PlaceOf(k)
  BY DEF PlaceOf, Live
<1>2. PlacesSeen' = [k \in RowIds |-> PlaceOf(k)']
  BY DEF PlacesSeen
<1>3. [PlacesSeen EXCEPT ![m] = c] = [k \in RowIds |-> IF k = m THEN c ELSE PlaceOf(k)]
  BY DEF PlacesSeen
<1> QED BY <1>1, <1>2, <1>3

LEMMA UntouchedUnseen ==
  ASSUME Untouched
  PROVE  UNCHANGED <<Circles, PlacesSeen>>
<1>1. \A t \in TeamIds : CircleOf(t)' = CircleOf(t)
  BY DEF Untouched, CircleOf
<1>2. \A m \in RowIds : PlaceOf(m)' = PlaceOf(m)
  BY DEF Untouched, PlaceOf, Live
<1> QED BY <1>1, <1>2 DEF Circles, PlacesSeen

LEMMA UntouchedStays ==
  ASSUME TeamsInv, Apart, Untouched
  PROVE  /\ TeamsStay /\ RowsApart'
         /\ \A t \in TeamIds : UNCHANGED <<Exists(t), Seated(t), team[t].leader>>
<1>1. \A t \in TeamIds : UNCHANGED <<Exists(t), Seated(t), team[t].leader>>
  BY DEF Untouched, Seated, RowsOf, Live
<1>2. \A m \in RowIds : Live(m) => members[m].team \in TeamIds
  BY DEF TeamsInv, RowsOK, RowOK
<1>3. RowsApart'
  BY <1>1, <1>2 DEF Untouched, Apart, RowsApart, Live
<1> QED BY <1>1, <1>3 DEF TeamsStay

(* A step that no request will rely on.                                    *)
Loose == Places \ (Inviting \cup Joining \cup Seating)

LEMMA LooseKeepsApart ==
  ASSUME TeamsInv, Apart, TeamsStay, RowsApart', NEW p \in Requests,
         \A q \in Requests \ {p} : req'[q] = req[q], req'[p].at \in Loose,
         \A t \in TeamIds : Exists(t) /\ Seated(t)' => Seated(t) \/ At(p, t, Seating)
  PROVE  Apart'
<1>1. SeekOK(req[p])' /\ req'[p].at \notin Seating
  BY DEF SeekOK, Loose
<1> QED BY <1>1, KeepingApart

LEMMA UntouchedKeepsApart ==
  ASSUME TeamsInv, Apart, Untouched, NEW p \in Requests,
         \A q \in Requests \ {p} : req'[q] = req[q],
         \/ req'[p].at \in Loose
         \/ SeekOK(req[p])' /\ (req'[p].at \in Seating => At(p, req'[p].team, Seating))
  PROVE  Apart' /\ PromiseStep
<1>1. /\ TeamsStay /\ RowsApart'
      /\ \A t \in TeamIds : Exists(t) /\ Seated(t)' => Seated(t) \/ At(p, t, Seating)
  BY UntouchedStays
<1>2. PromiseStep
  BY UntouchedUnseen DEF PromiseStep
<1> QED BY <1>1, <1>2, LooseKeepsApart, KeepingApart

(* INSERT of a team: it is founded.                                        *)
LEMMA FoundSeen ==
  ASSUME TeamsInv, Apart, NEW s \in Students, NEW t \in TeamIds, team[t].state = "unused",
         team' = [team EXCEPT ![t] = [state |-> "PENDING", leader |-> s]],
         UNCHANGED <<members, answer>>
  PROVE  /\ TeamsStay /\ RowsApart' /\ ~Seated(t)' /\ Promise!Found(s, t)
         /\ \A u \in TeamIds : Seated(u)' = Seated(u)
<1>1. /\ team'[t].state = "PENDING" /\ team'[t].leader = s
      /\ \A u \in TeamIds \ {t} : team'[u] = team[u]
  BY DEF TeamsInv, TypeOK
<1>2. \A m \in RowIds : Live(m) => members[m].team \in TeamIds \ {t}
  BY DEF TeamsInv, RowsOK, RowOK, Exists
<1>3. ~Seated(t) /\ \A u \in TeamIds : Seated(u)' = Seated(u)
  BY <1>2 DEF Seated, RowsOf, Live
<1>4. TeamsStay
  BY <1>1, <1>3 DEF TeamsStay, Exists
<1>5. RowsApart'
  BY <1>1, <1>2 DEF Apart, RowsApart, Live
<1>6. Circles' = [Circles EXCEPT ![t] = [state |-> "there", leader |-> s]]
  <2>1. CircleOf(t)' = [state |-> "there", leader |-> s]
    BY <1>1 DEF CircleOf, Exists
  <2>2. \A u \in TeamIds \ {t} : CircleOf(u)' = CircleOf(u)
    BY <1>1 DEF CircleOf, Exists
  <2> QED BY <2>1, <2>2, CircleWritten
<1>7. UNCHANGED PlacesSeen
  BY DEF PlacesSeen, PlaceOf, Live
<1>8. Promise!Found(s, t)
  BY <1>6, <1>7, TeamsSeen DEF Promise!Found
<1> QED BY <1>3, <1>4, <1>5, <1>8

(* DELETE of a team: it is disbanded, with all its rows.                   *)
LEMMA DisbandSeen ==
  ASSUME TeamsInv, Apart, NEW t \in TeamIds, Exists(t), DropTeam(t), UNCHANGED answer
  PROVE  /\ TeamsStay /\ RowsApart' /\ Promise!Disband(t)
         /\ \A u \in TeamIds : Exists(u) /\ Seated(u)' => Seated(u)
<1>1. /\ team'[t].state = "deleted" /\ team'[t].leader = None
      /\ \A u \in TeamIds \ {t} : team'[u] = team[u]
  BY DEF DropTeam, TeamsInv, TypeOK
<1>2. /\ \A m \in RowsOf(t) : members'[m].state = "deleted"
      /\ \A m \in RowIds \ RowsOf(t) : members'[m] = members[m]
  BY DEF DropTeam, NoMember, RowsOf
<1>3. ASSUME NEW m \in RowIds
      PROVE  /\ Live(m)' => /\ Live(m) /\ m \notin RowsOf(t) /\ members'[m] = members[m]
                            /\ members[m].team \in TeamIds \ {t}
             /\ members'[m].state = "unused" => members[m].state = "unused"
  <2>1. CASE m \in RowsOf(t)
    BY <1>2, <2>1 DEF Live, InvitationStatus
  <2>2. CASE m \notin RowsOf(t)
    BY <1>2, <2>2 DEF Live, RowsOf, TeamsInv, RowsOK, RowOK
  <2> QED BY <2>1, <2>2
<1>4. \A u \in TeamIds \ {t} : RowsOf(u)' = RowsOf(u)
  <2> SUFFICES ASSUME NEW u \in TeamIds \ {t}, NEW m \in RowIds
               PROVE  m \in RowsOf(u)' <=> m \in RowsOf(u)
    BY DEF RowsOf
  <2>1. m \in RowsOf(u) => members'[m] = members[m]
    BY <1>2 DEF RowsOf
  <2> QED BY <1>3, <2>1 DEF RowsOf, Live
<1>5. \A u \in TeamIds \ {t} : Seated(u)' = Seated(u)
  BY <1>2, <1>4 DEF Seated, RowsOf
<1>6. RowsOf(t)' = {}
  BY <1>3 DEF RowsOf
<1>7. ~Seated(t)' /\ ~Exists(t)'
  BY <1>1, <1>6 DEF Seated, Exists
<1>8. TeamsStay
  <2> SUFFICES ASSUME NEW u \in TeamIds, Exists(u)'
               PROVE  /\ Exists(u) /\ team'[u].leader = team[u].leader
                      /\ Seated(u) => Seated(u)'
    BY DEF TeamsStay
  <2> QED BY <1>1, <1>5, <1>7 DEF Exists
<1>9. RowsApart'
  BY <1>1, <1>3 DEF Apart, RowsApart
<1>10. Circles' = [Circles EXCEPT ![t] = [state |-> "gone", leader |-> None]]
  <2>1. CircleOf(t)' = [state |-> "gone", leader |-> None]
    BY <1>1 DEF CircleOf, Exists
  <2>2. \A u \in TeamIds \ {t} : CircleOf(u)' = CircleOf(u)
    BY <1>1 DEF CircleOf, Exists
  <2> QED BY <2>1, <2>2, CircleWritten
<1>11. PlacesSeen' = [m \in RowIds |-> IF m \in Promise!Of(t) THEN Promise!NoPlace("gone")
                                                              ELSE PlacesSeen[m]]
  <2>1. ASSUME NEW m \in RowIds, m \in RowsOf(t) PROVE PlaceOf(m)' = Promise!NoPlace("gone")
    <3>1. ~Live(m)' /\ members'[m].state # "unused"
      BY <1>2, <2>1 DEF Live, InvitationStatus
    <3> QED BY <3>1 DEF PlaceOf, Promise!NoPlace
  <2>2. ASSUME NEW m \in RowIds, m \notin RowsOf(t) PROVE PlaceOf(m)' = PlacesSeen[m]
    BY <1>2, <2>2 DEF PlaceOf, Live, PlacesSeen
  <2>3. PlacesSeen' = [m \in RowIds |-> PlaceOf(m)']
    BY DEF PlacesSeen
  <2> QED BY <2>1, <2>2, <2>3, SeatsSeen
<1>12. Promise!Disband(t)
  BY <1>10, <1>11, SeatsSeen DEF Promise!Disband
<1> QED BY <1>5, <1>7, <1>8, <1>9, <1>12

(* One row is written that is not the leader's: teams stay as they are.    *)
LEMMA RowWriteStays ==
  ASSUME TeamsInv, Apart, UNCHANGED team, NEW m \in RowIds,
         \A k \in RowIds \ {m} : members'[k] = members[k] /\ answer'[k] = answer[k],
         Live(m) => members[m].role = "ANGGOTA",
         members'[m].state # "unused",
         Live(m)' /\ members'[m].role = "ANGGOTA" =>
           members'[m].student # team[members'[m].team].leader
  PROVE  /\ TeamsStay /\ RowsApart' /\ UNCHANGED Circles
         /\ \A t \in TeamIds :
              Seated(t)' => \/ Seated(t)
                            \/ members'[m].role = "KETUA" /\ members'[m].team = t
<1>1. \A t \in TeamIds : Seated(t) => Seated(t)'
  BY DEF Seated, RowsOf, Live
<1>2. \A t \in TeamIds :
        Seated(t)' => Seated(t) \/ (members'[m].role = "KETUA" /\ members'[m].team = t)
  BY DEF Seated, RowsOf, Live
<1>3. TeamsStay
  BY <1>1 DEF TeamsStay, Exists
<1>4. RowsApart'
  BY DEF Apart, RowsApart, Live
<1>5. UNCHANGED Circles
  BY DEF Circles, CircleOf, Exists
<1> QED BY <1>2, <1>3, <1>4, <1>5

(* DELETE of a row by id: a place is withdrawn.                            *)
LEMMA WithdrawSeen ==
  ASSUME TeamsInv, Apart, UNCHANGED <<team, answer>>, NEW m \in RowIds, Live(m),
         members[m].role = "ANGGOTA", DropRow(m)
  PROVE  /\ TeamsStay /\ RowsApart' /\ Promise!Withdraw(m)
         /\ \A t \in TeamIds : Seated(t)' => Seated(t)
<1>1. /\ members'[m].state = "deleted" /\ members'[m].role = "ANGGOTA"
      /\ \A k \in RowIds \ {m} : members'[k] = members[k]
  BY DEF DropRow, NoMember, TeamsInv, TypeOK
<1>2. ~Live(m)'
  BY <1>1 DEF Live, InvitationStatus
<1>3. /\ TeamsStay /\ RowsApart' /\ UNCHANGED Circles
      /\ \A t \in TeamIds : Seated(t)' => Seated(t)
  BY <1>1, <1>2, RowWriteStays
<1>4. PlaceOf(m)' = Promise!NoPlace("gone")
  BY <1>1, <1>2 DEF PlaceOf, Promise!NoPlace
<1>5. PlacesSeen' = [PlacesSeen EXCEPT ![m] = Promise!NoPlace("gone")]
  BY <1>1, <1>4, PlaceWritten
<1>6. Promise!Withdraw(m)
  BY <1>3, <1>5, RowSeen DEF Promise!Withdraw, Promise!Held, Promise!Standing, InvitationStatus
<1> QED BY <1>3, <1>6

(* INSERT of a row: the leader's own, an invitation or a request to join.  *)
LEMMA PlaceTaken ==
  ASSUME TeamsInv, Apart, UNCHANGED <<team, answer>>, NEW t \in TeamIds,
         NEW s \in Students, NEW by \in Students, NEW role \in {"KETUA", "ANGGOTA"},
         NEW state \in {"PENDING", "ACCEPTED"}, InsertMember(t, s, role, state, by),
         role = "ANGGOTA" => s # team[t].leader
  PROVE  /\ TeamsStay /\ RowsApart' /\ UNCHANGED Circles
         /\ \A u \in TeamIds : Seated(u)' => Seated(u) \/ (role = "KETUA" /\ u = t)
         /\ \E m \in RowIds :
              /\ PlacesSeen[m].state = "none"
              /\ PlacesSeen' = [PlacesSeen EXCEPT ![m] =
                   [state |-> state, team |-> t, student |-> s, leads |-> role = "KETUA",
                    maker |-> by, answerer |-> None]]
<1>1. PICK w : w = [state |-> state, team |-> t, student |-> s, role |-> role, by |-> by]
  OBVIOUS
<1>2. /\ w.state = state /\ w.team = t /\ w.student = s /\ w.role = role /\ w.by = by
  BY <1>1
<1>3. PICK m \in RowIds : members[m].state = "unused" /\ members' = [members EXCEPT ![m] = w]
  BY <1>1 DEF InsertMember, FreeRows
<1>4. members'[m] = w /\ \A k \in RowIds \ {m} : members'[k] = members[k]
  BY <1>3 DEF TeamsInv, TypeOK
<1>5. Live(m)' /\ ~Live(m) /\ members'[m].state # "unused"
  BY <1>2, <1>3, <1>4 DEF Live, InvitationStatus
<1>6. /\ TeamsStay /\ RowsApart' /\ UNCHANGED Circles
      /\ \A u \in TeamIds : Seated(u)' => Seated(u) \/ (role = "KETUA" /\ u = t)
  BY <1>2, <1>4, <1>5, RowWriteStays
<1>7. answer'[m] = None
  BY <1>3 DEF Apart, RowsApart
<1>8. PICK c : c = [state |-> state, team |-> t, student |-> s, leads |-> role = "KETUA",
                    maker |-> by, answerer |-> None]
  OBVIOUS
<1>9. PlaceOf(m)' = c
  BY <1>2, <1>4, <1>5, <1>7, <1>8 DEF PlaceOf
<1>10. PlacesSeen' = [PlacesSeen EXCEPT ![m] = c]
  BY <1>4, <1>9, PlaceWritten
<1>11. PlacesSeen[m].state = "none"
  BY <1>3, RowSeen
<1> QED BY <1>6, <1>8, <1>10, <1>11

(* UPDATE of a row's status: it is answered.                               *)
LEMMA AnswerSeen ==
  ASSUME TeamsInv, Apart, UNCHANGED team, NEW m \in RowIds, Live(m),
         members[m].role = "ANGGOTA", NEW s \in Students, MayAnswer(s, m),
         NEW verdict \in {"ACCEPTED", "REJECTED"},
         members' = [members EXCEPT ![m].state = verdict], answer' = [answer EXCEPT ![m] = s]
  PROVE  /\ TeamsStay /\ RowsApart' /\ Promise!Answer(m, s, verdict)
         /\ \A t \in TeamIds : Seated(t)' => Seated(t)
<1>1. /\ members'[m].state = verdict /\ members'[m].team = members[m].team
      /\ members'[m].student = members[m].student /\ members'[m].role = members[m].role
      /\ members'[m].by = members[m].by /\ answer'[m] = s
      /\ \A k \in RowIds \ {m} : members'[k] = members[k] /\ answer'[k] = answer[k]
  BY DEF TeamsInv, TypeOK, MemberRow
<1>2. Live(m)' /\ members'[m].state # "unused"
  BY <1>1 DEF Live, InvitationStatus
<1>3. PICK t \in TeamIds : t = members[m].team
  BY DEF TeamsInv, RowsOK, RowOK
<1>4. members[m].student # team[t].leader /\ members[m].by \in {members[m].student, team[t].leader}
  BY <1>3 DEF TeamsInv, RowsOK, RowOK, Apart, RowsApart
<1>5. /\ TeamsStay /\ RowsApart' /\ UNCHANGED Circles
      /\ \A u \in TeamIds : Seated(u)' => Seated(u)
  BY <1>1, <1>2, <1>3, <1>4, RowWriteStays
<1>6. PICK c : c = PlaceOf(m)
  OBVIOUS
<1>7. PlaceOf(m)' = [c EXCEPT !.state = verdict, !.answerer = s]
  <2>1. PICK leads : leads = (members[m].role = "KETUA")
    OBVIOUS
  <2>2. c = [state |-> members[m].state, team |-> members[m].team,
             student |-> members[m].student, leads |-> leads, maker |-> members[m].by,
             answerer |-> answer[m]]
    BY <1>6, <2>1 DEF PlaceOf
  <2>3. [c EXCEPT !.state = verdict, !.answerer = s]
          = [state |-> verdict, team |-> members[m].team, student |-> members[m].student,
             leads |-> leads, maker |-> members[m].by, answerer |-> s]
    <3>1. PICK y : y = [c EXCEPT !.state = verdict]
      OBVIOUS
    <3>2. y = [state |-> verdict, team |-> members[m].team, student |-> members[m].student,
               leads |-> leads, maker |-> members[m].by, answerer |-> answer[m]]
      BY <2>2, <3>1
    <3>3. [y EXCEPT !.answerer = s]
            = [state |-> verdict, team |-> members[m].team, student |-> members[m].student,
               leads |-> leads, maker |-> members[m].by, answerer |-> s]
      BY <3>2
    <3> QED BY <3>1, <3>3
  <2>4. PlaceOf(m)' = [state |-> verdict, team |-> members[m].team,
                       student |-> members[m].student, leads |-> leads,
                       maker |-> members[m].by, answerer |-> s]
    BY <1>1, <1>2, <2>1 DEF PlaceOf
  <2> QED BY <2>3, <2>4
<1>8. PlacesSeen' = [PlacesSeen EXCEPT ![m] = [c EXCEPT !.state = verdict, !.answerer = s]]
  BY <1>1, <1>7, PlaceWritten
<1>9. PlacesSeen' = [PlacesSeen EXCEPT ![m].state = verdict, ![m].answerer = s]
  BY <1>6, <1>8, RowSeen DEF PlacesSeen
<1>10. Promise!Held(m) /\ ~PlacesSeen[m].leads
  BY RowSeen DEF Promise!Held, Promise!Standing, InvitationStatus
<1>11. s \in Promise!Parties(m) \ {PlacesSeen[m].maker}
  <2>1. Promise!Parties(m) = {members[m].student, team[t].leader}
    BY <1>3, RowSeen, TeamsSeen DEF Promise!Parties
  <2>2. PlacesSeen[m].maker = members[m].by
    BY RowSeen
  <2>3. s \in {members[m].student, team[t].leader} \ {members[m].by}
    BY <1>3, <1>4 DEF MayAnswer
  <2> QED BY <2>1, <2>2, <2>3
<1>12. Promise!Answer(m, s, verdict)
  BY <1>5, <1>9, <1>10, <1>11 DEF Promise!Answer
<1> QED BY <1>5, <1>12
-----------------------------------------------------------------------------
(* The steps of the requests                                               *)

LEMMA GoesWith ==
  ASSUME TypeOK, NEW p \in Requests, NEW a, NEW X,
         \/ req' = [req EXCEPT ![p].teams = X, ![p].at = a]
         \/ req' = [req EXCEPT ![p].subs = X, ![p].at = a]
  PROVE  req'[p].at = a /\ \A q \in Requests \ {p} : req'[q] = req[q]
<1>1. req \in [Requests -> Request] /\ req[p] \in Request
  BY DEF TypeOK
<1> QED BY <1>1 DEF Request

LEMMA GoesLoose ==
  ASSUME TypeOK, NEW p \in Requests,
         Done(p) \/ \E place \in Loose : Goto(p, place)
  PROVE  req'[p].at \in Loose /\ \A q \in Requests \ {p} : req'[q] = req[q]
<1>1. "idle" \in Loose
  BY DEF Loose, Places, Inviting, Joining, Seating
<1> QED BY <1>1, Ends, Lands

LEMMA LoosePlaces ==
  /\ "idle" \in Loose /\ "create.team" \in Loose /\ "create.memberships" \in Loose
  /\ "team.delete" \in Loose /\ "team.letters" \in Loose /\ "row.delete" \in Loose
  /\ "finalize.fix" \in Loose /\ "finalize.look" \in Loose /\ "finalize.insert" \in Loose
  /\ "respond.look" \in Loose /\ "respond.disband" \in Loose /\ "respond.write" \in Loose
  /\ "draft.member" \in Loose /\ "draft.look" \in Loose /\ "draft.insert" \in Loose
  /\ "reset.look" \in Loose /\ "reset.unfix" \in Loose /\ "reset.archive" \in Loose
BY DEF Loose, Places, Inviting, Joining, Seating

(* Steps that write no membership, and that no later write relies on.      *)
LEMMA LooseSteps ==
  ASSUME TeamsInv, NEW p \in Requests,
         \/ CreateMemberships(p) \/ DeleteLetters(p) \/ FinalizeFix(p) \/ FinalizeLook(p)
         \/ FinalizeInsert(p) \/ RespondLook(p) \/ DraftMember(p) \/ DraftLook(p)
         \/ DraftInsert(p) \/ ResetLook(p) \/ ResetArchive(p) \/ ResetUnfix(p) \/ Die(p)
  PROVE  /\ Untouched /\ req'[p].at \in Loose
         /\ \A q \in Requests \ {p} : req'[q] = req[q]
<1>0. TypeOK
  BY DEF TeamsInv
<1>1. CASE FinalizeFix(p) \/ ResetUnfix(p)
  <2>1. PICK t \in TeamIds : t = req[p].team
    BY <1>1 DEF TeamsInv, ReqsOK, ReqOK, FinalizeFix, ResetUnfix, Nameless, Responding
  <2>2. PICK st \in {"PENDING", "FIXED"} :
          team' = IF Exists(t) THEN [team EXCEPT ![t].state = st] ELSE team
    BY <1>1, <2>1 DEF FinalizeFix, ResetUnfix
  <2>3. UNCHANGED <<members, answer>>
    BY <1>1 DEF FinalizeFix, ResetUnfix, history
  <2>4. \A u \in TeamIds :
          \/ team'[u] = team[u]
          \/ /\ Exists(u) /\ team'[u].leader = team[u].leader
             /\ team'[u].state \in {"PENDING", "FIXED"}
    <3>1. PICK row : row = [team[t] EXCEPT !.state = st]
      OBVIOUS
    <3>2. row.leader = team[t].leader /\ row.state = st
      BY <1>0, <3>1 DEF TypeOK, TeamRow
    <3>3. team' = IF Exists(t) THEN [team EXCEPT ![t] = row] ELSE team
      BY <2>2, <3>1
    <3> QED BY <1>0, <3>2, <3>3 DEF TypeOK
  <2>5. Untouched
    BY <2>3, <2>4 DEF Untouched, Exists
  <2>6. Done(p) \/ \E place \in Loose : Goto(p, place)
    BY <1>1, LoosePlaces DEF FinalizeFix, ResetUnfix
  <2> QED BY <1>0, <2>5, <2>6, GoesLoose
<1>2. CASE ~(FinalizeFix(p) \/ ResetUnfix(p))
  <2>1. Untouched
    <3>1. UNCHANGED <<team, members, answer>>
      BY <1>2 DEF CreateMemberships, DeleteLetters, FinalizeLook, FinalizeInsert, RespondLook,
         DraftMember, DraftLook, DraftInsert, ResetLook, ResetArchive, Die, tables, history
    <3> QED BY <3>1 DEF Untouched, Exists
  <2>2. CASE \/ CreateMemberships(p) \/ DeleteLetters(p) \/ FinalizeLook(p)
             \/ FinalizeInsert(p) \/ DraftLook(p) \/ DraftInsert(p) \/ Die(p)
    <3>1. Done(p) \/ \E place \in Loose : Goto(p, place)
      BY <2>2, LoosePlaces DEF CreateMemberships, DeleteLetters, FinalizeLook,
         FinalizeInsert, DraftLook, DraftInsert, Die, Proceed
    <3> QED BY <1>0, <2>1, <3>1, GoesLoose
  <2>3. CASE DraftMember(p)
    <3>1. Done(p) \/ \E place \in Loose : Goto(p, place)
      BY <2>3, LoosePlaces DEF DraftMember, Proceed
    <3> QED BY <1>0, <2>1, <3>1, GoesLoose
  <2>4. CASE RespondLook(p)
    <3>1. PICK X : X = Led(req[p].who)
      OBVIOUS
    <3>2. PICK a : a = IF X = {} THEN "respond.write" ELSE "respond.disband"
      OBVIOUS
    <3>3. req' = [req EXCEPT ![p].teams = X, ![p].at = a]
      BY <2>4, <3>1, <3>2 DEF RespondLook
    <3> QED BY <1>0, <2>1, <3>2, <3>3, GoesWith, LoosePlaces
  <2>5. CASE ResetLook(p)
    <3>1. CASE ~Exists(req[p].team)
      BY <1>0, <2>1, <2>5, <3>1, GoesLoose DEF ResetLook, Done
    <3>2. CASE Exists(req[p].team)
      <4>1. PICK X : X = Active(req[p].team)
        OBVIOUS
      <4>2. PICK a : a = IF X = {} THEN "reset.unfix" ELSE "reset.archive"
        OBVIOUS
      <4>3. req' = [req EXCEPT ![p].subs = X, ![p].at = a]
        BY <2>5, <3>2, <4>1, <4>2 DEF ResetLook
      <4> QED BY <1>0, <2>1, <4>2, <4>3, GoesWith, LoosePlaces
    <3> QED BY <3>1, <3>2
  <2>6. CASE ResetArchive(p)
    <3>1. PICK X, a : /\ a \in {"reset.unfix", "reset.archive"}
                      /\ req' = [req EXCEPT ![p].subs = X, ![p].at = a]
      BY <2>6 DEF ResetArchive
    <3> QED BY <1>0, <2>1, <3>1, GoesWith, LoosePlaces
  <2> QED BY <1>2, <2>2, <2>3, <2>4, <2>5, <2>6
<1> QED BY <1>1, <1>2

(* createTeam founds the team, then takes the lead of it.                  *)
LEMMA CreateTeamPromised ==
  ASSUME TeamsInv, Apart, NEW p \in Requests, CreateInsertTeam(p)
  PROVE  Apart' /\ PromiseStep
<1>0. /\ TypeOK /\ req \in [Requests -> Request] /\ req[p] \in Request
      /\ req[p].who \in Students /\ UNCHANGED <<members, answer>>
  BY DEF TeamsInv, TypeOK, ReqsOK, ReqOK, CreateInsertTeam, history
<1>1. PICK s \in Students : s = req[p].who
  BY <1>0
<1>2. PICK t \in TeamIds :
        /\ team[t].state = "unused"
        /\ team' = [team EXCEPT ![t] = [state |-> "PENDING", leader |-> s]]
        /\ req' = [req EXCEPT ![p].at = "create.member", ![p].team = t]
  BY <1>1 DEF CreateInsertTeam
<1>3. /\ req'[p].at = "create.member" /\ req'[p].team = t
      /\ \A q \in Requests \ {p} : req'[q] = req[q]
  BY <1>0, <1>2 DEF Request
<1>4. /\ TeamsStay /\ RowsApart' /\ ~Seated(t)' /\ Promise!Found(s, t)
      /\ \A u \in TeamIds : Seated(u)' = Seated(u)
  BY <1>0, <1>2, FoundSeen
<1>5. SeekOK(req[p])'
  BY <1>3, <1>4 DEF SeekOK, Inviting, Joining
<1>6. Apart'
  BY <1>2, <1>3, <1>4, <1>5, KeepingApart
<1>7. PromiseStep
  BY <1>4 DEF PromiseStep, Promise!Next
<1> QED BY <1>6, <1>7

LEMMA CreateLeaderPromised ==
  ASSUME TeamsInv, Apart, NEW p \in Requests, CreateInsertLeader(p)
  PROVE  Apart' /\ PromiseStep
<1>0. /\ TypeOK /\ ReqOK(req[p]) /\ SeekOK(req[p]) /\ req[p].at = "create.member"
      /\ UNCHANGED <<team, answer>>
  BY DEF TeamsInv, ReqsOK, Apart, CreateInsertLeader, history
<1>1. PICK t \in TeamIds : t = req[p].team
  BY <1>0 DEF ReqOK, Nameless, Responding
<1>2. PICK s \in Students : s = req[p].who
  BY <1>0 DEF ReqOK
<1>3. At(p, t, Seating)
  BY <1>0, <1>1 DEF At, Seating
<1>4. ASSUME Exists(t), InsertMember(t, s, "KETUA", "ACCEPTED", s), Done(p)
      PROVE  Apart' /\ PromiseStep
  <2>1. s = team[t].leader /\ ~Seated(t)
    BY <1>0, <1>1, <1>2, <1>4 DEF ReqOK, SeekOK, Seating
  <2>2. /\ TeamsStay /\ RowsApart' /\ UNCHANGED Circles
        /\ \A u \in TeamIds : Seated(u)' => Seated(u) \/ u = t
        /\ \E m \in RowIds :
             /\ PlacesSeen[m].state = "none"
             /\ PlacesSeen' = [PlacesSeen EXCEPT ![m] =
                  [state |-> "ACCEPTED", team |-> t, student |-> s,
                   leads |-> "KETUA" = "KETUA", maker |-> s, answerer |-> None]]
    BY <1>0, <1>4, PlaceTaken
  <2>3. req'[p].at \in Loose /\ \A q \in Requests \ {p} : req'[q] = req[q]
    BY <1>0, <1>4, GoesLoose
  <2>4. Apart'
    BY <1>3, <2>2, <2>3, LooseKeepsApart
  <2>5. PICK m \in RowIds :
          /\ PlacesSeen[m].state = "none"
          /\ PlacesSeen' = [PlacesSeen EXCEPT ![m] =
               [state |-> "ACCEPTED", team |-> t, student |-> s, leads |-> TRUE,
                maker |-> s, answerer |-> None]]
    BY <2>2
  <2>6. Circles[t].leader = s /\ Promise!There(t) /\ ~Promise!HasLeader(t)
    BY <1>4, <2>1, TeamsSeen, SeatsSeen
  <2>7. Promise!TakeLead(t, m)
    BY <2>2, <2>5, <2>6 DEF Promise!TakeLead
  <2> QED BY <2>4, <2>7 DEF PromiseStep, Promise!Next
<1>5. ASSUME Goto(p, "create.rollback"), UNCHANGED members PROVE Apart' /\ PromiseStep
  <2>1. /\ req'[p].at = "create.rollback" /\ req'[p].team = t
        /\ \A q \in Requests \ {p} : req'[q] = req[q]
    BY <1>0, <1>1, <1>5, Lands
  <2>2. Untouched
    BY <1>0, <1>5 DEF Untouched, Exists
  <2>3. UNCHANGED <<Exists(t), Seated(t)>>
    BY <2>2, UntouchedStays
  <2>4. SeekOK(req[p])'
    BY <1>0, <1>1, <2>1, <2>3 DEF SeekOK, Inviting, Joining, Seating, Exists
  <2> QED BY <1>3, <2>1, <2>2, <2>4, UntouchedKeepsApart
<1> QED BY <1>1, <1>2, <1>4, <1>5 DEF CreateInsertLeader

(* Teams are disbanded by createTeam's rollback, by deleteTeam, and by an  *)
(* invitee who accepts.                                                    *)
LEMMA DisbandPromised ==
  ASSUME TeamsInv, Apart, NEW p \in Requests,
         CreateRollback(p) \/ DeleteTeamRow(p) \/ RespondDisband(p)
  PROVE  Apart' /\ PromiseStep
<1>0. TypeOK /\ req[p] \in Request /\ ReqOK(req[p]) /\ UNCHANGED answer
  BY DEF TeamsInv, TypeOK, ReqsOK, CreateRollback, DeleteTeamRow, RespondDisband, history
<1>1. PICK t : UNCHANGED tables \/ (t \in TeamIds /\ Exists(t) /\ DropTeam(t))
  <2>1. CASE CreateRollback(p) \/ DeleteTeamRow(p)
    <3>1. req[p].team \in TeamIds
      BY <1>0, <2>1 DEF CreateRollback, DeleteTeamRow, ReqOK, Nameless, Responding
    <3> QED BY <2>1, <3>1 DEF CreateRollback, DeleteTeamRow
  <2>2. CASE RespondDisband(p)
    <3>1. req[p].teams \subseteq TeamIds
      BY <1>0 DEF Request
    <3> QED BY <2>2, <3>1 DEF RespondDisband
  <2> QED BY <2>1, <2>2
<1>2. req'[p].at \in Loose /\ \A q \in Requests \ {p} : req'[q] = req[q]
  <2>1. CASE CreateRollback(p) \/ DeleteTeamRow(p)
    BY <1>0, <2>1, GoesLoose DEF CreateRollback, DeleteTeamRow
  <2>2. CASE RespondDisband(p)
    <3>1. PICK u : req' = [req EXCEPT ![p].teams = @ \ {u},
                    ![p].at = IF req[p].teams = {u} THEN "respond.write" ELSE @]
      BY <2>2 DEF RespondDisband
    <3>2. PICK X : X = req[p].teams \ {u}
      OBVIOUS
    <3>3. PICK a : a = IF req[p].teams = {u} THEN "respond.write" ELSE req[p].at
      OBVIOUS
    <3>4. req' = [req EXCEPT ![p].teams = X, ![p].at = a]
      <4>1. PICK n : n = [req[p] EXCEPT !.teams = X]
        OBVIOUS
      <4>2. PICK r : r = [n EXCEPT !.at = a]
        OBVIOUS
      <4>3. req' = [req EXCEPT ![p] = r]
        BY <3>1, <3>2, <3>3, <4>1, <4>2
      <4> QED BY <4>1, <4>2, <4>3
    <3>5. a \in {"respond.write", "respond.disband"}
      BY <2>2, <3>3 DEF RespondDisband
    <3> QED BY <1>0, <3>4, <3>5, GoesWith, LoosePlaces
  <2> QED BY <2>1, <2>2
<1>3. CASE UNCHANGED tables
  <2>1. Untouched
    BY <1>0, <1>3 DEF Untouched, Exists, tables
  <2> QED BY <1>2, <2>1, UntouchedKeepsApart
<1>4. CASE t \in TeamIds /\ Exists(t) /\ DropTeam(t)
  <2>1. /\ TeamsStay /\ RowsApart' /\ Promise!Disband(t)
        /\ \A u \in TeamIds : Exists(u) /\ Seated(u)' => Seated(u)
    BY <1>0, <1>4, DisbandSeen
  <2>2. Apart'
    BY <1>2, <2>1, LooseKeepsApart
  <2> QED BY <1>4, <2>1, <2>2 DEF PromiseStep, Promise!Next
<1> QED BY <1>1, <1>3, <1>4

(* leaveTeam, removeMember, cancelInvitation, and inviteMember's delete of *)
(* a rejected row.                                                         *)
LEMMA WithdrawPromised ==
  ASSUME TeamsInv, Apart, NEW p \in Requests, RowDelete(p) \/ InviteDrop(p)
  PROVE  Apart' /\ PromiseStep
<1>0. /\ TypeOK /\ ReqOK(req[p]) /\ SeekOK(req[p]) /\ req[p].at \in Dropping
      /\ UNCHANGED <<team, answer>>
  BY DEF TeamsInv, ReqsOK, Apart, RowDelete, InviteDrop, Dropping, history
<1>1. PICK m \in RowIds : m = req[p].row /\ (Live(m) => members[m].role = "ANGGOTA")
  BY <1>0 DEF ReqOK
<1>2. PICK t \in TeamIds : t = req[p].team
  BY <1>0 DEF ReqOK, Dropping, Nameless, Responding
<1>3. /\ TeamsStay /\ RowsApart' /\ PromiseStep
      /\ \A u \in TeamIds : Exists(u) /\ Seated(u)' => Seated(u)
  <2>1. CASE Live(m)
    <3>1. DropRow(m)
      BY <1>1, <2>1 DEF RowDelete, InviteDrop
    <3>2. /\ TeamsStay /\ RowsApart' /\ Promise!Withdraw(m)
          /\ \A u \in TeamIds : Seated(u)' => Seated(u)
      BY <1>0, <1>1, <2>1, <3>1, WithdrawSeen
    <3> QED BY <3>2 DEF PromiseStep, Promise!Next
  <2>2. CASE ~Live(m)
    <3>1. Untouched
      BY <1>0, <1>1, <2>2 DEF RowDelete, InviteDrop, Untouched, Exists
    <3> QED BY <3>1, UntouchedStays, UntouchedUnseen DEF PromiseStep
  <2> QED BY <2>1, <2>2
<1>4. CASE RowDelete(p)
  <2>1. req'[p].at \in Loose /\ \A q \in Requests \ {p} : req'[q] = req[q]
    BY <1>0, <1>4, GoesLoose DEF RowDelete
  <2> QED BY <1>3, <2>1, LooseKeepsApart
<1>5. CASE InviteDrop(p)
  <2>1. "invite.insert" \in Places
    BY DEF Places
  <2>2. PICK r \in Request : /\ Moves(p, r) /\ r.at = "invite.insert" /\ r.team = t
                             /\ r.subject = req[p].subject
    BY <1>0, <1>2, <1>5, <2>1, GoesTo DEF InviteDrop
  <2>3. req'[p] = r /\ \A q \in Requests \ {p} : req'[q] = req[q]
    BY <1>0, <2>2 DEF Moves, TypeOK
  <2>4. Exists(t) /\ Seated(t) => Seated(t)'
    BY <1>0, <1>3 DEF TeamsStay, Exists
  <2>5. SeekOK(req[p])'
    BY <1>0, <1>2, <1>5, <2>2, <2>3, <2>4 DEF InviteDrop, SeekOK, Inviting, Joining, Seating,
       Exists
  <2>6. req'[p].at \notin Seating
    BY <2>2, <2>3 DEF Seating
  <2> QED BY <1>3, <2>3, <2>5, <2>6, KeepingApart
<1> QED BY <1>4, <1>5

(* inviteMember and joinTeam ask for a place.                              *)
LEMMA AskPromised ==
  ASSUME TeamsInv, Apart, NEW p \in Requests, InviteInsert(p) \/ JoinInsert(p)
  PROVE  Apart' /\ PromiseStep
<1>0. /\ TypeOK /\ ReqOK(req[p]) /\ SeekOK(req[p])
      /\ req[p].at \in {"invite.insert", "join.insert"} /\ UNCHANGED <<team, answer>>
  BY DEF TeamsInv, ReqsOK, Apart, InviteInsert, JoinInsert, history
<1>1. PICK t \in TeamIds : t = req[p].team
  BY <1>0 DEF ReqOK, Nameless, Responding
<1>2. PICK by \in Students : by = req[p].who
  BY <1>0 DEF ReqOK
<1>3. req'[p].at \in Loose /\ \A q \in Requests \ {p} : req'[q] = req[q]
  BY <1>0, GoesLoose DEF InviteInsert, JoinInsert
<1>4. CASE ~Exists(t)
  <2>1. Untouched
    BY <1>0, <1>1, <1>4 DEF InviteInsert, JoinInsert, Untouched, Exists
  <2> QED BY <1>3, <2>1, UntouchedKeepsApart
<1>5. CASE Exists(t)
  <2>1. PICK s \in Students :
          /\ InsertMember(t, s, "ANGGOTA", "PENDING", by)
          /\ s # team[t].leader /\ by \in {s, team[t].leader} /\ Seated(t)
    <3>1. CASE InviteInsert(p)
      <4>1. PICK s \in Students : s = req[p].subject
        BY <1>0, <3>1 DEF InviteInsert, ReqOK, Inviting
      <4>2. InsertMember(t, s, "ANGGOTA", "PENDING", by)
        BY <1>1, <1>2, <1>5, <3>1, <4>1 DEF InviteInsert
      <4> QED BY <1>0, <1>1, <1>2, <1>5, <3>1, <4>1, <4>2
              DEF InviteInsert, ReqOK, SeekOK, Inviting
    <3>2. CASE JoinInsert(p)
      <4>1. InsertMember(t, by, "ANGGOTA", "PENDING", by)
        BY <1>1, <1>2, <1>5, <3>2 DEF JoinInsert
      <4> QED BY <1>0, <1>1, <1>2, <1>5, <3>2, <4>1 DEF JoinInsert, SeekOK, Joining
    <3> QED BY <3>1, <3>2
  <2>2. /\ TeamsStay /\ RowsApart' /\ UNCHANGED Circles
        /\ \A u \in TeamIds : Seated(u)' => Seated(u)
        /\ \E m \in RowIds :
             /\ PlacesSeen[m].state = "none"
             /\ PlacesSeen' = [PlacesSeen EXCEPT ![m] =
                  [state |-> "PENDING", team |-> t, student |-> s,
                   leads |-> "ANGGOTA" = "KETUA", maker |-> by, answerer |-> None]]
    BY <1>0, <2>1, PlaceTaken
  <2>3. Apart'
    BY <1>3, <2>2, LooseKeepsApart
  <2>4. PICK m \in RowIds :
          /\ PlacesSeen[m].state = "none"
          /\ PlacesSeen' = [PlacesSeen EXCEPT ![m] =
               [state |-> "PENDING", team |-> t, student |-> s, leads |-> FALSE,
                maker |-> by, answerer |-> None]]
    BY <2>2
  <2>5. Circles[t].leader = team[t].leader /\ Promise!There(t) /\ Promise!HasLeader(t)
    BY <1>5, <2>1, TeamsSeen, SeatsSeen
  <2>6. Promise!Ask(t, s, by, m)
    BY <2>1, <2>2, <2>4, <2>5 DEF Promise!Ask
  <2> QED BY <2>3, <2>6 DEF PromiseStep, Promise!Next
<1> QED BY <1>4, <1>5

LEMMA AnswerPromised ==
  ASSUME TeamsInv, Apart, NEW p \in Requests, RespondWrite(p)
  PROVE  Apart' /\ PromiseStep
<1>0. TypeOK /\ ReqOK(req[p]) /\ req[p].at = "respond.write" /\ UNCHANGED team
  BY DEF TeamsInv, ReqsOK, RespondWrite
<1>1. PICK s \in Students : s = req[p].who
  BY <1>0 DEF ReqOK
<1>2. PICK m \in RowIds :
        m = req[p].row /\ (Live(m) => members[m].role = "ANGGOTA" /\ MayAnswer(s, m))
  BY <1>0, <1>1 DEF ReqOK, Responding
<1>3. req'[p].at \in Loose /\ \A q \in Requests \ {p} : req'[q] = req[q]
  BY <1>0, GoesLoose DEF RespondWrite
<1>4. CASE Live(m)
  <2>1. PICK verdict \in {"ACCEPTED", "REJECTED"} :
          verdict = IF req[p].accept THEN "ACCEPTED" ELSE "REJECTED"
    OBVIOUS
  <2>2. members' = [members EXCEPT ![m].state = verdict] /\ answer' = [answer EXCEPT ![m] = s]
    BY <1>1, <1>2, <1>4, <2>1 DEF RespondWrite
  <2>3. /\ TeamsStay /\ RowsApart' /\ Promise!Answer(m, s, verdict)
        /\ \A t \in TeamIds : Seated(t)' => Seated(t)
    BY <1>0, <1>2, <1>4, <2>2, AnswerSeen
  <2>4. Apart'
    BY <1>3, <2>3, LooseKeepsApart
  <2> QED BY <2>3, <2>4 DEF PromiseStep, Promise!Next
<1>5. CASE ~Live(m)
  <2>1. Untouched
    BY <1>0, <1>2, <1>5 DEF RespondWrite, Untouched, Exists
  <2> QED BY <1>3, <2>1, UntouchedKeepsApart
<1> QED BY <1>4, <1>5

(* joinTeam's checks: the team and the student stay those of the call.     *)
LEMMA JoinChecksPromised ==
  ASSUME TeamsInv, Apart, NEW p \in Requests, JoinMemberships(p) \/ JoinCount(p)
  PROVE  Apart' /\ PromiseStep
<1>0. /\ TypeOK /\ ReqOK(req[p]) /\ SeekOK(req[p])
      /\ req[p].at \in {"join.memberships", "join.count"} /\ UNCHANGED <<team, members, answer>>
  BY DEF TeamsInv, ReqsOK, Apart, JoinMemberships, JoinCount, tables, history
<1>1. PICK t \in TeamIds : t = req[p].team
  BY <1>0 DEF ReqOK, Nameless, Responding
<1>2. Untouched
  BY <1>0 DEF Untouched, Exists
<1>3. CASE Done(p)
  BY <1>0, <1>2, <1>3, GoesLoose, UntouchedKeepsApart
<1>4. ASSUME NEW place \in {"join.count", "join.insert"}, Goto(p, place)
      PROVE  Apart' /\ PromiseStep
  <2>1. place \in Places
    BY DEF Places
  <2>2. PICK r \in Request : /\ Moves(p, r) /\ r.at = place /\ r.team = t
                             /\ r.who = req[p].who
    BY <1>0, <1>1, <1>4, <2>1, GoesTo
  <2>3. req'[p] = r /\ \A q \in Requests \ {p} : req'[q] = req[q]
    BY <1>0, <2>2 DEF Moves, TypeOK
  <2>4. UNCHANGED <<Exists(t), Seated(t)>>
    BY <1>2, UntouchedStays
  <2>5. Exists(t) => Seated(t) /\ r.who # team[t].leader
    BY <1>0, <1>1, <2>2 DEF SeekOK, Joining
  <2>6. SeekOK(req[p])' /\ req'[p].at \notin Seating
    BY <1>0, <2>2, <2>3, <2>4, <2>5 DEF SeekOK, Inviting, Seating, Exists
  <2> QED BY <1>2, <2>3, <2>6, UntouchedKeepsApart
<1> QED BY <1>3, <1>4 DEF JoinMemberships, JoinCount, Proceed

(* inviteMember's look at the invitee's rows.  One of the leader's own is  *)
(* always there, and it is not a rejected one.                             *)
LEMMA InviteLookPromised ==
  ASSUME TeamsInv, Apart, NEW p \in Requests, InviteLook(p)
  PROVE  Apart' /\ PromiseStep
<1>0. /\ TypeOK /\ ReqOK(req[p]) /\ SeekOK(req[p]) /\ req[p] \in Request
      /\ req[p].at = "invite.look" /\ UNCHANGED <<team, members, answer>>
  BY DEF TeamsInv, TypeOK, ReqsOK, Apart, InviteLook, tables, history
<1>1. PICK t \in TeamIds : t = req[p].team
  BY <1>0 DEF ReqOK, Nameless, Responding
<1>2. Untouched
  BY <1>0 DEF Untouched, Exists
<1>3. UNCHANGED <<Exists(t), Seated(t)>> /\ (Exists(t) => Seated(t))
  BY <1>0, <1>1, <1>2, UntouchedStays DEF SeekOK, Inviting
<1>4. CASE Done(p)
  BY <1>0, <1>2, <1>4, GoesLoose, UntouchedKeepsApart
<1>5. ASSUME req'[p].at \in {"invite.drop", "invite.insert"}, req'[p].team = t,
             req'[p].subject = req[p].subject, \A q \in Requests \ {p} : req'[q] = req[q],
             Exists(t) => req[p].subject # team[t].leader
      PROVE  Apart' /\ PromiseStep
  <2>1. SeekOK(req[p])' /\ req'[p].at \notin Seating
    BY <1>0, <1>3, <1>5 DEF SeekOK, Joining, Seating, Exists
  <2> QED BY <1>2, <1>5, <2>1, UntouchedKeepsApart
<1>6. CASE RowsFor(t, req[p].subject) = {} /\ Goto(p, "invite.insert")
  <2>1. "invite.insert" \in Places
    BY DEF Places
  <2>2. PICK r \in Request : /\ Moves(p, r) /\ r.at = "invite.insert" /\ r.team = t
                             /\ r.subject = req[p].subject
    BY <1>0, <1>1, <1>6, <2>1, GoesTo
  <2>3. Exists(t) => req[p].subject # team[t].leader
    <3> SUFFICES ASSUME Exists(t) PROVE req[p].subject # team[t].leader
      OBVIOUS
    <3>1. PICK m \in RowsOf(t) : members[m].role = "KETUA"
      BY <1>3 DEF Seated
    <3>2. members[m].student = team[t].leader
      BY <3>1 DEF RowsOf, TeamsInv, RowsOK, RowOK
    <3> QED BY <1>6, <3>1, <3>2 DEF RowsFor
  <2>4. req'[p] = r /\ \A q \in Requests \ {p} : req'[q] = req[q]
    BY <1>0, <2>2 DEF Moves, TypeOK
  <2> QED BY <1>5, <2>2, <2>3, <2>4
<1>7. ASSUME NEW m \in RowsFor(t, req[p].subject), members[m].state = "REJECTED",
             req' = [req EXCEPT ![p].at = "invite.drop", ![p].row = m]
      PROVE  Apart' /\ PromiseStep
  <2>1. /\ m \in RowIds /\ Live(m) /\ members[m].team = t
        /\ members[m].student = req[p].subject
    BY DEF RowsFor, RowsOf
  <2>2. members[m].role = "ANGGOTA"
    BY <1>7, <2>1 DEF TeamsInv, RowsOK, RowOK, TypeOK, MemberRow
  <2>3. req[p].subject # team[t].leader
    BY <2>1, <2>2 DEF Apart, RowsApart
  <2>4. PICK n : n = [req[p] EXCEPT !.at = "invite.drop"]
    OBVIOUS
  <2>5. /\ n \in Request /\ n.at = "invite.drop" /\ n.team = t
        /\ n.subject = req[p].subject
    BY <1>0, <1>1, <2>4, AtPlace DEF Places
  <2>6. PICK r : r = [n EXCEPT !.row = m]
    OBVIOUS
  <2>7. r.at = "invite.drop" /\ r.team = t /\ r.subject = req[p].subject
    BY <2>5, <2>6 DEF Request
  <2>8. req' = [req EXCEPT ![p] = r]
    BY <1>7, <2>4, <2>6
  <2>9. req'[p] = r /\ \A q \in Requests \ {p} : req'[q] = req[q]
    BY <1>0, <2>8 DEF TypeOK
  <2> QED BY <1>5, <2>3, <2>7, <2>9
<1> QED BY <1>1, <1>4, <1>6, <1>7 DEF InviteLook

(* The calls: only joinTeam and inviteMember start with a team that the    *)
(* request will ask for a place in.                                        *)
LEMMA CallsPromised ==
  ASSUME TeamsInv, Apart, NEW p \in Requests, NEW s \in Students, Call(p, s)
  PROVE  Apart' /\ PromiseStep
<1>0. TypeOK /\ UNCHANGED <<team, members, answer>>
  BY DEF TeamsInv, Call, CreateBegin, LeaveBegin, RemoveBegin, CancelBegin, RespondBegin,
     DeleteBegin, FinalizeBegin, JoinBegin, DraftBegin, ResetBegin, InviteBegin, tables,
     history
<1>1. Untouched
  BY <1>0 DEF Untouched, Exists
<1>2. ASSUME NEW r, Begin(p, r), r.at \in Loose PROVE Apart' /\ PromiseStep
  <2>1. req'[p] = r /\ \A q \in Requests \ {p} : req'[q] = req[q]
    BY <1>0, <1>2, Begins
  <2> QED BY <1>1, <1>2, <2>1, UntouchedKeepsApart
<1>3. ASSUME NEW t \in TeamIds, NEW r, Begin(p, r), r.team = t, Known(t),
             r.at = "invite.look" \/ (r.at = "join.memberships" /\ r.who # team[t].leader)
      PROVE  Apart' /\ PromiseStep
  <2>1. req'[p] = r /\ \A q \in Requests \ {p} : req'[q] = req[q]
    BY <1>0, <1>3, Begins
  <2>2. Exists(t)' /\ Seated(t)' /\ team'[t].leader = team[t].leader
    BY <1>1, <1>3, UntouchedStays DEF Known
  <2>3. SeekOK(req[p])' /\ req'[p].at \notin Seating
    BY <1>0, <1>3, <2>1, <2>2 DEF SeekOK, Inviting, Joining, Seating, Exists
  <2> QED BY <1>1, <2>1, <2>3, UntouchedKeepsApart
<1>4. CASE CreateBegin(p, s)
  <2>1. PICK r : r = [Idle EXCEPT !.at = "create.memberships", !.who = s]
    OBVIOUS
  <2>2. Begin(p, r) /\ r.at = "create.memberships"
    BY <1>4, <2>1 DEF CreateBegin, Idle
  <2> QED BY <1>2, <2>2, LoosePlaces
<1>5. ASSUME NEW m \in RowIds, LeaveBegin(p, s, m) \/ RemoveBegin(p, s, m) \/ CancelBegin(p, s, m)
      PROVE  Apart' /\ PromiseStep
  <2>1. PICK r : r = [Idle EXCEPT !.at = "row.delete", !.who = s, !.row = m,
                                  !.team = members[m].team]
    OBVIOUS
  <2>2. Begin(p, r) /\ r.at = "row.delete"
    BY <1>5, <2>1 DEF LeaveBegin, RemoveBegin, CancelBegin, Idle
  <2> QED BY <1>2, <2>2, LoosePlaces
<1>6. ASSUME NEW m \in RowIds, NEW yes \in BOOLEAN, RespondBegin(p, s, m, yes)
      PROVE  Apart' /\ PromiseStep
  <2>1. PICK a : a = IF yes /\ members[m].student = s THEN "respond.look"
                                                      ELSE "respond.write"
    OBVIOUS
  <2>2. PICK r : r = [Idle EXCEPT !.who = s, !.row = m, !.accept = yes, !.at = a]
    OBVIOUS
  <2>3. Begin(p, r) /\ r.at = a
    BY <1>6, <2>1, <2>2 DEF RespondBegin, Idle
  <2> QED BY <1>2, <2>1, <2>3, LoosePlaces
<1>7. ASSUME NEW t \in TeamIds, DeleteBegin(p, s, t) \/ FinalizeBegin(p, s, t)
      PROVE  Apart' /\ PromiseStep
  <2>1. PICK a \in {"team.letters", "team.delete", "finalize.look", "finalize.fix"} :
          Begin(p, [Idle EXCEPT !.who = s, !.team = t, !.at = a])
    BY <1>7 DEF DeleteBegin, FinalizeBegin
  <2>2. PICK r : r = [Idle EXCEPT !.who = s, !.team = t, !.at = a]
    OBVIOUS
  <2>3. Begin(p, r) /\ r.at = a
    BY <2>1, <2>2 DEF Idle
  <2> QED BY <1>2, <2>1, <2>3, LoosePlaces
<1>8. ASSUME NEW t \in TeamIds, DraftBegin(p, s, t) \/ ResetBegin(p, s, t)
      PROVE  Apart' /\ PromiseStep
  <2>1. PICK a \in {"draft.member", "reset.look"} :
          Begin(p, [Idle EXCEPT !.at = a, !.who = s, !.team = t])
    BY <1>8 DEF DraftBegin, ResetBegin
  <2>2. PICK r : r = [Idle EXCEPT !.at = a, !.who = s, !.team = t]
    OBVIOUS
  <2>3. Begin(p, r) /\ r.at = a
    BY <2>1, <2>2 DEF Idle
  <2> QED BY <1>2, <2>1, <2>3, LoosePlaces
<1>9. ASSUME NEW t \in TeamIds, JoinBegin(p, s, t) PROVE Apart' /\ PromiseStep
  <2>1. PICK r : r = [Idle EXCEPT !.at = "join.memberships", !.who = s, !.team = t]
    OBVIOUS
  <2>2. Begin(p, r) /\ r.at = "join.memberships" /\ r.who = s /\ r.team = t
    BY <1>9, <2>1 DEF JoinBegin, Idle
  <2> QED BY <1>3, <1>9, <2>2 DEF JoinBegin
<1>10. ASSUME NEW t \in TeamIds, NEW u \in Students, InviteBegin(p, s, t, u)
       PROVE  Apart' /\ PromiseStep
  <2>1. PICK r : r = [Idle EXCEPT !.at = "invite.look", !.who = s, !.team = t, !.subject = u]
    OBVIOUS
  <2>2. Begin(p, r) /\ r.at = "invite.look" /\ r.team = t /\ Known(t)
    BY <1>10, <2>1 DEF InviteBegin, Idle
  <2> QED BY <1>3, <2>2
<1> QED BY <1>4, <1>5, <1>6, <1>7, <1>8, <1>9, <1>10 DEF Call

(* Every step is one of the promise, or unseen.                            *)
LEMMA StepIsPromised ==
  TeamsInv /\ Apart /\ [Next]_vars => Apart' /\ [Promise!Next]_<<Circles, PlacesSeen>>
<1> SUFFICES ASSUME TeamsInv, Apart, [Next]_vars PROVE Apart' /\ PromiseStep
  BY DEF PromiseStep
<1>1. ASSUME NEW p \in Requests, Step(p) \/ Die(p) PROVE Apart' /\ PromiseStep
  <2>1. ASSUME \/ CreateMemberships(p) \/ DeleteLetters(p) \/ FinalizeFix(p)
               \/ FinalizeLook(p) \/ FinalizeInsert(p) \/ RespondLook(p) \/ DraftMember(p)
               \/ DraftLook(p) \/ DraftInsert(p) \/ ResetLook(p) \/ ResetArchive(p)
               \/ ResetUnfix(p) \/ Die(p)
        PROVE  Apart' /\ PromiseStep
    BY <2>1, LooseSteps, UntouchedKeepsApart
  <2> QED BY <1>1, <2>1, CreateTeamPromised, CreateLeaderPromised, DisbandPromised,
         WithdrawPromised, AskPromised, AnswerPromised, JoinChecksPromised,
         InviteLookPromised DEF Step
<1>2. ASSUME UNCHANGED <<team, members, answer, req>> PROVE Apart' /\ PromiseStep
  <2>1. Untouched
    BY <1>2 DEF Untouched, Exists
  <2>2. Apart'
    BY <1>2 DEF Apart, RowsApart, SeekOK, SeatersApart, At, Live, Exists, Seated, RowsOf
  <2> QED BY <2>1, <2>2, UntouchedUnseen DEF PromiseStep
<1>3. CASE UNCHANGED vars
  BY <1>2, <1>3 DEF vars
<1>4. ASSUME NEW x \in SubIds, LetterArrives(x) PROVE Apart' /\ PromiseStep
  BY <1>2, <1>4 DEF LetterArrives, history
<1> QED BY <1>1, <1>3, <1>4, CallsPromised DEF Next

LEMMA ApartHolds == Spec => []Apart
<1>1. TeamsInv /\ Apart /\ [Next]_vars => Apart'
  BY StepIsPromised
<1> QED BY <1>1, ApartInitially, TeamsInvHolds, PTL DEF Spec

(* Teams implements MembershipPromise: whatever requests overlap or die, a *)
(* student comes into a team or is turned away only by the answer of the   *)
(* party that did not ask, nobody but the leader has the leader's row, and *)
(* rows go with their team.                                                *)
THEOREM MembershipPromiseKept == Spec => KeepsPromise
<1>1. Init => Promise!Init
  <2>1. Init => Circles = [t \in TeamIds |-> [state |-> "none", leader |-> None]]
    BY DEF Init, Circles, CircleOf, Exists
  <2>2. Init => PlacesSeen = [m \in RowIds |-> Promise!NoPlace("none")]
    BY DEF Init, PlacesSeen, PlaceOf, Live, InvitationStatus, NoMember, Promise!NoPlace
  <2> QED BY <2>1, <2>2 DEF Promise!Init
<1>2. TeamsInv /\ Apart /\ [Next]_vars => [Promise!Next]_<<Circles, PlacesSeen>>
  BY StepIsPromised
<1> QED BY <1>1, <1>2, TeamsInvHolds, ApartHolds, PTL DEF Spec, KeepsPromise, Promise!Spec
=============================================================================
