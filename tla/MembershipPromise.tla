-------------------------- MODULE MembershipPromise --------------------------
(***************************************************************************)
(* What team formation promises to students: a team has one leader's row,  *)
(* which stays as long as the team; nobody else comes in or is turned away *)
(* but by the answer of the one of the two parties that did not ask; rows  *)
(* change hands never and go with their team at the latest.                *)
(***************************************************************************)
CONSTANTS Students, TeamIds, RowIds, None

VARIABLES
  circle,  \* of each team: whether it is there, and its leader
  place    \* of each row: whose place in which team it is, and who agreed

Standing == {"PENDING", "ACCEPTED", "REJECTED"}

Circle == [state : {"none", "there", "gone"}, leader : Students \cup {None}]

Place == [state : Standing \cup {"none", "gone"}, team : TeamIds \cup {None},
          student : Students \cup {None}, leads : BOOLEAN,
          maker : Students \cup {None}, answerer : Students \cup {None}]

NoPlace(st) == [state |-> st, team |-> None, student |-> None, leads |-> FALSE,
                maker |-> None, answerer |-> None]

TypeOK == circle \in [TeamIds -> Circle] /\ place \in [RowIds -> Place]

Init ==
  /\ circle = [t \in TeamIds |-> [state |-> "none", leader |-> None]]
  /\ place = [m \in RowIds |-> NoPlace("none")]

There(t) == circle[t].state = "there"
Held(m) == place[m].state \in Standing
Of(t) == {m \in RowIds : Held(m) /\ place[m].team = t}
HasLeader(t) == \E m \in Of(t) : place[m].leads
Parties(m) == {place[m].student, circle[place[m].team].leader}

Found(s, t) ==
  /\ circle[t].state = "none"
  /\ circle' = [circle EXCEPT ![t] = [state |-> "there", leader |-> s]]
  /\ UNCHANGED place

TakeLead(t, m) ==
  /\ There(t) /\ ~HasLeader(t) /\ place[m].state = "none"
  /\ place' = [place EXCEPT ![m] =
       [state |-> "ACCEPTED", team |-> t, student |-> circle[t].leader, leads |-> TRUE,
        maker |-> circle[t].leader, answerer |-> None]]
  /\ UNCHANGED circle

(* The leader invites the student, or the student asks to join.            *)
Ask(t, s, by, m) ==
  /\ There(t) /\ HasLeader(t) /\ place[m].state = "none"
  /\ s # circle[t].leader /\ by \in {s, circle[t].leader}
  /\ place' = [place EXCEPT ![m] =
       [state |-> "PENDING", team |-> t, student |-> s, leads |-> FALSE,
        maker |-> by, answerer |-> None]]
  /\ UNCHANGED circle

(* The party that did not ask answers; two overlapping answers of theirs   *)
(* both count, the later one in the end.                                   *)
Answer(m, s, verdict) ==
  /\ Held(m) /\ ~place[m].leads
  /\ s \in Parties(m) \ {place[m].maker}
  /\ place' = [place EXCEPT ![m].state = verdict, ![m].answerer = s]
  /\ UNCHANGED circle

(* One place is given up, taken back or taken away; never the leader's.    *)
Withdraw(m) ==
  /\ Held(m) /\ ~place[m].leads
  /\ place' = [place EXCEPT ![m] = NoPlace("gone")]
  /\ UNCHANGED circle

Disband(t) ==
  /\ There(t)
  /\ circle' = [circle EXCEPT ![t] = [state |-> "gone", leader |-> None]]
  /\ place' = [m \in RowIds |-> IF m \in Of(t) THEN NoPlace("gone") ELSE place[m]]

Next ==
  \/ \E t \in TeamIds : \/ \E s \in Students : Found(s, t)
                        \/ Disband(t)
                        \/ \E m \in RowIds :
                             \/ TakeLead(t, m)
                             \/ \E s, by \in Students : Ask(t, s, by, m)
  \/ \E m \in RowIds :
       \/ Withdraw(m)
       \/ \E s \in Students, verdict \in {"ACCEPTED", "REJECTED"} : Answer(m, s, verdict)

Spec == Init /\ [][Next]_<<circle, place>>
==============================================================================
