------------------------------- MODULE Sessions -------------------------------
(***************************************************************************)
(* The auth_sessions table: a login exchanges the authorization code,      *)
(* reads the SSO profile, INSERTs a session with that profile as its       *)
(* snapshot and, in a second statement, DELETEs the user's other sessions. *)
(* Every later request loads the session (which deletes expired rows and   *)
(* fills in a missing snapshot), and may choose the active identity or log *)
(* out.  All writes name a row by its id in a statement after the one that *)
(* read it.                                                                *)
(*                                                                         *)
(* SSO is external: what it says of a user may change at any time.  A      *)
(* browser keeps its session id after the row is gone, so requests name    *)
(* any id ever issued.                                                     *)
(* The check of the OAuth state cookie precedes CallbackBegin and writes   *)
(* nothing.  A call to SSO that fails, an unverifiable token and a killed  *)
(* Worker all end a request where it is: Die.                              *)
(***************************************************************************)
EXTENDS FiniteSets, Naturals

CONSTANTS
  Users,
  SessionIds,  \* bound on the rows of auth_sessions
  OldIds,      \* ids that may stem from before the snapshot column
  Identities,  \* MAHASISWA, DOSEN, ADMIN, MENTOR
  Profiles,    \* what SSO may say about a user
  Offers,      \* the identities that a profile carries
  Requests,    \* bound on the HTTP requests in flight
  Mortal,      \* the requests that may be killed, or fail in SSO
  None

ASSUME ConstantsAssumption ==
  /\ OldIds \in SUBSET SessionIds
  /\ Offers \in [Profiles -> SUBSET Identities]
  /\ IsFiniteSet(Identities)
  /\ Mortal \in SUBSET Requests
  /\ None \notin Users \cup SessionIds \cup Identities \cup Profiles

VARIABLES
  session,  \* auth_sessions table
  issued,   \* history: the ids that were ever inserted
  req,      \* the requests in flight and what they remember
  cut       \* history: sessions whose login ended before its DELETE

vars == <<session, issued, req, cut>>

-----------------------------------------------------------------------------
Row == [user : Users, identity : Identities \cup {None},
        snap : Profiles \cup {None}, live : BOOLEAN]

NoRow == [user |-> None, identity |-> None, snap |-> None, live |-> FALSE]

Places == {"idle", "callback.profile", "callback.insert", "callback.delete",
           "load.expire", "load.read", "load.drop", "load.fetch", "load.cache",
           "load.verify", "select.write", "logout.read", "logout.delete"}

Request == [at : Places, op : {"me", "select", "logout", "callback"},
            first : BOOLEAN, user : Users \cup {None},
            sid : SessionIds \cup {None}, snap : Profiles \cup {None},
            identity : Identities \cup {None}]

Idle == [at |-> "idle", op |-> "me", first |-> TRUE, user |-> None,
         sid |-> None, snap |-> None, identity |-> None]

TypeOK ==
  /\ session \in [SessionIds -> Row \cup {NoRow}]
  /\ issued \in SUBSET SessionIds
  /\ req \in [Requests -> Request]
  /\ cut \in SUBSET SessionIds

Rows == {s \in SessionIds : session[s] # NoRow}
Of(u) == {s \in Rows : session[s].user = u}

(* Rows of the earlier version name a user and an identity, no snapshot.   *)
Init ==
  /\ session \in [SessionIds -> {NoRow} \cup
       [user : Users, identity : Identities \cup {None}, snap : {None}, live : {TRUE}]]
  /\ Rows \subseteq OldIds
  /\ \A s, t \in Rows : session[s].user = session[t].user => s = t
  /\ issued = Rows
  /\ req = [p \in Requests |-> Idle]
  /\ cut = {}

-----------------------------------------------------------------------------
Begin(p, r) == req[p].at = "idle" /\ req' = [req EXCEPT ![p] = r]
Goto(p, place) == req' = [req EXCEPT ![p].at = place]
Done(p) == req' = [req EXCEPT ![p] = Idle]

(* The handler that goes on knows the session's id and what was asked.     *)
Handle(p, place, first) ==
  req' = [req EXCEPT ![p] = [@ EXCEPT !.at = place, !.first = first,
                                      !.user = None, !.snap = None]]

Without(sids) == [s \in SessionIds |-> IF s \in sids THEN NoRow ELSE session[s]]

(* Mutant: a row that is gone is inserted again.                           *)
UpdateSession_Upsert(s, row) == session' = [session EXCEPT ![s] = row]

(* updateSession: an UPDATE by id, which finds a row or does nothing.      *)
UpdateSession(s, row) ==
  session' = IF s \in Rows THEN [session EXCEPT ![s] = row] ELSE session

OnlyIdentity(v) == IF Cardinality(Offers[v]) = 1
                   THEN CHOOSE i \in Identities : i \in Offers[v] ELSE None

-----------------------------------------------------------------------------
(* handleCallback                                                          *)
CallbackBegin(p, u) ==
  /\ Begin(p, [Idle EXCEPT !.at = "callback.profile", !.op = "callback", !.user = u])
  /\ UNCHANGED <<session, issued, cut>>

CallbackProfile(p, v) ==
  LET r == req[p] IN
  /\ r.at = "callback.profile"
  /\ req' = [req EXCEPT ![p].at = "callback.insert", ![p].snap = v]
  /\ UNCHANGED <<session, issued, cut>>

CallbackInsert(p, s) ==
  LET r == req[p] IN
  /\ r.at = "callback.insert"
  /\ s \in SessionIds \ issued
  /\ session' = [session EXCEPT ![s] =
       [user |-> r.user, identity |-> OnlyIdentity(r.snap), snap |-> r.snap, live |-> TRUE]]
  /\ issued' = issued \cup {s}
  /\ req' = [req EXCEPT ![p].at = "callback.delete", ![p].sid = s, ![p].snap = None]
  /\ UNCHANGED cut

(* Mutant: only expired sessions are deleted.                              *)
CallbackDelete_KeepOthers(p) ==
  /\ req[p].at = "callback.delete"
  /\ session' = Without({s \in Of(req[p].user) : s # req[p].sid /\ ~session[s].live})
  /\ Done(p)
  /\ UNCHANGED <<issued, cut>>

(* deleteOtherSessionsByAuthUserId                                         *)
CallbackDelete(p) ==
  /\ req[p].at = "callback.delete"
  /\ session' = Without(Of(req[p].user) \ {req[p].sid})
  /\ Done(p)
  /\ UNCHANGED <<issued, cut>>

-----------------------------------------------------------------------------
(* authMiddleware, then the handler behind it; both load the session.      *)
RequestBegin(p, s, op, i) ==
  /\ s \in issued
  /\ op \in {"me", "select", "logout"}
  /\ op = "select" <=> i # None
  /\ Begin(p, [Idle EXCEPT !.at = "load.expire", !.op = op, !.sid = s, !.identity = i])
  /\ UNCHANGED <<session, issued, cut>>

(* deleteExpiredSessions                                                   *)
LoadExpire(p) ==
  /\ req[p].at = "load.expire"
  /\ session' = Without({s \in Rows : ~session[s].live})
  /\ Goto(p, "load.read")
  /\ UNCHANGED <<issued, cut>>

LoadRead(p) ==
  LET row == session[req[p].sid] IN
  /\ req[p].at = "load.read"
  /\ \/ row = NoRow /\ Done(p)
     \/ row # NoRow /\ ~row.live /\ Goto(p, "load.drop")
     \/ /\ row # NoRow /\ row.live
        /\ req' = [req EXCEPT
             ![p].snap = row.snap,
             ![p].at = IF row.snap = None THEN "load.fetch" ELSE "load.verify"]
  /\ UNCHANGED <<session, issued, cut>>

LoadDrop(p) ==
  /\ req[p].at = "load.drop"
  /\ session' = Without({req[p].sid})
  /\ Done(p)
  /\ UNCHANGED <<issued, cut>>

(* The slow path: a session without a snapshot asks SSO and keeps what it  *)
(* is told.                                                                *)
LoadFetch(p, v) ==
  /\ req[p].at = "load.fetch"
  /\ req' = [req EXCEPT ![p].at = "load.cache", ![p].snap = v]
  /\ UNCHANGED <<session, issued, cut>>

LoadCache(p) ==
  LET s == req[p].sid IN
  /\ req[p].at = "load.cache"
  /\ UpdateSession(s, [session[s] EXCEPT !.snap = req[p].snap])
  /\ Goto(p, "load.verify")
  /\ UNCHANGED <<issued, cut>>

(* Mutant: the choice is not compared with the snapshot.                   *)
Verified_AnyIdentity(p) ==
  LET r == req[p] IN
  /\ r.at = "load.verify"
  /\ \/ r.op = "logout" /\ Handle(p, "logout.read", FALSE)
     \/ r.op # "logout" /\ r.first /\ Handle(p, "load.expire", FALSE)
     \/ ~r.first /\ r.op = "select" /\ Handle(p, "select.write", FALSE)
     \/ ~r.first /\ r.op = "me" /\ Done(p)
  /\ UNCHANGED <<session, issued, cut>>

(* After the first load the middleware hands over; getMe and               *)
(* selectIdentity load the session again, logout does not.                 *)
Verified(p) ==
  LET r == req[p] IN
  /\ r.at = "load.verify"
  /\ \/ r.op = "logout" /\ Handle(p, "logout.read", FALSE)
     \/ r.op # "logout" /\ r.first /\ Handle(p, "load.expire", FALSE)
     \/ ~r.first /\ r.op = "select" /\ r.identity \in Offers[r.snap]
          /\ Handle(p, "select.write", FALSE)
     \/ ~r.first /\ r.op = "select" /\ r.identity \notin Offers[r.snap] /\ Done(p)
     \/ ~r.first /\ r.op = "me" /\ Done(p)
  /\ UNCHANGED <<session, issued, cut>>

SelectWrite(p) ==
  LET s == req[p].sid IN
  /\ req[p].at = "select.write"
  /\ UpdateSession(s, [session[s] EXCEPT !.identity = req[p].identity])
  /\ Done(p)
  /\ UNCHANGED <<issued, cut>>

(* logout: the revocation of the refresh token is best effort and happens  *)
(* in SSO between the two statements.                                      *)
LogoutRead(p) ==
  /\ req[p].at = "logout.read"
  /\ Goto(p, "logout.delete")
  /\ UNCHANGED <<session, issued, cut>>

LogoutDelete(p) ==
  /\ req[p].at = "logout.delete"
  /\ session' = Without({req[p].sid})
  /\ Done(p)
  /\ UNCHANGED <<issued, cut>>

-----------------------------------------------------------------------------
Expire(s) ==
  /\ s \in Rows /\ session[s].live
  /\ session' = [session EXCEPT ![s].live = FALSE]
  /\ UNCHANGED <<issued, req, cut>>

Die(p) ==
  /\ p \in Mortal
  /\ req[p].at # "idle"
  /\ cut' = IF req[p].at = "callback.delete" THEN cut \cup {req[p].sid} ELSE cut
  /\ Done(p)
  /\ UNCHANGED <<session, issued>>

Step(p) ==
  \/ \E v \in Profiles : CallbackProfile(p, v) \/ LoadFetch(p, v)
  \/ \E s \in SessionIds : CallbackInsert(p, s)
  \/ CallbackDelete(p) \/ LoadExpire(p) \/ LoadRead(p) \/ LoadDrop(p) \/ LoadCache(p)
  \/ Verified(p) \/ SelectWrite(p) \/ LogoutRead(p) \/ LogoutDelete(p)

Call(p) ==
  \/ \E u \in Users : CallbackBegin(p, u)
  \/ \E s \in SessionIds, op \in {"me", "select", "logout"}, i \in Identities \cup {None} :
       RequestBegin(p, s, op, i)

Next ==
  \/ \E p \in Requests : Step(p) \/ Call(p) \/ Die(p)
  \/ \E s \in SessionIds : Expire(s)

Spec == Init /\ [][Next]_vars

(* A request in flight goes on until it answers or dies; nobody has to     *)
(* send one.                                                               *)
FairSpec == Spec /\ \A p \in Requests : WF_vars(Step(p))

-----------------------------------------------------------------------------
(* Two sessions of one user exist only while the login that inserted one   *)
(* of them has yet to delete the other, or was cut short before it could:  *)
(* no snapshot outlives a completed login (auth.service.ts:624).           *)
Unsettled(s) == s \in cut \/ \E p \in Requests : req[p].at = "callback.delete" /\ req[p].sid = s

OneSettledSession ==
  \A s, t \in Rows : s # t /\ session[s].user = session[t].user
                       => Unsettled(s) \/ Unsettled(t)

(* The identity a session acts as is one that its own snapshot carries,    *)
(* although it is chosen from a snapshot that was read earlier and written *)
(* by id (auth.service.ts:700).  Sessions of the earlier version can miss  *)
(* it: two slow paths may cache different profiles.                        *)
IdentityWasOffered ==
  \A s \in Rows \ OldIds : session[s].identity # None
                             => session[s].identity \in Offers[session[s].snap]

(* A session that was logged out, expired or replaced never comes back,    *)
(* whatever writes were in flight when it went.                            *)
EndedStaysEnded ==
  [][\A s \in issued : session[s] = NoRow => session'[s] = NoRow]_vars

(* Sessions that clash do so for a while only: some login completes its    *)
(* DELETE, unless it was cut short.                                        *)
Clash(u) == Cardinality(Of(u) \ cut) > 1
LoginsSettle == \A u \in Users : Clash(u) ~> ~Clash(u)

-----------------------------------------------------------------------------
(* What the code says and does not keep.                                   *)

(* auth.service.ts:626 "The new session above always has a fresh           *)
(* profileSnapshot": of two logins of one user that overlap each deletes   *)
(* the other's row, and both answer with a session that is gone.           *)
LoginLeavesOne ==
  [][\A p \in Requests : CallbackDelete(p) => session'[req[p].sid] # NoRow]_vars

(* auth.service.ts:670 selectIdentity answers with the identity it chose   *)
(* although its UPDATE may have found no row.                              *)
SelectedIsKept ==
  [][\A p \in Requests : SelectWrite(p) => session'[req[p].sid].identity = req[p].identity]_vars
=============================================================================
