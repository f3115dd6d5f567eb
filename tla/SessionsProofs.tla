---------------------------- MODULE SessionsProofs ----------------------------
(***************************************************************************)
(* Proofs about Sessions, for any number of users, sessions, identities,   *)
(* profiles and requests.                                                  *)
(*                                                                         *)
(* The properties are not inductive: each is about rows, and what a step   *)
(* writes into a row was read in an earlier one.  Inv adds what a request  *)
(* remembers of the row it names (ReqOK), that this memory may be of a row *)
(* that is gone but never of one that came back, since ids are never       *)
(* reused (RowsIssued), and what a row's snapshot is (RowOK).              *)
(***************************************************************************)
EXTENDS Sessions, FiniteSetTheorems, TLAPS

Named == Places \ {"idle", "callback.profile", "callback.insert"}

ReqOK(r) ==
  /\ r.at = "callback.profile" => r.user \in Users
  /\ r.at = "callback.insert" => r.user \in Users /\ r.snap \in Profiles
  /\ r.at \in Named => r.sid \in issued
  /\ r.at = "callback.delete" =>
       r.user \in Users /\ (r.sid \in Rows => session[r.sid].user = r.user)
  /\ r.at \in {"load.fetch", "load.cache"} => r.sid \in OldIds
  /\ r.at = "load.cache" => r.snap \in Profiles
  /\ r.at = "load.verify" /\ r.sid \in Rows \ OldIds => r.snap = session[r.sid].snap
  /\ r.at = "select.write" /\ r.sid \in Rows \ OldIds =>
       r.identity \in Offers[session[r.sid].snap]

RowOK(s) ==
  s \in Rows \ OldIds =>
    /\ session[s].snap \in Profiles
    /\ session[s].identity # None => session[s].identity \in Offers[session[s].snap]

RowsIssued == Rows \subseteq issued
RowsOK == \A s \in SessionIds : RowOK(s)
ReqsOK == \A p \in Requests : ReqOK(req[p])

Inv == TypeOK /\ RowsIssued /\ RowsOK /\ ReqsOK /\ OneSettledSession

(* What a step does to a session that was issued: it ends, or it stays     *)
(* that of its user, and a snapshot that it has stays.                     *)
Keeps(s) ==
  \/ session'[s] = NoRow
  \/ /\ session[s] # NoRow
     /\ session'[s].user = session[s].user
     /\ s \notin OldIds => session'[s].snap = session[s].snap

-----------------------------------------------------------------------------
LEMMA NoRowIsNoRow == NoRow \notin Row
BY ConstantsAssumption DEF NoRow, Row

LEMMA OnlyIdentityOffered ==
  ASSUME NEW v \in Profiles
  PROVE  /\ OnlyIdentity(v) \in Identities \cup {None}
         /\ OnlyIdentity(v) # None => OnlyIdentity(v) \in Offers[v]
<1>1. CASE Cardinality(Offers[v]) = 1
  <2>1. IsFiniteSet(Offers[v]) /\ Offers[v] \subseteq Identities
    BY FS_Subset, ConstantsAssumption
  <2>2. PICK i : Offers[v] = {i}
    BY <1>1, <2>1, FS_Singleton
  <2>3. \E j \in Identities : j \in Offers[v]
    BY <2>1, <2>2
  <2> QED BY <1>1, <2>3 DEF OnlyIdentity
<1> QED BY <1>1 DEF OnlyIdentity

LEMMA Initially == Init => Inv
<1> SUFFICES ASSUME Init PROVE Inv
  OBVIOUS
<1>1. TypeOK
  <2>1. session \in [SessionIds -> Row \cup {NoRow}]
    BY DEF Init, Row, NoRow
  <2>2. Idle \in Request
    BY DEF Idle, Request, Places
  <2> QED BY <2>1, <2>2 DEF Init, TypeOK, Rows
<1>2. RowsIssued /\ RowsOK
  BY DEF Init, RowsIssued, RowsOK, RowOK
<1>3. ReqsOK
  BY DEF Init, ReqsOK, ReqOK, Idle, Named
<1>4. OneSettledSession
  BY DEF Init, OneSettledSession
<1> QED BY <1>1, <1>2, <1>3, <1>4 DEF Inv

(* A step of request p that keeps the issued sessions spoils nothing that  *)
(* another request remembers.                                              *)
LEMMA OthersUndisturbed ==
  ASSUME Inv, NEW q \in Requests,
         req'[q] = req[q],
         issued \subseteq issued',
         \A s \in issued : Keeps(s)
  PROVE  ReqOK(req[q])'
<1>1. ReqOK(req[q]) /\ req[q] \in Request BY DEF Inv, ReqsOK, TypeOK
<1>2. req[q].at \in Named => (req[q].sid \in Rows' => req[q].sid \in Rows)
  BY <1>1 DEF ReqOK, Keeps, Rows
<1>3. req[q].at \in Named /\ req[q].sid \in Rows' =>
        /\ session'[req[q].sid].user = session[req[q].sid].user
        /\ req[q].sid \notin OldIds => session'[req[q].sid].snap = session[req[q].sid].snap
  BY <1>1 DEF ReqOK, Keeps, Rows
<1>4. {"callback.delete", "load.verify", "select.write"} \subseteq Named
  BY DEF Named, Places
<1> QED BY <1>1, <1>2, <1>3, <1>4 DEF ReqOK

(* The same for the pairs of sessions of one user, when no row is added    *)
(* and p neither completes a login nor drops one without a trace.          *)
LEMMA StaysSettled ==
  ASSUME Inv, NEW p \in Requests, NEW r \in Request,
         req' = [req EXCEPT ![p] = r],
         Rows' \subseteq issued,
         cut \subseteq cut',
         \A s \in issued : Keeps(s),
         req[p].at = "callback.delete" => req[p].sid \in cut'
  PROVE  OneSettledSession'
<1>0. TypeOK /\ RowsIssued /\ OneSettledSession BY DEF Inv
<1> SUFFICES ASSUME NEW s \in SessionIds, NEW t \in SessionIds,
                    session'[s] # NoRow, session'[t] # NoRow, s # t,
                    session'[s].user = session'[t].user
             PROVE  Unsettled(s)' \/ Unsettled(t)'
  BY DEF OneSettledSession, Rows
<1>1. s \in issued /\ t \in issued
  BY DEF Rows
<1>2. s \in Rows /\ t \in Rows /\ session[s].user = session[t].user
  BY <1>1 DEF Keeps, Rows
<1>3. ASSUME NEW x, Unsettled(x) PROVE Unsettled(x)'
  BY <1>0, <1>3 DEF Unsettled, TypeOK
<1> QED BY <1>0, <1>2, <1>3 DEF OneSettledSession

LEMMA Preserves ==
  ASSUME Inv, NEW p \in Requests, NEW r \in Request,
         req' = [req EXCEPT ![p] = r],
         session' \in [SessionIds -> Row \cup {NoRow}],
         issued \subseteq issued', issued' \in SUBSET SessionIds,
         cut' \in SUBSET SessionIds,
         Rows' \subseteq issued',
         \A s \in issued : Keeps(s),
         \A s \in SessionIds : RowOK(s)',
         ReqOK(r)',
         OneSettledSession'
  PROVE  Inv'
<1>1. TypeOK' BY DEF Inv, TypeOK
<1>2. RowsIssued' /\ RowsOK' BY DEF RowsIssued, RowsOK
<1>3. ReqsOK'
  <2>1. ASSUME NEW q \in Requests PROVE ReqOK(req[q])'
    <3>1. CASE q = p
      <4>1. req'[q] = r BY <3>1 DEF Inv, TypeOK
      <4> QED BY <4>1 DEF ReqOK
    <3>2. CASE q # p
      <4>1. req'[q] = req[q] BY <3>2 DEF Inv, TypeOK
      <4> QED BY <4>1, OthersUndisturbed
    <3> QED BY <3>1, <3>2
  <2> QED BY <2>1 DEF ReqsOK
<1> QED BY <1>1, <1>2, <1>3 DEF Inv

(* A step that reads, asks SSO or ends.                                    *)
LEMMA MovesOnly ==
  ASSUME Inv, NEW p \in Requests, NEW r \in Request,
         req' = [req EXCEPT ![p] = r],
         UNCHANGED <<session, issued>>,
         cut \subseteq cut', cut' \in SUBSET SessionIds,
         req[p].at = "callback.delete" => req[p].sid \in cut',
         ReqOK(r)
  PROVE  Inv' /\ \A s \in issued : Keeps(s)
<1>1. ASSUME NEW s \in issued PROVE Keeps(s)
  BY DEF Keeps
<1>2. Rows' = Rows BY DEF Rows
<1>3. \A s \in SessionIds : RowOK(s)'
  BY <1>2 DEF Inv, RowsOK, RowOK
<1>4. ReqOK(r)'
  BY <1>2 DEF ReqOK
<1>5. OneSettledSession'
  BY <1>1, <1>2, StaysSettled DEF Inv, RowsIssued
<1>6. /\ session' \in [SessionIds -> Row \cup {NoRow}]
      /\ issued' \in SUBSET SessionIds /\ issued \subseteq issued' /\ Rows' \subseteq issued'
  BY <1>2 DEF Inv, TypeOK, RowsIssued
<1> QED BY <1>1, <1>3, <1>4, <1>5, <1>6, Preserves

(* A DELETE of the sessions S.                                             *)
LEMMA Removes ==
  ASSUME Inv, NEW p \in Requests, NEW r \in Request, NEW S,
         req' = [req EXCEPT ![p] = r],
         session' = Without(S),
         UNCHANGED <<issued, cut>>,
         r.at \in {"idle", "load.read"},
         r.at = "load.read" => r.sid \in issued,
         OneSettledSession'
  PROVE  Inv' /\ \A s \in issued : Keeps(s)
<1>0. TypeOK /\ RowsIssued /\ RowsOK BY DEF Inv
<1>1. /\ session' \in [SessionIds -> Row \cup {NoRow}]
      /\ \A s \in SessionIds : session'[s] = NoRow \/ session'[s] = session[s]
  BY <1>0 DEF Without, TypeOK
<1>2. Rows' \subseteq Rows
  BY <1>1 DEF Rows
<1>3. ASSUME NEW s \in issued PROVE Keeps(s)
  BY <1>0, <1>1 DEF Keeps, TypeOK
<1>4. \A s \in SessionIds : RowOK(s)'
  BY <1>0, <1>1, <1>2 DEF RowsOK, RowOK, Rows
<1>5. ReqOK(r)'
  BY DEF ReqOK, Named
<1>6. issued' \in SUBSET SessionIds /\ cut' \in SUBSET SessionIds /\ Rows' \subseteq issued'
  BY <1>0, <1>2 DEF TypeOK, RowsIssued
<1> QED BY <1>1, <1>3, <1>4, <1>5, <1>6, Preserves

-----------------------------------------------------------------------------
(* What a request remembers on the way.                                    *)
LEMMA AtPlace ==
  ASSUME NEW r \in Request, NEW a \in Places
  PROVE  [r EXCEPT !.at = a] \in Request
BY DEF Request

LEMMA WithSnap ==
  ASSUME NEW r \in Request, NEW v \in Profiles \cup {None}
  PROVE  [r EXCEPT !.snap = v] \in Request
BY DEF Request

LEMMA AtPlaceWithSnap ==
  ASSUME NEW r \in Request, NEW a \in Places, NEW v \in Profiles \cup {None}
  PROVE  /\ [r EXCEPT !.at = a, !.snap = v] \in Request
         /\ [r EXCEPT !.snap = v, !.at = a] \in Request
<1>1. PICK s \in Request : s = [r EXCEPT !.at = a]
  BY AtPlace
<1>2. [s EXCEPT !.snap = v] \in Request
  BY WithSnap
<1>3. PICK t \in Request : t = [r EXCEPT !.snap = v]
  BY WithSnap
<1>4. [t EXCEPT !.at = a] \in Request
  BY AtPlace
<1> QED BY <1>1, <1>2, <1>3, <1>4

LEMMA WithSid ==
  ASSUME NEW r \in Request, NEW s \in SessionIds
  PROVE  [r EXCEPT !.sid = s] \in Request
BY DEF Request

LEMMA Issues ==
  ASSUME NEW r \in Request, NEW s \in SessionIds
  PROVE  [r EXCEPT !.at = "callback.delete", !.sid = s, !.snap = None] \in Request
<1>1. "callback.delete" \in Places
  BY DEF Places
<1>2. PICK u \in Request : u = [r EXCEPT !.at = "callback.delete"]
  BY <1>1, AtPlace
<1>3. PICK v \in Request : v = [u EXCEPT !.sid = s]
  BY WithSid
<1>4. [v EXCEPT !.snap = None] \in Request
  BY WithSnap
<1> QED BY <1>2, <1>3, <1>4

-----------------------------------------------------------------------------
(* Each action in turn.                                                    *)
Good == Inv' /\ \A s \in issued : Keeps(s)

LEMMA Begins ==
  ASSUME Inv, NEW p \in Requests,
         \/ \E u \in Users : CallbackBegin(p, u)
         \/ \E s \in SessionIds, op \in {"me", "select", "logout"}, i \in Identities \cup {None} :
              RequestBegin(p, s, op, i)
  PROVE  Good
<1>0. TypeOK BY DEF Inv
<1>1. ASSUME NEW u \in Users, CallbackBegin(p, u) PROVE Good
  <2> DEFINE r == [Idle EXCEPT !.at = "callback.profile", !.op = "callback", !.user = u]
  <2>1. r \in Request BY DEF Idle, Request, Places
  <2>2. ReqOK(r) BY DEF ReqOK, Idle, Named
  <2>3. req' = [req EXCEPT ![p] = r] /\ UNCHANGED <<session, issued, cut>> /\ req[p].at = "idle"
    BY <1>1 DEF CallbackBegin, Begin
  <2> HIDE DEF r
  <2> QED BY <1>0, <2>1, <2>2, <2>3, MovesOnly DEF Good, TypeOK
<1>2. ASSUME NEW s \in SessionIds, NEW op \in {"me", "select", "logout"},
             NEW i \in Identities \cup {None}, RequestBegin(p, s, op, i)
      PROVE  Good
  <2> DEFINE r == [Idle EXCEPT !.at = "load.expire", !.op = op, !.sid = s, !.identity = i]
  <2>1. r \in Request BY DEF Idle, Request, Places
  <2>2. ReqOK(r) BY <1>2 DEF RequestBegin, ReqOK, Idle, Named
  <2>3. req' = [req EXCEPT ![p] = r] /\ UNCHANGED <<session, issued, cut>> /\ req[p].at = "idle"
    BY <1>2 DEF RequestBegin, Begin
  <2> HIDE DEF r
  <2> QED BY <1>0, <2>1, <2>2, <2>3, MovesOnly DEF Good, TypeOK
<1> QED BY <1>1, <1>2

LEMMA CallbackProfiles ==
  ASSUME Inv, NEW p \in Requests, NEW v \in Profiles, CallbackProfile(p, v)
  PROVE  Good
<1>0. TypeOK /\ ReqOK(req[p]) BY DEF Inv, ReqsOK
<1> DEFINE r == [req[p] EXCEPT !.at = "callback.insert", !.snap = v]
<1>1. r \in Request
  <2>1. "callback.insert" \in Places BY DEF Places
  <2>2. req[p] \in Request BY <1>0 DEF TypeOK
  <2> QED BY <2>1, <2>2, AtPlaceWithSnap
<1>2. ReqOK(r) BY <1>0 DEF CallbackProfile, ReqOK, Named, TypeOK, Request
<1>3. req' = [req EXCEPT ![p] = r] /\ UNCHANGED <<session, issued, cut>> /\ req[p].at = "callback.profile"
  BY <1>0 DEF CallbackProfile, TypeOK, Request
<1> HIDE DEF r
<1> QED BY <1>0, <1>1, <1>2, <1>3, MovesOnly DEF Good, TypeOK

LEMMA LoadFetches ==
  ASSUME Inv, NEW p \in Requests, NEW v \in Profiles, LoadFetch(p, v)
  PROVE  Good
<1>0. TypeOK /\ ReqOK(req[p]) BY DEF Inv, ReqsOK
<1> DEFINE r == [req[p] EXCEPT !.at = "load.cache", !.snap = v]
<1>1. r \in Request
  <2>1. "load.cache" \in Places BY DEF Places
  <2>2. req[p] \in Request BY <1>0 DEF TypeOK
  <2> QED BY <2>1, <2>2, AtPlaceWithSnap
<1>2. ReqOK(r) BY <1>0 DEF LoadFetch, ReqOK, Named, Places, TypeOK, Request
<1>3. req' = [req EXCEPT ![p] = r] /\ UNCHANGED <<session, issued, cut>> /\ req[p].at = "load.fetch"
  BY <1>0 DEF LoadFetch, TypeOK, Request
<1> HIDE DEF r
<1> QED BY <1>0, <1>1, <1>2, <1>3, MovesOnly DEF Good, TypeOK

LEMMA LoadReads ==
  ASSUME Inv, NEW p \in Requests, LoadRead(p)
  PROVE  Good
<1>0. TypeOK /\ RowsOK /\ ReqOK(req[p]) /\ Idle \in Request /\ ReqOK(Idle)
  BY DEF Inv, RowsOK, ReqsOK, ReqOK, Idle, Request, Places, Named
<1> DEFINE s == req[p].sid
           row == session[s]
<1>1. s \in issued /\ s \in SessionIds /\ req[p].at = "load.read" /\ UNCHANGED <<session, issued, cut>>
  BY <1>0 DEF LoadRead, ReqOK, Named, Places, TypeOK
<1>2. CASE Done(p)
  BY <1>0, <1>1, <1>2, MovesOnly DEF Done, Good, TypeOK
<1>3. CASE Goto(p, "load.drop")
  <2> DEFINE r == [req[p] EXCEPT !.at = "load.drop"]
  <2>1. r \in Request BY <1>0 DEF TypeOK, Request, Places
  <2>2. ReqOK(r) BY <1>0, <1>1 DEF ReqOK, Named, Places, TypeOK, Request
  <2>3. req' = [req EXCEPT ![p] = r] BY <1>0, <1>3 DEF Goto, TypeOK, Request
  <2> HIDE DEF r
  <2> QED BY <1>0, <1>1, <2>1, <2>2, <2>3, MovesOnly DEF Good, TypeOK
<1>4. CASE /\ row # NoRow /\ row.live
           /\ req' = [req EXCEPT ![p].snap = row.snap,
                ![p].at = IF row.snap = None THEN "load.fetch" ELSE "load.verify"]
  <2> DEFINE r == [req[p] EXCEPT !.snap = row.snap,
                     !.at = IF row.snap = None THEN "load.fetch" ELSE "load.verify"]
  <2>0. row \in Row BY <1>0, <1>1, <1>4 DEF TypeOK
  <2>1. r \in Request
    <3>1. req[p] \in Request BY <1>0 DEF TypeOK
    <3>2. row.snap \in Profiles \cup {None} BY <2>0 DEF Row
    <3>3. "load.fetch" \in Places /\ "load.verify" \in Places BY DEF Places
    <3> QED BY <3>1, <3>2, <3>3, AtPlaceWithSnap
  <2>2. ReqOK(r)
    <3>1. s \in Rows BY <1>1, <1>4 DEF Rows
    <3>2. row.snap = None => s \in OldIds
      BY <1>0, <1>1, <3>1, ConstantsAssumption DEF RowsOK, RowOK
    <3> QED BY <1>0, <1>1, <3>2 DEF ReqOK, Named, Places, TypeOK, Request
  <2>3. req' = [req EXCEPT ![p] = r] BY <1>0, <1>4 DEF TypeOK, Request
  <2> HIDE DEF r
  <2> QED BY <1>0, <1>1, <2>1, <2>2, <2>3, MovesOnly DEF Good, TypeOK
<1> QED BY <1>2, <1>3, <1>4 DEF LoadRead

LEMMA VerifiedGood ==
  ASSUME Inv, NEW p \in Requests, Verified(p)
  PROVE  Good
<1>0. TypeOK /\ ReqOK(req[p]) /\ Idle \in Request /\ ReqOK(Idle)
  BY DEF Inv, ReqsOK, ReqOK, Idle, Request, Places, Named
<1>1. req[p].at = "load.verify" /\ UNCHANGED <<session, issued, cut>>
  BY DEF Verified
<1>2. CASE Done(p)
  BY <1>0, <1>1, <1>2, MovesOnly DEF Done, Good, TypeOK
<1>3. ASSUME NEW place \in {"logout.read", "load.expire", "select.write"},
             Handle(p, place, FALSE),
             place = "select.write" => req[p].identity \in Offers[req[p].snap]
      PROVE  Good
  <2> DEFINE r == [req[p] EXCEPT !.at = place, !.first = FALSE, !.user = None, !.snap = None]
  <2>1. r \in Request BY <1>0 DEF TypeOK, Request, Places
  <2>2. ReqOK(r)
    <3>1. r.at = place /\ r.sid = req[p].sid /\ r.identity = req[p].identity
      BY <1>0 DEF TypeOK, Request
    <3> QED BY <1>0, <1>1, <1>3, <3>1 DEF ReqOK, Named, Places
  <2>3. req' = [req EXCEPT ![p] = r] BY <1>0, <1>3 DEF Handle, TypeOK, Request
  <2> HIDE DEF r
  <2> QED BY <1>0, <1>1, <2>1, <2>2, <2>3, MovesOnly DEF Good, TypeOK
<1> QED BY <1>2, <1>3 DEF Verified

LEMMA LogoutReads ==
  ASSUME Inv, NEW p \in Requests, LogoutRead(p)
  PROVE  Good
<1>0. TypeOK /\ ReqOK(req[p]) BY DEF Inv, ReqsOK
<1> DEFINE r == [req[p] EXCEPT !.at = "logout.delete"]
<1>1. r \in Request BY <1>0 DEF TypeOK, Request, Places
<1>2. ReqOK(r) BY <1>0 DEF LogoutRead, ReqOK, Named, Places, TypeOK, Request
<1>3. req' = [req EXCEPT ![p] = r] /\ UNCHANGED <<session, issued, cut>> /\ req[p].at = "logout.read"
  BY <1>0 DEF LogoutRead, Goto, TypeOK, Request
<1> HIDE DEF r
<1> QED BY <1>0, <1>1, <1>2, <1>3, MovesOnly DEF Good, TypeOK

LEMMA Dies ==
  ASSUME Inv, NEW p \in Requests, Die(p)
  PROVE  Good
<1>0. TypeOK /\ ReqOK(req[p]) /\ Idle \in Request /\ ReqOK(Idle)
  BY DEF Inv, ReqsOK, ReqOK, Idle, Request, Places, Named
<1>1. /\ cut \subseteq cut' /\ cut' \in SUBSET SessionIds
      /\ req[p].at = "callback.delete" => req[p].sid \in cut'
  BY <1>0 DEF Die, TypeOK, ReqOK, Named, Places
<1> QED BY <1>0, <1>1, MovesOnly DEF Die, Done, Good

LEMMA RemovesQuietly ==
  ASSUME Inv, NEW p \in Requests, NEW r \in Request, NEW S,
         req' = [req EXCEPT ![p] = r],
         session' = Without(S),
         UNCHANGED <<issued, cut>>,
         r.at \in {"idle", "load.read"},
         r.at = "load.read" => r.sid \in issued,
         req[p].at # "callback.delete"
  PROVE  Good
<1>0. TypeOK /\ RowsIssued BY DEF Inv
<1>1. \A s \in SessionIds : session'[s] = NoRow \/ session'[s] = session[s]
  BY <1>0 DEF Without, TypeOK
<1>2. \A s \in issued : Keeps(s)
  BY <1>0, <1>1 DEF Keeps, TypeOK
<1>3. Rows' \subseteq issued
  BY <1>0, <1>1 DEF Rows, RowsIssued
<1>4. OneSettledSession'
  BY <1>2, <1>3, StaysSettled
<1> QED BY <1>4, Removes DEF Good

LEMMA DeletesGood ==
  ASSUME Inv, NEW p \in Requests, LoadExpire(p) \/ LoadDrop(p) \/ LogoutDelete(p)
  PROVE  Good
<1>0. TypeOK /\ ReqOK(req[p]) /\ Idle \in Request /\ Idle.at = "idle"
  BY DEF Inv, ReqsOK, Idle, Request, Places
<1>1. CASE LoadExpire(p)
  <2> DEFINE r == [req[p] EXCEPT !.at = "load.read"]
  <2>1. r \in Request /\ r.at = "load.read" /\ r.sid = req[p].sid
    BY <1>0 DEF TypeOK, Request, Places
  <2>2. req[p].sid \in issued BY <1>0, <1>1 DEF LoadExpire, ReqOK, Named, Places
  <2>3. req' = [req EXCEPT ![p] = r]
    BY <1>0, <1>1 DEF LoadExpire, Goto, TypeOK, Request
  <2> HIDE DEF r
  <2>4. req[p].at = "load.expire" /\ UNCHANGED <<issued, cut>>
    BY <1>1 DEF LoadExpire
  <2>5. session' = Without({s \in Rows : ~session[s].live})
    BY <1>1 DEF LoadExpire
  <2> QED BY <2>1, <2>2, <2>3, <2>4, <2>5, RemovesQuietly
<1>2. CASE LoadDrop(p) \/ LogoutDelete(p)
  <2>1. /\ session' = Without({req[p].sid})
        /\ req' = [req EXCEPT ![p] = Idle]
        /\ UNCHANGED <<issued, cut>>
        /\ req[p].at # "callback.delete"
    BY <1>2 DEF LoadDrop, LogoutDelete, Done
  <2> QED BY <1>0, <2>1, RemovesQuietly
<1> QED BY <1>1, <1>2

(* The DELETE of a login leaves its own session only, if that still is.    *)
LEMMA CallbackDeletes ==
  ASSUME Inv, NEW p \in Requests, CallbackDelete(p)
  PROVE  Good
<1>0. TypeOK /\ RowsIssued /\ OneSettledSession /\ ReqOK(req[p]) /\ Idle \in Request /\ Idle.at = "idle"
  BY DEF Inv, ReqsOK, Idle, Request, Places
<1> DEFINE sid == req[p].sid
           u == req[p].user
<1>1. /\ session' = Without(Of(u) \ {sid})
      /\ req' = [req EXCEPT ![p] = Idle]
      /\ UNCHANGED <<issued, cut>>
      /\ req[p].at = "callback.delete"
  BY DEF CallbackDelete, Done
<1>2. OneSettledSession'
  <2> SUFFICES ASSUME NEW s \in SessionIds, NEW t \in SessionIds,
                      session'[s] # NoRow, session'[t] # NoRow, s # t,
                      session'[s].user = session'[t].user
               PROVE  Unsettled(s)' \/ Unsettled(t)'
    BY DEF OneSettledSession, Rows
  <2>1. /\ s \notin Of(u) \ {sid} /\ t \notin Of(u) \ {sid}
        /\ session'[s] = session[s] /\ session'[t] = session[t]
    BY <1>0, <1>1 DEF Without, TypeOK
  <2>2. s \in Rows /\ t \in Rows /\ session[s].user = session[t].user
    BY <2>1 DEF Rows
  <2>3. sid \in Rows => session[sid].user = u
    BY <1>0, <1>1 DEF ReqOK
  <2>4. s # sid /\ t # sid
    BY <2>1, <2>2, <2>3 DEF Of
  <2>5. ASSUME NEW x, x # sid, Unsettled(x) PROVE Unsettled(x)'
    BY <1>0, <1>1, <2>5 DEF Unsettled, TypeOK
  <2> QED BY <1>0, <2>2, <2>4, <2>5 DEF OneSettledSession
<1> HIDE DEF sid, u
<1> QED BY <1>0, <1>1, <1>2, Removes DEF Good

LEMMA CallbackInserts ==
  ASSUME Inv, NEW p \in Requests, NEW s \in SessionIds, CallbackInsert(p, s)
  PROVE  Good
<1>0. TypeOK /\ RowsIssued /\ RowsOK /\ OneSettledSession /\ ReqOK(req[p])
  BY DEF Inv, ReqsOK
<1> DEFINE row == [user |-> req[p].user, identity |-> OnlyIdentity(req[p].snap),
                   snap |-> req[p].snap, live |-> TRUE]
<1>1. /\ s \notin issued /\ req[p].at = "callback.insert"
      /\ session' = [session EXCEPT ![s] = row]
      /\ issued' = issued \cup {s} /\ cut' = cut
  BY DEF CallbackInsert
<1>2. req[p].user \in Users /\ req[p].snap \in Profiles
  BY <1>0, <1>1 DEF ReqOK
<1>3. row \in Row
  BY <1>2, OnlyIdentityOffered DEF Row
<1>4. row # NoRow
  BY <1>3, NoRowIsNoRow
<1>5. session' \in [SessionIds -> Row \cup {NoRow}]
  BY <1>0, <1>1, <1>3 DEF TypeOK
<1>6. ASSUME NEW t \in issued PROVE session'[t] = session[t] /\ Keeps(t)
  BY <1>0, <1>1, <1>6 DEF Keeps, TypeOK
<1>7. session'[s] = row
  BY <1>0, <1>1 DEF TypeOK
<1>8. Rows' = Rows \cup {s}
  BY <1>0, <1>1, <1>4, <1>7 DEF Rows, TypeOK
<1>9. ASSUME NEW t \in SessionIds PROVE RowOK(t)'
  <2>1. CASE t = s
    BY <1>2, <1>7, <2>1, OnlyIdentityOffered DEF RowOK
  <2>2. CASE t # s
    BY <1>0, <1>1, <1>8, <2>2 DEF RowsOK, RowOK, TypeOK
  <2> QED BY <2>1, <2>2
<1>10. PICK r \in Request :
         /\ r = [req[p] EXCEPT !.at = "callback.delete", !.sid = s, !.snap = None]
         /\ req' = [req EXCEPT ![p] = r]
  <2> DEFINE w == [req[p] EXCEPT !.at = "callback.delete", !.sid = s, !.snap = None]
  <2>1. w \in Request
    <3>1. req[p] \in Request BY <1>0 DEF TypeOK
    <3> QED BY <3>1, Issues
  <2>2. req' = [req EXCEPT ![p] = w]
    BY <1>0 DEF CallbackInsert, TypeOK, Request
  <2> QED BY <2>1, <2>2
<1>11. ReqOK(r)'
  <2>1. r.at = "callback.delete" /\ r.sid = s /\ r.user = req[p].user
    BY <1>0, <1>10 DEF TypeOK, Request
  <2>2. row.user = req[p].user
    OBVIOUS
  <2> QED BY <1>1, <1>2, <1>7, <2>1, <2>2 DEF ReqOK
<1>12. OneSettledSession'
  <2>1. req'[p].at = "callback.delete" /\ req'[p].sid = s
    BY <1>0 DEF CallbackInsert, TypeOK, Request
  <2>2. Unsettled(s)' BY <2>1 DEF Unsettled
  <2>3. ASSUME NEW x, Unsettled(x) PROVE Unsettled(x)'
    BY <1>0, <1>1, <1>10, <2>3 DEF Unsettled, TypeOK
  <2>4. ASSUME NEW t \in Rows', t # s PROVE t \in Rows /\ session'[t] = session[t]
    BY <1>0, <1>1, <1>8, <2>4 DEF TypeOK, Rows
  <2> SUFFICES ASSUME NEW t \in Rows', NEW v \in Rows', t # v,
                      session'[t].user = session'[v].user
               PROVE  Unsettled(t)' \/ Unsettled(v)'
    BY DEF OneSettledSession
  <2>5. CASE t = s \/ v = s
    BY <2>2, <2>5
  <2>6. CASE t # s /\ v # s
    BY <1>0, <2>3, <2>4, <2>6 DEF OneSettledSession
  <2> QED BY <2>5, <2>6
<1> HIDE DEF row
<1> QED
  BY <1>0, <1>1, <1>5, <1>6, <1>8, <1>9, <1>10, <1>11, <1>12, Preserves DEF Good, TypeOK, RowsIssued

(* updateSession of a row that a request loaded: LoadCache, SelectWrite.   *)
LEMMA UpdatesGood ==
  ASSUME Inv, NEW p \in Requests, LoadCache(p) \/ SelectWrite(p)
  PROVE  Good
<1>0. TypeOK /\ RowsIssued /\ RowsOK /\ ReqOK(req[p])
  BY DEF Inv, ReqsOK
<1> DEFINE s == req[p].sid
           row == IF req[p].at = "load.cache" THEN [session[s] EXCEPT !.snap = req[p].snap]
                                              ELSE [session[s] EXCEPT !.identity = req[p].identity]
<1>1. /\ req[p].at \in {"load.cache", "select.write"}
      /\ session' = IF s \in Rows THEN [session EXCEPT ![s] = row] ELSE session
      /\ UNCHANGED <<issued, cut>>
  BY DEF LoadCache, SelectWrite, UpdateSession
<1>2. s \in issued /\ s \in SessionIds
  BY <1>0, <1>1 DEF ReqOK, Named, Places, TypeOK
<1>3. ASSUME s \in Rows
      PROVE  /\ row \in Row
             /\ row.user = session[s].user
             /\ s \notin OldIds => row.snap = session[s].snap
             /\ row.identity \in {session[s].identity, req[p].identity}
             /\ row.identity = session[s].identity \/ req[p].at = "select.write"
  <2>1. session[s] \in Row BY <1>0, <1>2, <1>3 DEF TypeOK, Rows
  <2>2. req[p].at = "load.cache" => req[p].snap \in Profiles /\ s \in OldIds
    BY <1>0 DEF ReqOK
  <2>3. req[p].identity \in Identities \cup {None}
    BY <1>0 DEF TypeOK, Request
  <2> QED BY <1>1, <2>1, <2>2, <2>3 DEF Row
<1>4. s \in Rows => row # NoRow
  BY <1>3, NoRowIsNoRow
<1> HIDE DEF row
<1>5. session' \in [SessionIds -> Row \cup {NoRow}]
  BY <1>0, <1>1, <1>2, <1>3 DEF TypeOK
<1>6. Rows' = Rows
  BY <1>0, <1>1, <1>2, <1>4 DEF Rows, TypeOK
<1>7. ASSUME NEW t \in issued PROVE Keeps(t)
  <2>1. CASE t = s /\ s \in Rows
    BY <1>0, <1>1, <1>2, <1>3, <2>1 DEF Keeps, Rows, TypeOK
  <2>2. CASE ~(t = s /\ s \in Rows)
    BY <1>0, <1>1, <1>2, <2>2 DEF Keeps, TypeOK
  <2> QED BY <2>1, <2>2
<1>8. ASSUME NEW t \in SessionIds PROVE RowOK(t)'
  <2>1. CASE t = s /\ s \in Rows \ OldIds
    <3>1. session'[s] = row
      BY <1>0, <1>1, <1>2, <2>1 DEF TypeOK
    <3>2. req[p].at = "select.write" => req[p].identity \in Offers[session[s].snap]
      BY <1>0, <2>1 DEF ReqOK
    <3>3. /\ session[s].snap \in Profiles
          /\ session[s].identity # None => session[s].identity \in Offers[session[s].snap]
      BY <1>0, <1>2, <2>1 DEF RowsOK, RowOK
    <3> QED BY <1>3, <2>1, <3>1, <3>2, <3>3 DEF RowOK
  <2>2. CASE ~(t = s /\ s \in Rows) /\ t \notin OldIds
    <3>1. session'[t] = session[t]
      BY <1>0, <1>1, <1>2, <2>2 DEF TypeOK
    <3> QED BY <1>0, <1>6, <3>1 DEF RowsOK, RowOK
  <2>3. CASE t \in OldIds
    BY <2>3 DEF RowOK
  <2> QED BY <2>1, <2>2, <2>3
<1>9. PICK r \in Request : req' = [req EXCEPT ![p] = r] /\ ReqOK(r)'
  <2>1. CASE LoadCache(p)
    <3>1. PICK r : r = [req[p] EXCEPT !.at = "load.verify"] OBVIOUS
    <3>2. r \in Request /\ req' = [req EXCEPT ![p] = r]
      BY <1>0, <2>1, <3>1 DEF LoadCache, Goto, TypeOK, Request, Places
    <3>3. s \in OldIds
      BY <1>0, <2>1 DEF LoadCache, ReqOK
    <3>4. r.at = "load.verify" /\ r.sid = s
      BY <1>0, <3>1 DEF TypeOK, Request
    <3>5. ReqOK(r)'
      BY <1>1, <1>2, <3>3, <3>4 DEF ReqOK
    <3> QED BY <3>2, <3>5
  <2>2. CASE SelectWrite(p)
    <3>1. Idle \in Request /\ ReqOK(Idle)'
      BY DEF Idle, Request, Places, ReqOK, Named
    <3> QED BY <2>2, <3>1 DEF SelectWrite, Done
  <2> QED BY <2>1, <2>2
<1>10. OneSettledSession'
  BY <1>0, <1>1, <1>6, <1>7, <1>9, StaysSettled DEF RowsIssued
<1> QED
  BY <1>0, <1>1, <1>5, <1>6, <1>7, <1>8, <1>9, <1>10, Preserves DEF Good, TypeOK, RowsIssued

LEMMA Expires ==
  ASSUME Inv, NEW s \in SessionIds, Expire(s)
  PROVE  Good
<1>0. TypeOK /\ RowsIssued /\ RowsOK /\ ReqsOK /\ OneSettledSession
  BY DEF Inv
<1> DEFINE row == [session[s] EXCEPT !.live = FALSE]
<1>1. s \in Rows /\ session' = [session EXCEPT ![s] = row] /\ UNCHANGED <<issued, req, cut>>
  BY DEF Expire
<1>2. /\ row \in Row /\ row.user = session[s].user /\ row.snap = session[s].snap
      /\ row.identity = session[s].identity
  <2>1. session[s] \in Row BY <1>0, <1>1 DEF TypeOK, Rows
  <2> QED BY <2>1 DEF Row
<1>3. row # NoRow
  BY <1>2, NoRowIsNoRow
<1> HIDE DEF row
<1>4. TypeOK'
  BY <1>0, <1>1, <1>2 DEF TypeOK
<1>5. Rows' = Rows
  BY <1>0, <1>1, <1>3 DEF Rows, TypeOK
<1>6. ASSUME NEW t \in SessionIds
      PROVE  /\ session'[t].user = session[t].user
             /\ session'[t].snap = session[t].snap
             /\ session'[t].identity = session[t].identity
             /\ session'[t] = NoRow <=> session[t] = NoRow
  BY <1>0, <1>1, <1>2, <1>3 DEF TypeOK, Rows
<1>7. ASSUME NEW t \in issued PROVE Keeps(t)
  BY <1>0, <1>6 DEF Keeps, TypeOK
<1>8. RowsIssued' /\ RowsOK'
  BY <1>0, <1>1, <1>5, <1>6 DEF RowsIssued, RowsOK, RowOK
<1>9. ReqsOK'
  BY <1>1, <1>7, OthersUndisturbed DEF ReqsOK
<1>10. OneSettledSession'
  <2>1. ASSUME NEW x, Unsettled(x) PROVE Unsettled(x)'
    BY <1>1, <2>1 DEF Unsettled
  <2> QED BY <1>0, <1>5, <1>6, <2>1 DEF OneSettledSession, Rows
<1> QED BY <1>4, <1>7, <1>8, <1>9, <1>10 DEF Inv, Good

LEMMA NextGood ==
  ASSUME Inv, [Next]_vars
  PROVE  Inv' /\ \A s \in issued : session[s] = NoRow => session'[s] = NoRow
<1>1. CASE Next
  <2>1. ASSUME NEW p \in Requests, Step(p) PROVE Good
    BY <2>1, CallbackProfiles, LoadFetches, CallbackInserts, CallbackDeletes, DeletesGood,
       LoadReads, UpdatesGood, VerifiedGood, LogoutReads DEF Step
  <2>2. ASSUME NEW p \in Requests, Call(p) PROVE Good
    BY <2>2, Begins DEF Call
  <2> QED BY <1>1, <2>1, <2>2, Dies, Expires DEF Next, Good, Keeps
<1>2. CASE UNCHANGED vars
  BY <1>2 DEF vars, Inv, TypeOK, RowsIssued, Rows, RowsOK, RowOK, ReqsOK, ReqOK, Named,
     OneSettledSession, Unsettled
<1> QED BY <1>1, <1>2

-----------------------------------------------------------------------------
(* Every reachable state of the sessions is well typed.                    *)
THEOREM TypeCorrect == Spec => []TypeOK
<1>1. Inv => TypeOK BY DEF Inv
<1> QED BY <1>1, Initially, NextGood, PTL DEF Spec

(* Two sessions of one user exist only around a login that has not yet     *)
(* deleted, or was cut short before it deleted, the others                 *)
(* (handleCallback).                                                       *)
THEOREM SessionsSettle == Spec => []OneSettledSession
<1>1. Inv => OneSettledSession BY DEF Inv
<1> QED BY <1>1, Initially, NextGood, PTL DEF Spec

(* A session acts as an identity that its snapshot carries                 *)
(* (selectIdentity), whatever logins, logouts and loads overlap.           *)
THEOREM IdentityAlwaysOffered == Spec => []IdentityWasOffered
<1>1. Inv => IdentityWasOffered BY DEF Inv, RowsOK, RowOK, IdentityWasOffered, Rows
<1> QED BY <1>1, Initially, NextGood, PTL DEF Spec

(* No write in flight brings an ended session back (updateSession).        *)
THEOREM EndedSessionsStayEnded == Spec => EndedStaysEnded
<1>1. Inv /\ [Next]_vars =>
        [\A s \in issued : session[s] = NoRow => session'[s] = NoRow]_vars
  BY NextGood
<1> QED BY <1>1, Initially, NextGood, PTL DEF Spec, EndedStaysEnded
-----------------------------------------------------------------------------
(* Requests that do not overlap                                            *)

(* LoginLeavesOne and SelectedIsKept are refuted by a request that deletes *)
(* the row another one is about to use.  When requests run one after the   *)
(* other, the row that was read or inserted is still there at the write;   *)
(* it may have expired, which deletes nothing.                             *)
OneAtATime ==
  \A p, q \in Requests : req[p].at # "idle" /\ req[q].at # "idle" => p = q

Holding == {"callback.delete", "load.fetch", "load.cache", "load.verify", "select.write"}

CalmOK(r) == r.at \in Holding => r.sid \in Rows

Calm == \A p \in Requests : CalmOK(req[p])

(* The request that moves knows its row; the others are idle, or no row    *)
(* goes.                                                                   *)
LEMMA KeepsCalm ==
  ASSUME Inv, Calm, OneAtATime, NEW p \in Requests, NEW r,
         req' = [req EXCEPT ![p] = r],
         req[p].at # "idle" \/ session' = session,
         r.at \in Holding => r.sid \in Rows'
  PROVE  Calm'
<1>1. ASSUME NEW q \in Requests \ {p} PROVE CalmOK(req[q])'
  <2>1. req'[q] = req[q]
    BY DEF Inv, TypeOK
  <2>2. req[q].at = "idle" \/ Rows' = Rows
    BY DEF OneAtATime, Rows
  <2> QED BY <2>1, <2>2 DEF Calm, CalmOK, Holding
<1>2. CalmOK(req[p])'
  BY DEF CalmOK, Inv, TypeOK
<1> QED BY <1>1, <1>2 DEF Calm

LEMMA StepsKeepCalm ==
  ASSUME Inv, Calm, OneAtATime, NEW p \in Requests, Step(p) \/ Die(p)
  PROVE  Calm'
<1> USE DEF Holding
<1>1. req[p] \in Request /\ CalmOK(req[p]) /\ ReqOK(req[p])
  BY DEF Inv, TypeOK, ReqsOK, Calm
<1>2. ASSUME NEW place, Goto(p, place), req[p].at # "idle",
             place \in Holding => req[p].sid \in Rows'
      PROVE  Calm'
  <2> DEFINE r == [req[p] EXCEPT !.at = place]
  <2>1. r.at = place /\ r.sid = req[p].sid
    BY <1>1 DEF Request
  <2>2. req' = [req EXCEPT ![p] = r]
    BY <1>2 DEF Goto, Inv, TypeOK
  <2> HIDE DEF r
  <2> QED BY <1>2, <2>1, <2>2, KeepsCalm
<1>3. ASSUME Done(p), req[p].at # "idle" PROVE Calm'
  BY <1>3, KeepsCalm DEF Done, Idle
<1>4. ASSUME NEW place, NEW first, Handle(p, place, first), UNCHANGED session,
             req[p].at = "load.verify"
      PROVE  Calm'
  <2> DEFINE r == [req[p] EXCEPT !.at = place, !.first = first, !.user = None, !.snap = None]
  <2>1. r.at = place /\ r.sid = req[p].sid
    BY <1>1 DEF Request
  <2>2. req' = [req EXCEPT ![p] = r]
    BY <1>4 DEF Handle, Inv, TypeOK
  <2>3. req[p].sid \in Rows'
    BY <1>1, <1>4 DEF CalmOK, Rows
  <2> HIDE DEF r
  <2> QED BY <1>4, <2>1, <2>2, <2>3, KeepsCalm
<1>5. ASSUME NEW v, CallbackProfile(p, v) \/ LoadFetch(p, v) PROVE Calm'
  <2>1. PICK place \in {"callback.insert", "load.cache"} :
          /\ req' = [req EXCEPT ![p] = [req[p] EXCEPT !.at = place, !.snap = v]]
          /\ place = "load.cache" => req[p].at = "load.fetch"
    BY <1>5 DEF CallbackProfile, LoadFetch, Inv, TypeOK
  <2> DEFINE r == [req[p] EXCEPT !.at = place, !.snap = v]
  <2>2. r.at = place /\ r.sid = req[p].sid
    BY <1>1 DEF Request
  <2>3. UNCHANGED session /\ req[p].at # "idle"
    BY <1>5 DEF CallbackProfile, LoadFetch
  <2>4. r.at \in Holding => r.sid \in Rows'
    BY <1>1, <2>1, <2>2, <2>3 DEF CalmOK, Rows
  <2> QED BY <2>1, <2>3, <2>4, KeepsCalm
<1>6. ASSUME NEW s \in SessionIds, CallbackInsert(p, s) PROVE Calm'
  <2> DEFINE r == [req[p] EXCEPT !.at = "callback.delete", !.sid = s, !.snap = None]
  <2>1. r.at = "callback.delete" /\ r.sid = s
    BY <1>1 DEF Request
  <2>2. req' = [req EXCEPT ![p] = r] /\ req[p].at # "idle"
    BY <1>6 DEF CallbackInsert, Inv, TypeOK
  <2>3. session'[s].user \in Users
    BY <1>1, <1>6 DEF CallbackInsert, Inv, TypeOK, ReqOK
  <2>4. s \in Rows'
    BY <2>3, ConstantsAssumption DEF Rows, NoRow
  <2> QED BY <2>1, <2>2, <2>4, KeepsCalm
<1>7. CASE CallbackDelete(p) \/ LoadDrop(p) \/ SelectWrite(p) \/ LogoutDelete(p) \/ Die(p)
  BY <1>3, <1>7 DEF CallbackDelete, LoadDrop, SelectWrite, LogoutDelete, Die
<1>8. CASE LoadExpire(p) \/ LogoutRead(p)
  BY <1>2, <1>8 DEF LoadExpire, LogoutRead
<1>9. CASE LoadRead(p)
  <2>1. CASE Done(p) \/ Goto(p, "load.drop")
    BY <1>2, <1>3, <1>9, <2>1 DEF LoadRead
  <2>2. CASE ~(Done(p) \/ Goto(p, "load.drop"))
    <3> DEFINE r == [req[p] EXCEPT !.snap = session[req[p].sid].snap,
                       !.at = IF session[req[p].sid].snap = None THEN "load.fetch"
                                                                 ELSE "load.verify"]
    <3>1. req' = [req EXCEPT ![p] = r] /\ req[p].at # "idle" /\ UNCHANGED session
      BY <1>9, <2>2 DEF LoadRead, Inv, TypeOK
    <3>2. r.sid = req[p].sid
      BY <1>1 DEF Request
    <3>3. req[p].sid \in SessionIds /\ session[req[p].sid] # NoRow
      BY <1>1, <1>9, <2>2 DEF LoadRead, ReqOK, Named, Places, Inv, TypeOK
    <3>4. r.sid \in Rows'
      BY <3>1, <3>2, <3>3 DEF Rows
    <3> HIDE DEF r
    <3> QED BY <3>1, <3>4, KeepsCalm
  <2> QED BY <2>1, <2>2
<1>10. CASE LoadCache(p)
  <2>1. req[p].sid \in Rows /\ session[req[p].sid].user \in Users
    BY <1>1, <1>10 DEF LoadCache, CalmOK, Inv, TypeOK, Rows, Row
  <2>2. session'[req[p].sid].user = session[req[p].sid].user
    BY <1>10, <2>1 DEF LoadCache, UpdateSession, Inv, TypeOK, Rows, Row
  <2>3. req[p].sid \in Rows'
    BY <2>1, <2>2, ConstantsAssumption DEF Rows, NoRow
  <2> QED BY <1>2, <1>10, <2>3 DEF LoadCache
<1>11. CASE Verified(p)
  BY <1>3, <1>4, <1>11 DEF Verified
<1> QED BY <1>5, <1>6, <1>7, <1>8, <1>9, <1>10, <1>11 DEF Step

LEMMA CalmHolds == Spec /\ []OneAtATime => []Calm
<1>1. Init => Calm
  BY DEF Init, Calm, CalmOK, Idle, Holding
<1>2. Inv /\ Calm /\ OneAtATime /\ [Next]_vars => Calm'
  <2> SUFFICES ASSUME Inv, Calm, OneAtATime, [Next]_vars PROVE Calm'
    OBVIOUS
  <2>1. ASSUME NEW p \in Requests, Step(p) \/ Die(p) PROVE Calm'
    BY <2>1, StepsKeepCalm
  <2>2. ASSUME NEW p \in Requests, Call(p) PROVE Calm'
    <3>1. ASSUME NEW r, Begin(p, r), r.at \notin Holding, UNCHANGED session PROVE Calm'
      BY <3>1, KeepsCalm DEF Begin
    <3>2. ASSUME NEW u, CallbackBegin(p, u) PROVE Calm'
      <4> DEFINE r == [Idle EXCEPT !.at = "callback.profile", !.op = "callback", !.user = u]
      <4>1. r.at \notin Holding
        BY DEF Idle, Holding
      <4> QED BY <3>1, <3>2, <4>1 DEF CallbackBegin
    <3>3. ASSUME NEW s, NEW op, NEW i, RequestBegin(p, s, op, i) PROVE Calm'
      <4> DEFINE r == [Idle EXCEPT !.at = "load.expire", !.op = op, !.sid = s, !.identity = i]
      <4>1. r.at \notin Holding
        BY DEF Idle, Holding
      <4> QED BY <3>1, <3>3, <4>1 DEF RequestBegin
    <3> QED BY <2>2, <3>2, <3>3 DEF Call
  <2>3. ASSUME NEW s \in SessionIds, Expire(s) PROVE Calm'
    <3>1. req' = req /\ session[s] \in Row
      BY <2>3 DEF Expire, Rows, Inv, TypeOK
    <3>2. session'[s].user = session[s].user /\ session[s].user \in Users
      BY <2>3, <3>1 DEF Expire, Inv, TypeOK, Row
    <3>3. Rows \subseteq Rows'
      BY <2>3, <3>2, ConstantsAssumption DEF Expire, Rows, NoRow, Inv, TypeOK
    <3> QED BY <3>1, <3>3 DEF Calm, CalmOK
  <2>4. CASE UNCHANGED vars
    BY <2>4 DEF vars, Calm, CalmOK, Rows
  <2> QED BY <2>1, <2>2, <2>3, <2>4 DEF Next
<1> QED BY <1>1, <1>2, Initially, NextGood, PTL DEF Spec

(* auth.service.ts:626: a login leaves its own session, unless requests    *)
(* overlap.                                                                *)
THEOREM LoginLeavesOneAtATime == Spec /\ []OneAtATime => LoginLeavesOne
<1> DEFINE Leaves == \A p \in Requests : CallbackDelete(p) => session'[req[p].sid] # NoRow
<1>1. Inv /\ Calm => [Leaves]_vars
  <2> SUFFICES ASSUME Inv, Calm, NEW p \in Requests, CallbackDelete(p)
               PROVE  session'[req[p].sid] # NoRow
    OBVIOUS
  <2>1. req[p].sid \in Rows
    BY DEF CallbackDelete, Calm, CalmOK, Holding
  <2> QED BY <2>1 DEF CallbackDelete, Without, Rows
<1>2. Spec /\ []OneAtATime => [][Leaves]_vars
  BY <1>1, CalmHolds, Initially, NextGood, PTL DEF Spec
<1> QED BY <1>2 DEF LoginLeavesOne

(* auth.service.ts:670: the identity a user chose is the session's, unless *)
(* requests overlap.                                                       *)
THEOREM SelectedIsKeptOneAtATime == Spec /\ []OneAtATime => SelectedIsKept
<1> DEFINE Kept ==
      \A p \in Requests : SelectWrite(p) => session'[req[p].sid].identity = req[p].identity
<1>1. Inv /\ Calm => [Kept]_vars
  <2> SUFFICES ASSUME Inv, Calm, NEW p \in Requests, SelectWrite(p)
               PROVE  session'[req[p].sid].identity = req[p].identity
    OBVIOUS
  <2>1. req[p].sid \in Rows /\ session[req[p].sid] \in Row
    BY DEF SelectWrite, Calm, CalmOK, Holding, Rows, Inv, TypeOK
  <2> QED BY <2>1 DEF SelectWrite, UpdateSession, Inv, TypeOK, Rows, Row
<1>2. Spec /\ []OneAtATime => [][Kept]_vars
  BY <1>1, CalmHolds, Initially, NextGood, PTL DEF Spec
<1> QED BY <1>2 DEF SelectedIsKept
=============================================================================
