------------------------------ MODULE FilesProofs ------------------------------
(***************************************************************************)
(* Proofs about Files, for any number of rows, keys and requests, with and *)
(* without failures.                                                       *)
(*                                                                         *)
(* None of the properties is inductive.  Inv adds that a new key is in     *)
(* nobody else's hands (ReqOK, KeysApart), that the key a request wants to *)
(* replace is of no other row (ReqOK), that it is deleted before the row   *)
(* is written (ReqOK), and what a row's key and url are (RowOK).  Every    *)
(* action then is an instance of one shape of step (Shape), which keeps    *)
(* Inv: it makes one key, deletes the key it wants to replace, or writes   *)
(* its new key into its own row.                                           *)
(***************************************************************************)
EXTENDS Files, TLAPS

Holder == {"create.insert", "template.file", "template.write", "photo.write"}
Gone == {"again.row", "template.write", "photo.upload", "photo.write", "delete.row"}
Owner == Gone \cup {"again.file", "template.upload", "template.file", "photo.file",
                    "delete.file", "sync.write"}
Remover == {"again.file", "again.row", "delete.file", "delete.row"}
Lasting == {"photo", "answer"}

RowOK(x) ==
  /\ x \in Rows => x \in born
  /\ Kind[x] = "signature" => x \in Rows
  /\ x \in Rows /\ row[x].key \in Keys =>
       row[x].key <= minted /\ store[row[x].key] \in {Kind[x], None}
  /\ x \in Rows /\ row[x].url \in Keys => row[x].url = row[x].key

HolderOK(r) ==
  IF r.at \in Holder
    THEN /\ r.new \in Keys /\ r.new <= minted
         /\ store[r.new] = r.kind
         /\ \A x \in Rows : row[x].key # r.new
    ELSE r.new = None

KindOK(r) ==
  /\ r.at # "idle" => r.kind \in Kinds
  /\ r.at \in Owner => r.id \in RowIds /\ r.kind = Kind[r.id]
  /\ r.at \in Remover => r.kind # "signature"
  /\ r.at \in {"again.file", "again.row"} => r.kind = "document"
  /\ r.at = "sync.write" => r.kind = "signature"

OldOK(r) ==
  r.old \in Keys =>
    /\ r.at \in Owner
    /\ r.old <= minted
    /\ store[r.old] \in {r.kind, None}
    /\ \A x \in Rows : row[x].key = r.old => x = r.id

GoneOK(r) ==
  r.at \in Gone /\ r.old \in Keys =>
    \/ r.old \in raced
    \/ store[r.old] = None
    \/ r.at = "delete.row" /\ r.kind \in Lasting

ReqOK(r) == HolderOK(r) /\ KindOK(r) /\ OldOK(r) /\ GoneOK(r)

RowsOK == \A x \in RowIds : RowOK(x)
ReqsOK == \A p \in Requests : ReqOK(req[p])

KeysApart ==
  \A p, q \in Requests :
    req[p].new \in Keys => req[q].old # req[p].new /\ (p # q => req[q].new # req[p].new)

Inv == TypeOK /\ RowsOK /\ ReqsOK /\ KeysApart /\ OneRowPerObject
         /\ ReadersFindTheFile /\ NothingLeftBehind

(* What becomes of a row: it keeps its key, it is deleted, or it gets the  *)
(* new key of request p.                                                   *)
Parts(x, p) ==
  row[x] # None /\ row[x].key \in Keys =>
    row[x].key \in raced' \/ (req[p].at \in Gone /\ row[x].key = req[p].old)

Stays(x) ==
  /\ row'[x] # None /\ row[x] # None /\ row'[x].key = row[x].key
  /\ row'[x].url \in {row[x].url, None}

Leaves(x, p) == row'[x] = None /\ Kind[x] # "signature" /\ Parts(x, p)

Gets(x, p) ==
  /\ row'[x] # None /\ row'[x].key = req[p].new /\ row'[x].url = req[p].new
  /\ req[p].new \in Keys /\ x \in born' /\ Kind[x] = req[p].kind
  /\ \A y \in RowIds : y # x => row'[y] = row[y]
  /\ Parts(x, p)

(* A step of request p, which then remembers r.                            *)
Shape(p, r) ==
  LET old == req[p].old
      new == req[p].new
  IN
  /\ req' = [req EXCEPT ![p] = r]
  /\ TypeOK'
  /\ minted <= minted' /\ torn \subseteq torn' /\ raced \subseteq raced'
  /\ \A k \in Keys :
       \/ store'[k] = store[k]
       \/ k = old /\ store'[k] = None /\ r.at \in Gone /\ r.old = old
       \/ k > minted /\ r.new = k
  /\ \A x \in RowIds : Stays(x) \/ Leaves(x, p) \/ (Gets(x, p) /\ r.new = None)
  /\ born \subseteq born'
  /\ ReqOK(r)'
  /\ r.new \in Keys => r.new = new \/ r.new > minted
  /\ r.old \in Keys => r.old = old \/ (new = None /\ r.new = None /\ \E x \in Rows : row[x].key = r.old)
  /\ new \in Keys => r.new = new \/ new \in torn' \cup raced' \/ \E x \in RowIds : row'[x] # None /\ row'[x].key = new
  /\ req[p].at \in Gone /\ old \in Keys =>
       \/ r.at \in Gone /\ r.old = old
       \/ old \in torn'
       \/ \A x \in RowIds : row'[x] # None => row'[x].key # old

-----------------------------------------------------------------------------
LEMMA OthersUndisturbed ==
  ASSUME Inv, NEW p \in Requests, NEW r \in Request, Shape(p, r),
         NEW q \in Requests, q # p
  PROVE  ReqOK(req[q])'
<1>0. TypeOK /\ ReqOK(req[q]) /\ ReqOK(req[p]) /\ KeysApart BY DEF Inv, ReqsOK
<1>1. req'[q] = req[q] BY <1>0 DEF Shape, Stays, Leaves, Gets, Parts, TypeOK
<1>2. ASSUME NEW k \in Keys, k <= minted, k # req[p].old PROVE store'[k] = store[k]
  BY <1>0, <1>2 DEF Shape, Stays, Leaves, Gets, Parts, TypeOK, Keys
<1>3. ASSUME NEW k \in Keys, k <= minted PROVE store'[k] \in {store[k], None}
  BY <1>0, <1>3 DEF Shape, Stays, Leaves, Gets, Parts, TypeOK, Keys
<1>4. ASSUME NEW x \in Rows', row'[x].key \in Keys
      PROVE  \/ row'[x].key = req[p].new
             \/ x \in Rows /\ row'[x].key = row[x].key
  BY <1>4 DEF Shape, Stays, Leaves, Gets, Parts, Rows
<1>5. req[q].new \in Keys => req[q].new # req[p].old /\ req[q].new # req[p].new
  BY <1>0 DEF KeysApart, TypeOK, Request
<1>6. HolderOK(req[q])'
  BY <1>0, <1>1, <1>2, <1>4, <1>5 DEF ReqOK, HolderOK, Shape, Stays, Leaves, Gets, Parts, TypeOK, Keys
<1>7. req[p].new \in Keys => req[q].old # req[p].new
  BY <1>0 DEF KeysApart
<1>8. OldOK(req[q])'
  BY <1>0, <1>1, <1>3, <1>4, <1>7 DEF ReqOK, OldOK, Shape, Stays, Leaves, Gets, Parts, TypeOK, Keys
<1>9. GoneOK(req[q])'
  BY <1>0, <1>1, <1>3 DEF ReqOK, OldOK, GoneOK, Shape, Stays, Leaves, Gets, Parts
<1>10. KindOK(req[q])'
  BY <1>0, <1>1 DEF ReqOK, KindOK
<1> QED BY <1>6, <1>8, <1>9, <1>10 DEF ReqOK

LEMMA ShapeKeepsReqs ==
  ASSUME Inv, NEW p \in Requests, NEW r \in Request, Shape(p, r)
  PROVE  ReqsOK' /\ KeysApart'
<1>0. TypeOK /\ ReqsOK /\ KeysApart /\ req' = [req EXCEPT ![p] = r] /\ ReqOK(r)'
  BY DEF Inv, Shape, Stays, Leaves, Gets, Parts
<1>1. ReqsOK'
  <2>1. ASSUME NEW q \in Requests PROVE ReqOK(req[q])'
    <3>1. CASE q = p
      <4>1. req'[q] = r BY <1>0, <3>1 DEF TypeOK
      <4> QED BY <1>0, <4>1 DEF ReqOK, HolderOK, KindOK, OldOK, GoneOK
    <3> QED BY <3>1, OthersUndisturbed
  <2> QED BY <2>1 DEF ReqsOK
<1>2. KeysApart'
  <2> SUFFICES ASSUME NEW a \in Requests, NEW b \in Requests, req'[a].new \in Keys
               PROVE  req'[b].old # req'[a].new /\ (a # b => req'[b].new # req'[a].new)
    BY DEF KeysApart
  <2>1. \A q \in Requests : ReqOK(req[q]) BY <1>0 DEF ReqsOK
  <2>2. \A q \in Requests :
          /\ req[q].new \in Keys => req[q].new <= minted /\ \A x \in Rows : row[x].key # req[q].new
          /\ req[q].old \in Keys => req[q].old <= minted
    BY <2>1, ConstantsAssumption DEF ReqOK, HolderOK, OldOK
  <2>3. \A q \in Requests : req'[q] = IF q = p THEN r ELSE req[q]
    BY <1>0 DEF TypeOK
  <2>4. \A q \in Requests : req[q].new \in Keys \cup {None} /\ req[q].old \in Keys \cup {None}
    BY <1>0 DEF TypeOK, Request
  <2>5. /\ r.new \in Keys => r.new = req[p].new \/ r.new > minted
        /\ r.old \in Keys => r.old = req[p].old \/ (req[p].new = None /\ r.new = None /\ \E x \in Rows : row[x].key = r.old)
        /\ r.new \in Keys \cup {None} /\ r.old \in Keys \cup {None}
    BY DEF Shape, Stays, Leaves, Gets, Parts, Request
  <2>6. minted \in Nat /\ Keys \subseteq Nat /\ None \notin Keys
    BY <1>0, ConstantsAssumption DEF TypeOK, Keys
  <2>11. ASSUME NEW k \in Keys, NEW m \in Keys, k > minted, m <= minted PROVE k # m
    BY <2>6, <2>11
  <2>7. CASE a = p /\ b = p
    <3>1. req'[a] = r /\ r.new \in Keys BY <2>3, <2>7
    <3>2. CASE r.old = req[p].old /\ r.new = req[p].new
      BY <1>0, <2>7, <3>1, <3>2 DEF KeysApart
    <3>3. CASE r.old = req[p].old /\ r.new > minted
      BY <2>2, <2>4, <2>6, <2>7, <2>11, <3>1, <3>3
    <3>4. r.old \notin Keys \/ r.old = req[p].old
      BY <2>5, <2>6, <3>1
    <3> QED BY <2>5, <2>7, <3>1, <3>2, <3>3, <3>4
  <2>8. CASE a = p /\ b # p
    <3>1. req'[p].new = r.new /\ req'[b] = req[b] /\ r.new \in Keys
      BY <2>3, <2>8
    <3>2. CASE r.new = req[p].new
      BY <1>0, <2>8, <3>1, <3>2 DEF KeysApart
    <3>3. CASE r.new > minted
      BY <2>2, <2>6, <2>8, <3>1, <3>3
    <3> QED BY <2>5, <3>1, <3>2, <3>3
  <2>9. CASE a # p /\ b = p
    <3>1. req'[p] = r /\ req'[a] = req[a] /\ req[a].new \in Keys
      BY <2>3, <2>9
    <3>2. req[p].old # req[a].new /\ req[p].new # req[a].new
      BY <1>0, <2>9, <3>1 DEF KeysApart
    <3>3. r.old # req[a].new
      BY <2>2, <2>5, <2>9, <3>1, <3>2
    <3>4. r.new # req[a].new
      BY <2>2, <2>5, <2>11, <3>1, <3>2
    <3> QED BY <3>1, <3>3, <3>4, <2>9
  <2>10. CASE a # p /\ b # p
    BY <1>0, <2>3, <2>10 DEF KeysApart
  <2> QED BY <2>7, <2>8, <2>9, <2>10
<1> QED BY <1>1, <1>2

LEMMA ShapeKeepsRows ==
  ASSUME Inv, NEW p \in Requests, NEW r \in Request, Shape(p, r)
  PROVE  RowsOK' /\ OneRowPerObject'
<1>0. TypeOK /\ RowsOK /\ OneRowPerObject /\ ReqOK(req[p])
  BY DEF Inv, ReqsOK
<1>1. ASSUME NEW k \in Keys, k <= minted PROVE store'[k] \in {store[k], None}
  BY <1>0, <1>1 DEF Shape, Stays, Leaves, Gets, Parts, TypeOK, Keys
<1>2. req[p].new \in Keys =>
        /\ req[p].new <= minted
        /\ store'[req[p].new] \in {req[p].kind, None}
        /\ \A x \in Rows : row[x].key # req[p].new
  BY <1>0, <1>1, ConstantsAssumption DEF ReqOK, HolderOK
<1>3. minted \in Nat /\ minted' \in Nat /\ minted <= minted' /\ born \subseteq born' /\ Keys \subseteq Nat /\ None \notin Keys
  BY <1>0, ConstantsAssumption DEF Shape, Stays, Leaves, Gets, Parts, TypeOK, Keys
<1>6. ASSUME NEW k \in Keys, k <= minted PROVE k <= minted'
  BY <1>3, <1>6
<1>4. ASSUME NEW x \in RowIds PROVE RowOK(x)'
  <2>0. RowOK(x) BY <1>0 DEF RowsOK
  <2>1. CASE /\ row'[x] # None /\ row[x] # None /\ row'[x].key = row[x].key
             /\ row'[x].url \in {row[x].url, None}
    <3>1. x \in Rows /\ x \in Rows' BY <2>1 DEF Rows
    <3>2. row'[x].key \in Keys =>
            row'[x].key <= minted' /\ store'[row'[x].key] \in {Kind[x], None}
      BY <1>1, <1>6, <2>0, <2>1, <3>1 DEF RowOK
    <3>3. row'[x].url \in Keys => row'[x].url = row'[x].key
      BY <1>3, <2>0, <2>1, <3>1 DEF RowOK
    <3> QED BY <1>3, <2>0, <3>1, <3>2, <3>3 DEF RowOK
  <2>2. CASE row'[x] = None /\ Kind[x] # "signature"
    BY <2>2 DEF RowOK, Rows
  <2>3. CASE /\ row'[x] # None /\ row'[x].key = req[p].new /\ row'[x].url = req[p].new
             /\ req[p].new \in Keys /\ x \in born' /\ Kind[x] = req[p].kind
    <3>1. x \in Rows' BY <2>3 DEF Rows
    <3>2. row'[x].key <= minted' /\ store'[row'[x].key] \in {Kind[x], None}
      BY <1>2, <1>6, <2>3
    <3> QED BY <2>3, <3>1, <3>2 DEF RowOK
  <2> QED BY <2>1, <2>2, <2>3 DEF Shape, Stays, Leaves, Gets, Parts
<1>5. OneRowPerObject'
  <2> SUFFICES ASSUME NEW a \in RowIds, NEW b \in RowIds, a # b,
                      row'[a] # None, row'[b] # None, row'[a].key # None
               PROVE  row'[a].key # row'[b].key
    BY DEF OneRowPerObject, Rows
  <2>1. ASSUME NEW x \in RowIds, row'[x] # None
        PROVE  \/ row[x] # None /\ row'[x].key = row[x].key
               \/ row'[x].key = req[p].new /\ req[p].new \in Keys
                    /\ \A y \in RowIds : y # x => row'[y] = row[y]
    BY <2>1 DEF Shape, Stays, Leaves, Gets, Parts
  <2>2. CASE row[a] # None /\ row'[a].key = row[a].key /\ row[b] # None /\ row'[b].key = row[b].key
    BY <1>0, <2>2 DEF OneRowPerObject, Rows
  <2>3. CASE row'[a].key = req[p].new /\ req[p].new \in Keys
                    /\ \A y \in RowIds : y # a => row'[y] = row[y]
    BY <1>2, <2>3 DEF Rows
  <2>4. CASE row'[b].key = req[p].new /\ req[p].new \in Keys
                    /\ \A y \in RowIds : y # b => row'[y] = row[y]
    BY <1>2, <2>4 DEF Rows
  <2> QED BY <2>1, <2>2, <2>3, <2>4
<1> QED BY <1>4, <1>5 DEF RowsOK

LEMMA ShapeKeepsReaders ==
  ASSUME Inv, NEW p \in Requests, NEW r \in Request, Shape(p, r)
  PROVE  ReadersFindTheFile'
<1>0. TypeOK /\ RowsOK /\ ReadersFindTheFile /\ ReqOK(req[p])
  BY DEF Inv, ReqsOK
<1> SUFFICES ASSUME NEW x \in RowIds, NEW k \in Keys, row'[x] # None, row'[x].url = k,
                    store'[k] = None
             PROVE  k \in torn' \/ \E q \in Requests : Swaps(q, k)'
  BY DEF ReadersFindTheFile, Lost, Stored, Rows, Swaps
<1>1. req' = [req EXCEPT ![p] = r] /\ torn \subseteq torn'
  BY DEF Shape, Stays, Leaves, Gets, Parts
<1>2. ASSUME NEW q \in Requests, q # p, Swaps(q, k) PROVE Swaps(q, k)'
  BY <1>0, <1>1, <1>2 DEF Swaps, TypeOK
<1>3. r.at \in Gone /\ r.old = k => Swaps(p, k)'
  BY <1>0, <1>1 DEF Swaps, Gone, TypeOK
<1>4. CASE /\ row[x] # None /\ row'[x].key = row[x].key
           /\ row'[x].url \in {row[x].url, None}
  <2>1. row[x].url = k /\ row[x].key = k /\ k <= minted
    BY <1>0, <1>4, ConstantsAssumption DEF RowsOK, RowOK, Rows
  <2>2. CASE store[k] # None
    <3>1. r.at \in Gone /\ r.old = k
      BY <1>0, <2>1, <2>2, ConstantsAssumption DEF Shape, Stays, Leaves, Gets, Parts, TypeOK, Keys
    <3> QED BY <1>3, <3>1
  <2>3. CASE store[k] = None
    <3>0. x \in Rows /\ row[x].url \in Keys /\ row[x].url \notin Stored
      BY <1>4, <2>1, <2>3 DEF Rows, Stored
    <3>1. k \in torn \/ \E q \in Requests : Swaps(q, k)
      BY <1>0, <2>1, <3>0 DEF ReadersFindTheFile, Lost
    <3>2. CASE Swaps(p, k)
      <4>1. req[p].at \in Gone /\ req[p].old = k
        BY <3>2 DEF Swaps, Gone
      <4>2. row'[x].key = k
        BY <1>4, <2>1
      <4> QED BY <1>3, <4>1, <4>2 DEF Shape, Stays, Leaves, Gets, Parts
    <3> QED BY <1>1, <1>2, <3>1, <3>2
  <2> QED BY <2>2, <2>3
<1>5. CASE row'[x].url = req[p].new /\ req[p].new \in Keys
  <2>1. store[k] \in Kinds /\ k <= minted /\ req[p].old # k
    BY <1>0, <1>5, ConstantsAssumption DEF ReqOK, HolderOK, KindOK, Holder, Inv, KeysApart
  <2>2. store'[k] = store[k]
    BY <1>0, <1>5, <2>1 DEF Shape, Stays, Leaves, Gets, Parts, TypeOK, Keys
  <2> QED BY <2>1, <2>2, ConstantsAssumption
<1> QED BY <1>4, <1>5 DEF Shape, Stays, Leaves, Gets, Parts

LEMMA ShapeKeepsCauses ==
  ASSUME Inv, NEW p \in Requests, NEW r \in Request, Shape(p, r)
  PROVE  NothingLeftBehind'
<1>0. TypeOK /\ RowsOK /\ NothingLeftBehind /\ ReqOK(req[p])
  BY DEF Inv, ReqsOK
<1> SUFFICES ASSUME NEW k \in Keys, store'[k] # None,
                    k \notin torn' \cup raced', store'[k] \notin {"photo", "answer"},
                    \A q \in Requests : req'[q].new # k
             PROVE  \E x \in RowIds : row'[x] # None /\ row'[x].key = k
  BY DEF NothingLeftBehind, Stored, Named, Rows
<1>1. req' = [req EXCEPT ![p] = r] /\ torn \subseteq torn' /\ raced \subseteq raced'
  BY DEF Shape, Stays, Leaves, Gets, Parts
<1>2. req'[p] = r /\ \A q \in Requests : q # p => req'[q] = req[q]
  BY <1>0, <1>1 DEF TypeOK
<1>3. store'[k] = store[k]
  BY <1>2 DEF Shape, Stays, Leaves, Gets, Parts
<1>4. k \in Named \/ \E q \in Requests : req[q].new = k
  BY <1>0, <1>1, <1>3 DEF NothingLeftBehind, Stored
<1>5. CASE \E q \in Requests : req[q].new = k
  BY <1>2, <1>5 DEF Shape, Stays, Leaves, Gets, Parts
<1>6. CASE k \in Named
  <2>1. PICK x \in RowIds : row[x] # None /\ row[x].key = k
    BY <1>6 DEF Named, Rows
  <2>2. CASE row'[x] # None /\ row'[x].key = row[x].key
    BY <2>1, <2>2
  <2>3. CASE k \in raced' \/ (req[p].at \in Gone /\ k = req[p].old)
    <3>1. req[p].at \in Gone /\ req[p].old = k BY <2>3
    <3>2. GoneOK(req[p]) /\ OldOK(req[p]) BY <1>0 DEF ReqOK
    <3> QED BY <1>1, <1>3, <3>1, <3>2 DEF GoneOK, OldOK, Lasting
  <2> QED BY <2>1, <2>2, <2>3 DEF Shape, Stays, Leaves, Gets, Parts
<1> QED BY <1>4, <1>5, <1>6

LEMMA ShapeKeepsInv ==
  ASSUME Inv, NEW p \in Requests, NEW r \in Request, Shape(p, r)
  PROVE  Inv'
<1>1. TypeOK' BY DEF Shape, Stays, Leaves, Gets, Parts
<1> QED BY <1>1, ShapeKeepsReqs, ShapeKeepsRows, ShapeKeepsReaders, ShapeKeepsCauses DEF Inv

-----------------------------------------------------------------------------
(* A request sets out: with nothing, or with the key of a row.             *)
LEMMA SetsOut ==
  ASSUME Inv, NEW p \in Requests, NEW r \in Request,
         req[p].at = "idle", req' = [req EXCEPT ![p] = r],
         UNCHANGED <<row, store, history>>,
         r.new = None, r.at \notin Holder, KindOK(r),
         r.old \in Keys => /\ r.at \in Owner /\ r.id \in Rows
                           /\ row[r.id].key = r.old
                           /\ r.at \in Gone => r.kind \in Lasting /\ r.at = "delete.row"
  PROVE  Inv'
<1>0. TypeOK /\ RowsOK /\ ReqOK(req[p]) /\ OneRowPerObject
  BY DEF Inv, ReqsOK
<1>1. TypeOK'
  BY <1>0 DEF TypeOK, history
<1>2. req[p].new = None /\ req[p].old \notin Keys
  BY <1>0 DEF ReqOK, HolderOK, OldOK, Holder, Owner, Gone
<1>3. ReqOK(r)'
  <2>1. HolderOK(r)' /\ KindOK(r)' /\ GoneOK(r)'
    BY DEF HolderOK, KindOK, GoneOK, history
  <2>2. OldOK(r)'
    BY <1>0, ConstantsAssumption
    DEF OldOK, history, RowsOK, RowOK, OneRowPerObject, KindOK, Rows
  <2> QED BY <2>1, <2>2 DEF ReqOK
<1>4. \A x \in RowIds : row[x] = None => Kind[x] # "signature"
  BY <1>0 DEF RowsOK, RowOK, Rows
<1>5. minted \in Nat BY <1>0 DEF TypeOK
<1>6. Shape(p, r)
  BY <1>1, <1>2, <1>3, <1>4, <1>5, ConstantsAssumption DEF Shape, Stays, Leaves, Gets, Parts, history, Rows
<1> QED BY <1>6, ShapeKeepsInv

LEMMA CallsKeepInv ==
  ASSUME Inv, NEW p \in Requests, Call(p)
  PROVE  Inv'
<1>0. TypeOK /\ RowsOK BY DEF Inv
<1>1. ASSUME NEW kind \in Kinds, CreateBegin(p, kind) PROVE Inv'
  <2>1. PICK r \in Request : r = [Idle EXCEPT !.at = "create.upload", !.kind = kind]
    BY DEF Request, Idle, Places
  <2>2. r.new = None /\ r.old \notin Keys /\ r.at \notin Holder /\ KindOK(r)
    BY <2>1, ConstantsAssumption DEF Idle, Holder, KindOK, Owner, Gone, Remover
  <2> QED BY <1>1, <2>1, <2>2, SetsOut DEF CreateBegin, Begin
<1>2. ASSUME NEW x \in Rows, NEW place \in Places, Begin(p, Holding(x, place)),
             UNCHANGED <<row, store, history>>,
             \/ place = "again.file" /\ Kind[x] = "document"
             \/ place = "template.upload" /\ Kind[x] = "template"
             \/ place = "photo.file"
             \/ place = "delete.file" /\ Kind[x] # "signature"
             \/ place = "delete.row" /\ Kind[x] \in Lasting
      PROVE  Inv'
  <2>0. x \in RowIds /\ Kind[x] \in Kinds /\ row[x].key \in Keys \cup {None}
    BY <1>0, ConstantsAssumption DEF Rows, TypeOK, Row
  <2>1. PICK r \in Request : r = Holding(x, place)
    BY <2>0 DEF Request, Holding
  <2>2. r.new = None /\ r.at \notin Holder /\ KindOK(r)
    BY <1>2, <2>0, <2>1 DEF Holding, Holder, KindOK, Owner, Gone, Remover, Lasting
  <2>3. /\ r.at \in Owner /\ r.id \in Rows /\ row[r.id].key = r.old
        /\ r.at \in Gone => r.kind \in Lasting /\ r.at = "delete.row"
    BY <1>2, <2>1 DEF Holding, Owner, Gone
  <2> QED BY <1>2, <2>1, <2>2, <2>3, SetsOut DEF Begin
<1>3. ASSUME NEW x \in RowIds, SyncBegin(p, x) PROVE Inv'
  <2>1. PICK r \in Request : r = [Holding(x, "sync.write") EXCEPT !.old = None]
    BY ConstantsAssumption DEF Request, Holding, Places
  <2>2. r.new = None /\ r.old \notin Keys /\ r.at \notin Holder /\ KindOK(r)
    BY <1>3, <2>1, ConstantsAssumption
    DEF SyncBegin, Holding, Holder, KindOK, Owner, Gone, Remover
  <2> QED BY <1>3, <2>1, <2>2, SetsOut DEF SyncBegin, Begin
<1>4. ASSUME NEW x \in RowIds, AgainBegin(p, x) PROVE Inv'
  BY <1>2, <1>4 DEF AgainBegin, Places
<1>5. ASSUME NEW x \in RowIds, TemplateBegin(p, x) PROVE Inv'
  BY <1>2, <1>5 DEF TemplateBegin, Places
<1>6. ASSUME NEW x \in RowIds, PhotoBegin(p, x) PROVE Inv'
  BY <1>2, <1>6 DEF PhotoBegin, Places
<1>7. ASSUME NEW x \in RowIds, DeleteBegin(p, x) PROVE Inv'
  <2>1. CASE Kind[x] \in {"template", "document"}
    BY <1>2, <1>7, <2>1 DEF DeleteBegin, Places
  <2>2. CASE Kind[x] \notin {"template", "document"}
    <3>1. Kind[x] \in Lasting
      BY <1>7, <2>2, ConstantsAssumption DEF DeleteBegin, Lasting, Kinds
    <3> QED BY <1>2, <1>7, <2>2, <3>1 DEF DeleteBegin, Places
  <2> QED BY <2>1, <2>2
<1> QED BY <1>1, <1>3, <1>4, <1>5, <1>6, <1>7 DEF Call

-----------------------------------------------------------------------------
(* uploadFile: the new key is above every key that anything names.         *)
LEMMA UploadKeepsInv ==
  ASSUME Inv, NEW p \in Requests, NEW from, NEW place,
         <<from, place>> \in {<<"create.upload", "create.insert">>,
                             <<"template.upload", "template.file">>,
                             <<"photo.upload", "photo.write">>},
         req[p].at = from, Upload(p, place), UNCHANGED <<row, born, torn, raced>>
  PROVE  Inv'
<1>0. TypeOK /\ RowsOK /\ ReqOK(req[p]) /\ req[p] \in Request
  BY DEF Inv, ReqsOK, TypeOK
<1>1. minted \in Nat /\ minted + 1 \in Keys /\ minted + 1 > minted /\ None \notin Keys
  BY <1>0, ConstantsAssumption DEF Upload, TypeOK, Keys
<1>2. PICK r \in Request : r = [req[p] EXCEPT !.at = place, !.new = minted + 1]
  BY <1>0, <1>1 DEF Request, Places
<1>3. req' = [req EXCEPT ![p] = r]
  BY <1>0, <1>2 DEF Upload, TypeOK, Request
<1>4. /\ r.at = place /\ r.new = minted + 1 /\ r.kind = req[p].kind
      /\ r.id = req[p].id /\ r.old = req[p].old
  BY <1>2 DEF Request
<1>5. req[p].new = None /\ req[p].kind \in Kinds
  BY <1>0 DEF ReqOK, HolderOK, KindOK, Holder
<1>6. TypeOK'
  <2>1. minted' \in 0..MaxKeys
    BY <1>0, ConstantsAssumption DEF TypeOK, Upload
  <2>2. req' \in [Requests -> Request]
    BY <1>0, <1>3 DEF TypeOK
  <2>3. store' \in [Keys -> Kinds \cup {None}]
    BY <1>0, <1>1, <1>5 DEF TypeOK, Upload
  <2> QED BY <1>0, <2>1, <2>2, <2>3 DEF TypeOK
<1>7. store' = [store EXCEPT ![minted + 1] = req[p].kind] /\ minted' = minted + 1
  BY DEF Upload
<1>8. ReqOK(r)'
  <2>1. HolderOK(r)'
    BY <1>0, <1>1, <1>4, <1>7 DEF HolderOK, Holder, TypeOK, RowsOK, RowOK, Rows, Keys
  <2>2. KindOK(r)'
    BY <1>0, <1>4, <1>5 DEF ReqOK, KindOK, Owner, Gone, Remover
  <2>3. OldOK(r)' /\ GoneOK(r)'
    BY <1>0, <1>1, <1>4, <1>7
    DEF ReqOK, OldOK, GoneOK, TypeOK, Owner, Gone, Keys, Lasting, Rows
  <2> QED BY <2>1, <2>2, <2>3 DEF ReqOK
<1>9. \A x \in RowIds : row[x] = None => Kind[x] # "signature"
  BY <1>0 DEF RowsOK, RowOK, Rows
<1>10. \A k \in Keys : store'[k] = store[k] \/ k = minted + 1
  BY <1>0, <1>7 DEF TypeOK
<1>11. /\ req[p].at \in Gone => r.at \in Gone
       /\ r.old = req[p].old
  BY <1>4 DEF Gone
<1>12. Shape(p, r)
  BY <1>1, <1>3, <1>4, <1>5, <1>6, <1>7, <1>8, <1>9, <1>10, <1>11 DEF Shape, Stays, Leaves, Gets, Parts
<1> QED BY <1>12, ShapeKeepsInv

(* deleteFile: the key that the request wants to replace, before the row.  *)
LEMMA DeleteKeepsInv ==
  ASSUME Inv, NEW p \in Requests, NEW from, NEW place,
         <<from, place>> \in {<<"again.file", "again.row">>,
                             <<"template.file", "template.write">>,
                             <<"photo.file", "photo.upload">>,
                             <<"delete.file", "delete.row">>},
         req[p].at = from, Delete(req[p].old), Goto(p, place),
         UNCHANGED <<row, born, minted, torn>>
  PROVE  Inv'
<1>0. TypeOK /\ RowsOK /\ ReqOK(req[p]) /\ req[p] \in Request /\ KeysApart
  BY DEF Inv, ReqsOK, TypeOK
<1>1. PICK r \in Request : r = [req[p] EXCEPT !.at = place]
  BY <1>0 DEF Request, Places
<1>2. req' = [req EXCEPT ![p] = r]
  BY <1>0, <1>1 DEF Goto, TypeOK, Request
<1>3. /\ r.at = place /\ r.new = req[p].new /\ r.kind = req[p].kind
      /\ r.id = req[p].id /\ r.old = req[p].old
  BY <1>1 DEF Request
<1>4. /\ raced \subseteq raced' /\ raced' \subseteq Keys
      /\ \A k \in Keys : store'[k] = store[k] \/ (k = req[p].old /\ store'[k] = None)
      /\ req[p].old \in Keys => req[p].old \in raced' \/ store'[req[p].old] = None
      /\ store' \in [Keys -> Kinds \cup {None}]
  <2>1. CASE /\ store' = IF req[p].old \in Keys THEN [store EXCEPT ![req[p].old] = None] ELSE store
             /\ UNCHANGED raced
    <3>1. /\ \A k \in Keys : store'[k] = store[k] \/ (k = req[p].old /\ store'[k] = None)
          /\ req[p].old \in Keys => store'[req[p].old] = None
      BY <1>0, <2>1 DEF TypeOK
    <3>2. store' \in [Keys -> Kinds \cup {None}]
      BY <1>0, <2>1 DEF TypeOK
    <3>3. raced \subseteq raced' /\ raced' \subseteq Keys
      BY <1>0, <2>1 DEF TypeOK
    <3> QED BY <3>1, <3>2, <3>3
  <2>2. CASE raced' = raced \cup ({req[p].old} \cap Keys) /\ UNCHANGED store
    <3>1. raced \subseteq raced' /\ raced' \subseteq Keys
      BY <1>0, <2>2 DEF TypeOK
    <3>2. req[p].old \in Keys => req[p].old \in raced'
      BY <2>2
    <3> QED BY <1>0, <2>2, <3>1, <3>2 DEF TypeOK
  <2> QED BY <2>1, <2>2 DEF Delete
<1>5. TypeOK'
  BY <1>0, <1>2, <1>4 DEF TypeOK
<1>6. req[p].new \in Keys => req[p].new # req[p].old
  BY <1>0 DEF KeysApart
<1>7. ReqOK(r)'
  <2>1. HolderOK(r)'
    BY <1>0, <1>3, <1>4, <1>6 DEF ReqOK, HolderOK, Holder, Rows
  <2>2. KindOK(r)'
    BY <1>0, <1>3 DEF ReqOK, KindOK, Owner, Gone, Remover
  <2>3. OldOK(r)'
    BY <1>0, <1>3, <1>4 DEF ReqOK, OldOK, Owner, Gone, Rows
  <2>4. GoneOK(r)'
    BY <1>3, <1>4 DEF GoneOK
  <2> QED BY <2>1, <2>2, <2>3, <2>4 DEF ReqOK
<1>8. \A x \in RowIds : row[x] = None => Kind[x] # "signature"
  BY <1>0 DEF RowsOK, RowOK, Rows
<1>9. r.at \in Gone
  BY <1>3 DEF Gone
<1>10. minted \in Nat BY <1>0 DEF TypeOK
<1>11. r.old \in Keys => r.old = req[p].old
  BY <1>3
<1>12. Shape(p, r)
  BY <1>2, <1>3, <1>4, <1>5, <1>7, <1>8, <1>9, <1>10 DEF Shape, Stays, Leaves, Gets, Parts
<1> QED BY <1>12, ShapeKeepsInv

-----------------------------------------------------------------------------
(* The UPDATE or DELETE of its row, or its end: the request is through     *)
(* (Idle), or starts afresh without an id (AgainRow).                      *)
LEMMA LastStepKeepsInv ==
  ASSUME Inv, NEW p \in Requests, NEW r \in Request, UNCHANGED <<store, minted>>,
         req' = [req EXCEPT ![p] = r], TypeOK',
         r.new = None, r.old = None, r.at \in {"idle", "create.upload"}, r.kind \in Kinds \/ r.at = "idle",
         torn \subseteq torn', raced \subseteq raced', born \subseteq born',
         \A x \in RowIds : Stays(x) \/ Leaves(x, p) \/ Gets(x, p),
         req[p].new \in Keys =>
           req[p].new \in torn' \cup raced' \/ \E x \in RowIds : row'[x] # None /\ row'[x].key = req[p].new,
         req[p].at \in Gone /\ req[p].old \in Keys =>
           req[p].old \in torn' \/ \A x \in RowIds : row'[x] # None => row'[x].key # req[p].old
  PROVE  Inv'
<1>1. r.old \notin Keys /\ r.new \notin Keys
  BY ConstantsAssumption
<1>2. ReqOK(r)'
  <2>1. HolderOK(r)' BY DEF HolderOK, Holder
  <2>2. KindOK(r)' BY DEF KindOK, Owner, Gone, Remover
  <2>3. OldOK(r)' /\ GoneOK(r)' BY <1>1 DEF OldOK, GoneOK
  <2> QED BY <2>1, <2>2, <2>3 DEF ReqOK
<1>3. minted \in Nat BY DEF Inv, TypeOK
<1>4. Shape(p, r) BY <1>1, <1>2, <1>3 DEF Shape, Stays, Leaves, Gets, Parts
<1> QED BY <1>4, ShapeKeepsInv

LEMMA IdleRequest ==
  /\ Idle \in Request /\ Idle.new = None /\ Idle.old = None /\ Idle.at = "idle"
  BY DEF Idle, Request, Places

(* What an UPDATE or DELETE by id overwrites was deleted by this request,  *)
(* or counts as lost.                                                      *)
LEMMA LoseCounts ==
  ASSUME TypeOK, NEW x \in RowIds, NEW old, Lose(x, old)
  PROVE  /\ raced \subseteq raced' /\ raced' \in SUBSET Keys
         /\ row[x] # None /\ row[x].key \in Keys => row[x].key \in raced' \/ row[x].key = old
<1>1. CASE x \in Rows
  <2>1. raced' = raced \cup (({row[x].key} \cap Keys) \ {old}) BY <1>1 DEF Lose
  <2>2. raced \subseteq raced' /\ raced' \subseteq Keys BY <2>1 DEF TypeOK
  <2> QED BY <2>1, <2>2
<1>2. CASE x \notin Rows
  BY <1>2 DEF Lose, Rows, TypeOK
<1> QED BY <1>1, <1>2

LEMMA WriteKeepsInv ==
  ASSUME Inv, NEW p \in Requests, req[p].at \in {"template.write", "photo.write"},
         Write(p), Done(p), UNCHANGED <<store, born, minted, torn>>
  PROVE  Inv'
<1>0. TypeOK /\ RowsOK /\ ReqOK(req[p]) /\ KeysApart /\ req[p] \in Request
  BY DEF Inv, ReqsOK, TypeOK
<1> DEFINE x == req[p].id
<1>1. /\ x \in RowIds /\ Kind[x] = req[p].kind
      /\ req[p].new \in Keys /\ req[p].new # req[p].old
      /\ req[p].at \in Gone
      /\ \A y \in Rows : row[y].key = req[p].old /\ req[p].old \in Keys => y = x
  BY <1>0 DEF ReqOK, HolderOK, KindOK, OldOK, Holder, Owner, Gone, KeysApart
<1>2. PICK r \in Request : r = Idle /\ r.new = None /\ r.old = None /\ r.at = "idle"
  BY IdleRequest
<1>3. req' = [req EXCEPT ![p] = r] /\ req' \in [Requests -> Request]
  BY <1>0, <1>2 DEF Done, TypeOK
<1>4. CASE x \in Rows
  <2>1. /\ row' = [row EXCEPT ![x] = [key |-> req[p].new, url |-> req[p].new]]
        /\ Lose(x, req[p].old)
    BY <1>4 DEF Write
  <2>2. /\ row' \in [RowIds -> Row \cup {None}]
        /\ row'[x] = [key |-> req[p].new, url |-> req[p].new]
        /\ \A y \in RowIds : y # x => row'[y] = row[y]
    BY <1>0, <1>1, <2>1 DEF TypeOK, Row
  <2>3. /\ raced \subseteq raced' /\ raced' \in SUBSET Keys
        /\ row[x].key \in Keys => row[x].key \in raced' \/ row[x].key = req[p].old
    BY <1>0, <1>1, <1>4, <2>1, LoseCounts DEF Rows
  <2>4. TypeOK' BY <1>0, <1>3, <2>2, <2>3 DEF TypeOK
  <2>5. row'[x] # None
    BY <1>0, <1>1, <1>4, <2>2, ConstantsAssumption DEF TypeOK, Row, Rows
  <2>6. Gets(x, p)
    BY <1>0, <1>1, <1>4, <2>2, <2>3, <2>5 DEF Gets, Parts, RowsOK, RowOK
  <2>7. ASSUME NEW y \in RowIds PROVE Stays(y) \/ Leaves(y, p) \/ Gets(y, p)
    BY <1>0, <2>2, <2>6, <2>7 DEF RowsOK, RowOK, Rows, Stays, Leaves, Parts
  <2>8. \A y \in RowIds : row'[y] # None /\ req[p].old \in Keys => row'[y].key # req[p].old
    BY <1>1, <2>2 DEF Rows
  <2>9. \E y \in RowIds : row'[y] # None /\ row'[y].key = req[p].new
    BY <1>1, <2>2, <2>5
  <2> HIDE DEF x
  <2> QED BY <1>2, <1>3, <2>3, <2>4, <2>7, <2>8, <2>9, LastStepKeepsInv
<1>5. CASE x \notin Rows
  <2>1. raced' = raced \cup {req[p].new} /\ UNCHANGED row
    BY <1>5 DEF Write
  <2>2. TypeOK' /\ raced \subseteq raced' /\ req[p].new \in raced'
    BY <1>0, <1>1, <1>3, <2>1 DEF TypeOK
  <2>3. ASSUME NEW y \in RowIds PROVE Stays(y) \/ Leaves(y, p)
    BY <1>0, <2>1, <2>3 DEF RowsOK, RowOK, Rows, Stays, Leaves, Parts
  <2>4. \A y \in RowIds : row'[y] # None /\ req[p].old \in Keys => row'[y].key # req[p].old
    BY <1>1, <1>5, <2>1 DEF Rows
  <2> QED BY <1>1, <1>2, <1>3, <2>1, <2>2, <2>3, <2>4, LastStepKeepsInv
<1> QED BY <1>4, <1>5

LEMMA InsertKeepsInv ==
  ASSUME Inv, NEW p \in Requests, NEW x \in RowIds, CreateInsert(p, x)
  PROVE  Inv'
<1>0. TypeOK /\ RowsOK /\ ReqOK(req[p]) /\ KeysApart /\ req[p] \in Request
  BY DEF Inv, ReqsOK, TypeOK
<1>1. /\ Kind[x] = req[p].kind /\ x \notin Rows
      /\ req[p].new \in Keys /\ req[p].at \notin Gone
  BY <1>0 DEF ReqOK, HolderOK, Holder, Gone, CreateInsert, RowsOK, RowOK
<1>2. PICK r \in Request : r = Idle /\ r.new = None /\ r.old = None /\ r.at = "idle"
  BY IdleRequest
<1>3. req' = [req EXCEPT ![p] = r] /\ req' \in [Requests -> Request]
  BY <1>0, <1>2 DEF Done, TypeOK, CreateInsert
<1>4. /\ row' \in [RowIds -> Row \cup {None}]
      /\ row'[x] = [key |-> req[p].new, url |-> req[p].new]
      /\ \A y \in RowIds : y # x => row'[y] = row[y]
  BY <1>0, <1>1 DEF TypeOK, Row, CreateInsert
<1>5. TypeOK' BY <1>0, <1>3, <1>4 DEF TypeOK, CreateInsert
<1>6. row'[x] # None
  BY <1>0, <1>1, <1>4, ConstantsAssumption DEF Row
<1>7. Gets(x, p)
  BY <1>0, <1>1, <1>4, <1>6 DEF Gets, Parts, Rows, CreateInsert
<1>8. ASSUME NEW y \in RowIds PROVE Stays(y) \/ Leaves(y, p) \/ Gets(y, p)
  BY <1>0, <1>4, <1>7, <1>8 DEF RowsOK, RowOK, Rows, Stays, Leaves, Parts
<1> QED BY <1>1, <1>2, <1>3, <1>4, <1>5, <1>6, <1>8, LastStepKeepsInv DEF CreateInsert

LEMMA SyncKeepsInv ==
  ASSUME Inv, NEW p \in Requests, SyncWrite(p)
  PROVE  Inv'
<1>0. TypeOK /\ RowsOK /\ ReqOK(req[p]) /\ req[p] \in Request
  BY DEF Inv, ReqsOK, TypeOK
<1> DEFINE x == req[p].id
<1>1. /\ x \in RowIds /\ x \in Rows /\ row[x] \in Row
      /\ req[p].new = None /\ req[p].at \notin Gone
  BY <1>0 DEF ReqOK, HolderOK, KindOK, Holder, Owner, Gone, SyncWrite, RowsOK, RowOK, TypeOK, Rows
<1>2. PICK r \in Request : r = Idle /\ r.new = None /\ r.old = None /\ r.at = "idle"
  BY IdleRequest
<1>3. req' = [req EXCEPT ![p] = r] /\ req' \in [Requests -> Request]
  BY <1>0, <1>2 DEF Done, TypeOK, SyncWrite
<1>4. /\ row' \in [RowIds -> Row \cup {None}]
      /\ row'[x].key = row[x].key /\ row'[x].url = None
      /\ row'[x] \in Row
      /\ \A y \in RowIds : y # x => row'[y] = row[y]
  BY <1>0, <1>1 DEF TypeOK, Row, SyncWrite
<1>5. TypeOK' BY <1>0, <1>3, <1>4 DEF TypeOK, SyncWrite, history
<1>6. Stays(x)
  BY <1>1, <1>4, ConstantsAssumption DEF Stays, Rows
<1>7. ASSUME NEW y \in RowIds PROVE Stays(y) \/ Leaves(y, p)
  BY <1>0, <1>4, <1>6, <1>7 DEF RowsOK, RowOK, Rows, Stays, Leaves, Parts
<1> QED BY <1>1, <1>2, <1>3, <1>5, <1>7, ConstantsAssumption, LastStepKeepsInv DEF SyncWrite, history

LEMMA RemoveKeepsInv ==
  ASSUME Inv, NEW p \in Requests, AgainRow(p) \/ DeleteRow(p)
  PROVE  Inv'
<1>0. TypeOK /\ RowsOK /\ ReqOK(req[p]) /\ req[p] \in Request
  BY DEF Inv, ReqsOK, TypeOK
<1> DEFINE x == req[p].id
<1>1. /\ x \in RowIds /\ Kind[x] # "signature" /\ req[p].new = None
      /\ req[p].at \in Gone
      /\ \A y \in Rows : row[y].key = req[p].old /\ req[p].old \in Keys => y = x
      /\ UNCHANGED <<store, minted, born, torn>>
      /\ row' = [row EXCEPT ![x] = None]
      /\ Lose(x, req[p].old)
  BY <1>0 DEF ReqOK, HolderOK, KindOK, OldOK, Holder, Owner, Gone, Remover, AgainRow, DeleteRow
<1>2. PICK r \in Request : /\ req' = [req EXCEPT ![p] = r]
                           /\ r.new = None /\ r.old = None
                           /\ \/ r.at = "idle"
                              \/ r.at = "create.upload" /\ r.kind \in Kinds
  <2>1. Idle \in Request BY IdleRequest
  <2>2. [Idle EXCEPT !.at = "create.upload", !.kind = "document"] \in Request
    BY DEF Idle, Request, Places, Kinds
  <2> QED BY <2>1, <2>2 DEF AgainRow, DeleteRow, Done, Idle, Kinds
<1>3. /\ row' \in [RowIds -> Row \cup {None}] /\ row'[x] = None
      /\ \A y \in RowIds : y # x => row'[y] = row[y]
  BY <1>0, <1>1 DEF TypeOK
<1>4. /\ raced \subseteq raced' /\ raced' \in SUBSET Keys
      /\ row[x] # None /\ row[x].key \in Keys => row[x].key \in raced' \/ row[x].key = req[p].old
  BY <1>0, <1>1, LoseCounts
<1>5. TypeOK' BY <1>0, <1>1, <1>2, <1>3, <1>4 DEF TypeOK
<1>6. Leaves(x, p)
  BY <1>1, <1>3, <1>4 DEF Leaves, Parts
<1>7. ASSUME NEW y \in RowIds PROVE Stays(y) \/ Leaves(y, p)
  BY <1>0, <1>3, <1>6, <1>7 DEF RowsOK, RowOK, Rows, Stays, Leaves, Parts
<1>8. \A y \in RowIds : row'[y] # None /\ req[p].old \in Keys => row'[y].key # req[p].old
  BY <1>1, <1>3 DEF Rows
<1> HIDE DEF x
<1> QED BY <1>1, <1>2, <1>4, <1>5, <1>7, <1>8, ConstantsAssumption, LastStepKeepsInv

LEMMA DieKeepsInv ==
  ASSUME Inv, NEW p \in Requests, Die(p)
  PROVE  Inv'
<1>0. TypeOK /\ RowsOK /\ req[p] \in Request
  BY DEF Inv, TypeOK
<1>1. PICK r \in Request : r = Idle /\ r.new = None /\ r.old = None /\ r.at = "idle"
  BY IdleRequest
<1>2. req' = [req EXCEPT ![p] = r] /\ req' \in [Requests -> Request]
  BY <1>0, <1>1 DEF Done, TypeOK, Die
<1>3. /\ torn \subseteq torn' /\ torn' \subseteq Keys
      /\ req[p].new \in Keys => req[p].new \in torn'
      /\ req[p].old \in Keys => req[p].old \in torn'
  BY <1>0 DEF Die, TypeOK
<1>4. TypeOK' BY <1>0, <1>2, <1>3 DEF TypeOK, Die
<1>5. ASSUME NEW y \in RowIds PROVE Stays(y) \/ Leaves(y, p)
  BY <1>0, <1>5 DEF RowsOK, RowOK, Rows, Stays, Leaves, Parts, Die
<1> QED BY <1>1, <1>2, <1>3, <1>4, <1>5, LastStepKeepsInv DEF Die

-----------------------------------------------------------------------------
LEMMA Initially == Init => Inv
<1> SUFFICES ASSUME Init PROVE Inv OBVIOUS
<1>1. TypeOK
  BY ConstantsAssumption, IdleRequest DEF Init, TypeOK, Bare, Empty, Row, Keys
<1>2. /\ \A x \in Rows : row[x].key = None /\ row[x].url = None
      /\ \A p \in Requests : req[p] = Idle
  BY DEF Init, Rows, Empty
<1>3. RowsOK
  BY <1>2, ConstantsAssumption DEF Init, RowsOK, RowOK, Rows, Bare, Row, Empty
<1>4. ReqsOK
  BY <1>2, ConstantsAssumption
  DEF ReqsOK, ReqOK, HolderOK, KindOK, OldOK, GoneOK, Holder, Owner, Gone, Remover, Idle
<1>5. KeysApart BY <1>2, IdleRequest, ConstantsAssumption DEF KeysApart
<1>6. OneRowPerObject /\ ReadersFindTheFile
  BY <1>2, ConstantsAssumption DEF OneRowPerObject, ReadersFindTheFile, Lost
<1>7. NothingLeftBehind BY DEF Init, NothingLeftBehind, Stored
<1> QED BY <1>1, <1>3, <1>4, <1>5, <1>6, <1>7 DEF Inv

LEMMA Invariance == Inv /\ [Next]_vars => Inv'
<1> SUFFICES ASSUME Inv, [Next]_vars PROVE Inv' OBVIOUS
<1>1. ASSUME NEW p \in Requests, Step(p) PROVE Inv'
  <2>1. CASE CreateUpload(p)
    BY <2>1, UploadKeepsInv DEF CreateUpload
  <2>2. CASE TemplateUpload(p)
    BY <2>2, UploadKeepsInv DEF TemplateUpload
  <2>3. CASE PhotoUpload(p)
    BY <2>3, UploadKeepsInv DEF PhotoUpload
  <2>4. CASE \E x \in RowIds : CreateInsert(p, x)
    BY <2>4, InsertKeepsInv
  <2>5. CASE AgainFile(p)
    BY <2>5, DeleteKeepsInv DEF AgainFile
  <2>6. CASE TemplateFile(p)
    BY <2>6, DeleteKeepsInv DEF TemplateFile
  <2>7. CASE PhotoFile(p)
    BY <2>7, DeleteKeepsInv DEF PhotoFile
  <2>8. CASE DeleteFile(p)
    BY <2>8, DeleteKeepsInv DEF DeleteFile
  <2>9. CASE TemplateWrite(p)
    BY <2>9, WriteKeepsInv DEF TemplateWrite
  <2>10. CASE PhotoWrite(p)
    BY <2>10, WriteKeepsInv DEF PhotoWrite
  <2>11. CASE SyncWrite(p)
    BY <2>11, SyncKeepsInv
  <2>12. CASE AgainRow(p) \/ DeleteRow(p)
    BY <2>12, RemoveKeepsInv
  <2> QED BY <1>1, <2>1, <2>2, <2>3, <2>4, <2>5, <2>6, <2>7, <2>8, <2>9, <2>10,
             <2>11, <2>12 DEF Step
<1>2. CASE UNCHANGED vars
  <2> USE <1>2 DEF vars, history
  <2>1. TypeOK' BY DEF Inv, TypeOK
  <2>2. RowsOK' BY DEF Inv, RowsOK, RowOK, Rows
  <2>3. ReqsOK'
    BY DEF Inv, ReqsOK, ReqOK, HolderOK, KindOK, OldOK, GoneOK, Rows
  <2>4. KeysApart' BY DEF Inv, KeysApart
  <2>5. OneRowPerObject' BY DEF Inv, OneRowPerObject, Rows
  <2>6. ReadersFindTheFile' BY DEF Inv, ReadersFindTheFile, Lost, Rows, Stored, Swaps
  <2>7. NothingLeftBehind' BY DEF Inv, NothingLeftBehind, Stored, Named, Rows
  <2> QED BY <2>1, <2>2, <2>3, <2>4, <2>5, <2>6, <2>7 DEF Inv
<1> QED BY <1>1, <1>2, CallsKeepInv, DieKeepsInv DEF Next

(* Every state has the types that TypeOK gives the tables, the bucket and  *)
(* the requests.                                                           *)
THEOREM TypeCorrect == Spec => []TypeOK
<1>1. Inv => TypeOK BY DEF Inv
<1> QED BY <1>1, Initially, Invariance, PTL DEF Spec

(* However replacements, deletions and syncs of any number of rows         *)
(* overlap, a row names a missing object only while the request that       *)
(* deleted it has yet to write, or after that request ended early.         *)
THEOREM LossHasACause == Spec => []ReadersFindTheFile
<1>1. Inv => ReadersFindTheFile BY DEF Inv
<1> QED BY <1>1, Initially, Invariance, PTL DEF Spec

(* An object without a row is being worked on, or one of the named         *)
(* accidents happened to it; photos and answers are the exception.         *)
THEOREM OrphanHasACause == Spec => []NothingLeftBehind
<1>1. Inv => NothingLeftBehind BY DEF Inv
<1> QED BY <1>1, Initially, Invariance, PTL DEF Spec

(* Whatever overlaps, two rows never share an object.                      *)
THEOREM RowsKeepApart == Spec => []OneRowPerObject
<1>1. Inv => OneRowPerObject BY DEF Inv
<1> QED BY <1>1, Initially, Invariance, PTL DEF Spec
=============================================================================
