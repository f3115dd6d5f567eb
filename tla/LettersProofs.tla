---------------------------- MODULE LettersProofs ----------------------------
(***************************************************************************)
(* Proofs about Letters, for any number of students, dosens, letters, keys *)
(* and requests, with and without failures.                                *)
(*                                                                         *)
(* NoStrayLetters is not inductive: nothing in it says that the key which  *)
(* a late approval deletes holds its own letter and no row's.  Inv adds    *)
(* what every request knows about the letter it works on (ReqOK), that the *)
(* keys of uploads in flight are apart from each other and from the rows   *)
(* (KeysApart, ReqOK), and what a row's file and signature are (RowOK).    *)
(* With it, a step is one of LetterPromise or leaves its state alone.      *)
(***************************************************************************)
EXTENDS Letters, TLAPS

Uploaded == {"approve.update", "approve.cleanup"}
Approving == {"approve.details", "approve.upload"} \cup Uploaded

IsSigned(s) == s \in Keys /\ store[s] \in Signature
SignOK(l, s) == IF s = None THEN l \notin Permohonan ELSE IsSigned(s)

SignedFor(l, k) ==
  /\ k \in Keys
  /\ store[k] \in SignedLetter
  /\ store[k].letter = l
  /\ SignOK(l, store[k].signature)

RowOK(l) ==
  /\ row[l].status = "DISETUJUI" <=> row[l].file # None
  /\ row[l].file # None => SignedFor(l, row[l].file)
  /\ IF row[l].status = "none" THEN row[l].signature = None
                               ELSE SignOK(l, row[l].signature)

ReqOK(r) ==
  /\ r.at \in Approving => r.letter \in Letters /\ row[r.letter].status # "none"
  /\ r.at = "approve.upload" => SignOK(r.letter, r.signature)
  /\ r.at \in Uploaded =>
       SignedFor(r.letter, r.key) /\ \A l \in Letters : row[l].file # r.key
  /\ r.at = "reject.update" => r.letter \in Letters
  /\ r.at \in {"again.sign", "again.update"} =>
       r.letter \in Letters /\ r.form = Form(r.letter)
  /\ r.at \in {"ask.sign", "again.sign"} => r.by \in Members
  /\ r.at = "ask.sign" => r.form = "permohonan"
  /\ r.at = "ask.insert" =>
       IF r.form = "permohonan" THEN IsSigned(r.signature) ELSE r.signature = None
  /\ r.at = "again.update" /\ r.form = "permohonan" => IsSigned(r.signature)

RowsOK == \A l \in Letters : RowOK(l)
ReqsOK == \A p \in Requests : ReqOK(req[p])

KeysApart ==
  \A p, q \in Requests :
    p # q /\ req[p].at \in Uploaded /\ req[q].at \in Uploaded => req[p].key # req[q].key

Inv == TypeOK /\ RowsOK /\ ReqsOK /\ KeysApart /\ NoStrayLetters

-----------------------------------------------------------------------------
(* A signed letter is no signature, and neither is an empty place.         *)
LEMMA ObjectKinds ==
  /\ SignedLetter \cap Signature = {}
  /\ None \notin SignedLetter
  /\ None \notin Signature
<1>1. ASSUME NEW o \in SignedLetter, o \in Signature PROVE FALSE
  <2>1. DOMAIN o = {"letter", "signature"} BY <1>1 DEF SignedLetter
  <2>2. DOMAIN o = {"owner"} BY <1>1 DEF Signature
  <2> QED BY <2>1, <2>2
<1> QED BY <1>1, NoneIsNoObject DEF Object

(* Initially there is nothing.                                             *)
LEMMA Initially == Init => Inv
<1> SUFFICES ASSUME Init PROVE Inv
  OBVIOUS
<1>1. TypeOK
  BY ConstantsAssumption DEF Init, TypeOK, Row, NoRow, Status, Request, Idle, Places
<1>2. RowsOK
  BY DEF Init, RowsOK, RowOK, NoRow
<1>3. ReqsOK /\ KeysApart
  BY DEF Init, ReqsOK, ReqOK, KeysApart, Idle, Approving, Uploaded
<1>4. NoStrayLetters
  BY ObjectKinds DEF Init, NoStrayLetters
<1> QED BY <1>1, <1>2, <1>3, <1>4 DEF Inv

(* A step of request p that keeps the signatures and, but for the key of   *)
(* p, the signed letters, and writes no key of another request into a row, *)
(* spoils nothing that another request knows.                              *)
LEMMA OthersUndisturbed ==
  ASSUME Inv,
         NEW p \in Requests, NEW q \in Requests, q # p,
         req'[q] = req[q],
         \A s \in Keys : store[s] \in Signature => store'[s] = store[s],
         \A k \in Keys : store[k] \in SignedLetter /\ (req[p].at \in Uploaded => k # req[p].key) =>
                           store'[k] = store[k],
         \A l \in Letters : row[l].status # "none" => row'[l].status # "none",
         req[q].at \in Uploaded => \A l \in Letters : row'[l].file # req[q].key
  PROVE  ReqOK(req[q])'
<1>1. ReqOK(req[q]) BY DEF Inv, ReqsOK
<1>2. ASSUME NEW s, IsSigned(s) PROVE IsSigned(s)'
  BY <1>2 DEF IsSigned
<1>3. ASSUME NEW l, NEW s, SignOK(l, s) PROVE SignOK(l, s)'
  BY <1>2, <1>3 DEF SignOK
<1>4. req[q].at \in Uploaded => store'[req[q].key] = store[req[q].key]
  BY <1>1 DEF Inv, KeysApart, ReqOK, SignedFor
<1>5. req[q].at \in Uploaded => SignedFor(req[q].letter, req[q].key)'
  BY <1>1, <1>3, <1>4 DEF ReqOK, SignedFor
<1> QED BY <1>1, <1>2, <1>3, <1>5 DEF ReqOK, Approving, Uploaded

(* The same, of the rows it does not write.                                *)
LEMMA RowsUndisturbed ==
  ASSUME Inv,
         NEW p \in Requests, NEW l \in Letters,
         row'[l] = row[l],
         \A s \in Keys : store[s] \in Signature => store'[s] = store[s],
         \A k \in Keys : store[k] \in SignedLetter /\ (req[p].at \in Uploaded => k # req[p].key) =>
                           store'[k] = store[k]
  PROVE  RowOK(l)'
<1>1. RowOK(l) BY DEF Inv, RowsOK
<1>2. ASSUME NEW s, SignOK(l, s) PROVE SignOK(l, s)'
  BY <1>2 DEF SignOK, IsSigned
<1>3. row[l].file # None => store'[row[l].file] = store[row[l].file]
  BY <1>1 DEF Inv, ReqsOK, ReqOK, RowOK, SignedFor
<1> QED BY <1>1, <1>2, <1>3 DEF RowOK, SignedFor

(* A step that only moves request p: it gives up its key, which is lost if *)
(* an upload was not recorded, and knows what its new place requires.      *)
LEMMA MovesOnly ==
  ASSUME Inv,
         NEW p \in Requests, NEW r \in Request,
         req' = [req EXCEPT ![p] = r],
         UNCHANGED <<row, store>>,
         lost' = Orphans(p),
         r.at \notin Uploaded,
         ReqOK(r)
  PROVE  Inv'
<1>0. TypeOK /\ RowsOK /\ KeysApart /\ NoStrayLetters /\ ReqsOK BY DEF Inv
<1>1. TypeOK'
  <2>1. lost' \in SUBSET Keys
    BY <1>0 DEF Orphans, ReqsOK, ReqOK, SignedFor, TypeOK, Uploaded
  <2> QED BY <1>0, <2>1 DEF TypeOK
<1>2. RowsOK'
  BY RowsUndisturbed DEF RowsOK
<1>3. ReqsOK'
  <2> SUFFICES ASSUME NEW q \in Requests PROVE ReqOK(req[q])'
    BY DEF ReqsOK
  <2>1. CASE q = p
    <3>1. req'[p] = r BY <1>0 DEF TypeOK
    <3> QED BY <2>1, <3>1 DEF ReqOK, SignOK, IsSigned, SignedFor
  <2>2. CASE q # p
    <3>1. req'[q] = req[q] BY <2>2, <1>0 DEF TypeOK
    <3>2. req[q].at \in Uploaded => \A l \in Letters : row'[l].file # req[q].key
      BY <1>0 DEF ReqsOK, ReqOK
    <3> QED BY <2>2, <3>1, <3>2, OthersUndisturbed
  <2> QED BY <2>1, <2>2
<1>4. KeysApart'
  BY <1>0 DEF KeysApart, TypeOK
<1>5. NoStrayLetters'
  BY <1>0 DEF NoStrayLetters, Referenced, Orphans, TypeOK, Uploaded
<1> QED BY <1>1, <1>2, <1>3, <1>4, <1>5 DEF Inv

(* A step that decides or asks for the letter l in the table: the uploads  *)
(* of the others stay unrecorded.                                          *)
LEMMA WritesRow ==
  ASSUME Inv,
         NEW p \in Requests, NEW r \in Request, NEW l \in Letters, NEW w \in Row,
         req' = [req EXCEPT ![p] = r],
         row' = [row EXCEPT ![l] = w],
         UNCHANGED <<store, lost>>,
         r.at \notin Uploaded, ReqOK(r)',
         w.status # "none",
         w.status = "DISETUJUI" <=> w.file # None,
         w.file # None => req[p].at \in Uploaded /\ w.file = req[p].key /\ req[p].letter = l,
         row[l].file = None,
         req[p].at \in Uploaded => w.file = req[p].key,
         SignOK(l, w.signature)
  PROVE  Inv'
<1>0. TypeOK /\ RowsOK /\ KeysApart /\ NoStrayLetters /\ ReqsOK BY DEF Inv
<1>a. row'[l] = w /\ \A m \in Letters : m # l => row'[m] = row[m]
  BY <1>0 DEF TypeOK
<1>b. req'[p] = r /\ \A q \in Requests : q # p => req'[q] = req[q]
  BY <1>0 DEF TypeOK
<1>1. TypeOK'
  BY <1>0 DEF TypeOK
<1>2. RowsOK'
  <2> SUFFICES ASSUME NEW m \in Letters PROVE RowOK(m)'
    BY DEF RowsOK
  <2>1. CASE m # l
    BY <1>a, <2>1, RowsUndisturbed
  <2>2. CASE m = l
    <3>1. w.file # None => SignedFor(l, w.file)
      BY <1>0 DEF ReqsOK, ReqOK
    <3> QED BY <1>a, <2>2, <3>1 DEF RowOK, SignedFor, SignOK, IsSigned
  <2> QED BY <2>1, <2>2
<1>3. ReqsOK'
  <2> SUFFICES ASSUME NEW q \in Requests, q # p PROVE ReqOK(req[q])'
    BY <1>b DEF ReqsOK
  <2>1. req[q].at \in Uploaded => \A m \in Letters : row'[m].file # req[q].key
    <3> SUFFICES ASSUME req[q].at \in Uploaded, NEW m \in Letters
                 PROVE  row'[m].file # req[q].key
      OBVIOUS
    <3>1. req[q].key \in Keys /\ row[m].file # req[q].key
      BY <1>0 DEF ReqsOK, ReqOK, SignedFor
    <3>2. req[p].at \in Uploaded => req[p].key # req[q].key
      BY <1>0 DEF KeysApart
    <3> QED BY <1>a, <3>1, <3>2, ConstantsAssumption
  <2>2. \A m \in Letters : row[m].status # "none" => row'[m].status # "none"
    BY <1>a
  <2> QED BY <1>b, <2>1, <2>2, OthersUndisturbed
<1>4. KeysApart'
  BY <1>0, <1>b DEF KeysApart
<1>5. NoStrayLetters'
  <2> SUFFICES ASSUME NEW k \in Keys, store[k] \in SignedLetter, k \notin lost,
                      ~ \E q \in Requests : req'[q].key = k /\ req'[q].at \in Uploaded
               PROVE  Referenced(k)'
    BY DEF NoStrayLetters, Uploaded
  <2>1. CASE Referenced(k)
    <3>1. PICK m \in Letters : k \in {row[m].file, row[m].signature}
      BY <2>1 DEF Referenced
    <3>3. CASE m # l
      BY <1>a, <3>1, <3>3 DEF Referenced
    <3>4. CASE m = l
      <4>1. k = row[l].signature /\ k # None BY <3>1, <3>4, ConstantsAssumption
      <4>2. store[k] \in Signature
        BY <1>0, <4>1 DEF RowsOK, RowOK, SignOK, IsSigned
      <4> QED BY <4>2, ObjectKinds
    <3> QED BY <3>3, <3>4
  <2>2. CASE \E q \in Requests : req[q].key = k /\ req[q].at \in Uploaded
    BY <1>a, <1>b, <2>2 DEF Referenced
  <2> QED BY <1>0, <2>1, <2>2 DEF NoStrayLetters, Uploaded
<1> QED BY <1>1, <1>2, <1>3, <1>4, <1>5 DEF Inv

(* A step that stores an object under a fresh key: a signature, or the     *)
(* letter that p is then to record.                                        *)
LEMMA Stores ==
  ASSUME Inv,
         NEW p \in Requests, NEW r \in Request, NEW k \in FreshKeys, NEW o \in Object,
         req' = [req EXCEPT ![p] = r],
         store' = [store EXCEPT ![k] = o],
         UNCHANGED <<row, lost>>,
         req[p].at \notin Uploaded,
         ReqOK(r)',
         r.at \in Uploaded => r.key = k,
         o \in SignedLetter => r.at \in Uploaded
  PROVE  Inv'
<1>0. TypeOK /\ RowsOK /\ KeysApart /\ NoStrayLetters /\ ReqsOK BY DEF Inv
<1>a. k \in Keys /\ store[k] = None /\ ~InUse(k) BY DEF FreshKeys
<1>b. store'[k] = o /\ \A s \in Keys : s # k => store'[s] = store[s]
  BY <1>0, <1>a DEF TypeOK
<1>c. req'[p] = r /\ \A q \in Requests : q # p => req'[q] = req[q]
  BY <1>0 DEF TypeOK
<1>d. \A s \in Keys : store[s] # None => store'[s] = store[s]
  BY <1>a, <1>b
<1>e. \A q \in Requests : req[q].key # k
  BY <1>a DEF InUse
<1>1. TypeOK'
  BY <1>0, <1>a DEF TypeOK
<1>2. RowsOK'
  BY <1>d, ObjectKinds, RowsUndisturbed DEF RowsOK
<1>3. ReqsOK'
  <2> SUFFICES ASSUME NEW q \in Requests, q # p PROVE ReqOK(req[q])'
    BY <1>c DEF ReqsOK
  <2>1. req[q].at \in Uploaded => \A l \in Letters : row'[l].file # req[q].key
    BY <1>0 DEF ReqsOK, ReqOK
  <2> QED BY <1>c, <1>d, <2>1, ObjectKinds, OthersUndisturbed
<1>4. KeysApart'
  BY <1>0, <1>c, <1>e DEF KeysApart
<1>5. NoStrayLetters'
  <2> SUFFICES ASSUME NEW s \in Keys, store'[s] \in SignedLetter, s \notin lost, ~Referenced(s)'
               PROVE  \E q \in Requests : req'[q].key = s /\ req'[q].at \in Uploaded
    BY DEF NoStrayLetters, Uploaded
  <2>1. CASE s = k
    BY <1>b, <1>c, <2>1
  <2>2. CASE s # k
    <3>1. store[s] \in SignedLetter /\ ~Referenced(s) BY <1>b, <2>2 DEF Referenced
    <3>2. PICK q \in Requests : req[q].key = s /\ req[q].at \in Uploaded
      BY <1>0, <3>1 DEF NoStrayLetters, Uploaded
    <3> QED BY <1>c, <3>2
  <2> QED BY <2>1, <2>2
<1> QED BY <1>1, <1>2, <1>3, <1>4, <1>5 DEF Inv

(* The records a request may become.                                       *)
LEMMA Rests ==
  ASSUME TypeOK, NEW p \in Requests, NEW r,
         r = Idle \/ r = [Idle EXCEPT !.at = "approve.next", !.dosen = req[p].dosen,
                                      !.todo = req[p].todo]
  PROVE  r \in Request /\ r.at \notin Uploaded /\ ReqOK(r) /\ ReqOK(r)'
<1>0. Idle \in Request BY DEF Request, Idle, Places
<1>1. r \in Request
  <2>1. req[p].dosen \in Dosens \cup {None} /\ req[p].todo \in SUBSET Letters
    BY DEF TypeOK, Request
  <2>2. CASE r = [Idle EXCEPT !.at = "approve.next", !.dosen = req[p].dosen,
                              !.todo = req[p].todo]
    BY <1>0, <2>1, <2>2 DEF Request, Places
  <2> QED BY <1>0, <2>2
<1>2. r.at = "idle" \/ r.at = "approve.next"
  <2>1. CASE r = Idle
    BY <2>1 DEF Idle
  <2>2. CASE r = [Idle EXCEPT !.at = "approve.next", !.dosen = req[p].dosen,
                              !.todo = req[p].todo]
    BY <1>0, <2>2 DEF Request
  <2> QED BY <2>1, <2>2
<1> QED BY <1>1, <1>2 DEF ReqOK, Uploaded, Approving

LEMMA AtPlaceWithKey ==
  ASSUME NEW r \in Request, NEW k \in Keys
  PROVE  [r EXCEPT !.at = "approve.update", !.key = k] \in Request
<1>1. "approve.update" \in Places BY DEF Places
<1>2. PICK s \in Request : s = [r EXCEPT !.at = "approve.update"] BY <1>1 DEF Request
<1>3. [s EXCEPT !.key = k] \in Request BY DEF Request
<1> QED BY <1>2, <1>3

LEMMA DoneKeepsType ==
  ASSUME TypeOK, NEW p \in Requests, Done(p) \/ NextLetter(p)
  PROVE  \E r \in Request : req' = [req EXCEPT ![p] = r] /\ r.at \notin Uploaded
                              /\ ReqOK(r) /\ ReqOK(r)'
BY Rests DEF Done, NextLetter

-----------------------------------------------------------------------------
(* The operations, one by one.                                             *)

LEMMA Asks ==
  ASSUME Inv, NEW p \in Requests, NEW by \in Members, NEW m \in Members, NEW d \in Dosens,
         AskKesediaan(p, by, m, d) \/ AskPermohonan(p, by, m, d)
  PROVE  Inv'
<1>0. TypeOK BY DEF Inv
<1>1. PICK r : /\ r = [Idle EXCEPT !.at = "ask.insert", !.member = m, !.dosen = d, !.by = by]
                  \/ r = [Idle EXCEPT !.at = "ask.sign", !.member = m, !.dosen = d, !.by = by,
                                      !.form = "permohonan"]
               /\ Begin(p, r)
  BY DEF AskKesediaan, AskPermohonan
<1>2. r \in Request /\ r.at \notin Uploaded /\ ReqOK(r)
  <2>1. CASE r = [Idle EXCEPT !.at = "ask.insert", !.member = m, !.dosen = d, !.by = by]
    BY <2>1 DEF Request, Idle, Places, Uploaded, ReqOK, Approving
  <2>2. CASE r = [Idle EXCEPT !.at = "ask.sign", !.member = m, !.dosen = d, !.by = by,
                              !.form = "permohonan"]
    BY <2>2 DEF Request, Idle, Places, Uploaded, ReqOK, Approving
  <2> QED BY <1>1, <2>1, <2>2
<1>3. req' = [req EXCEPT ![p] = r] /\ lost' = Orphans(p) /\ UNCHANGED <<row, store>>
  BY <1>1 DEF Begin, Orphans, AskKesediaan, AskPermohonan
<1> QED BY <1>2, <1>3, MovesOnly

LEMMA Signs ==
  ASSUME Inv, NEW p \in Requests, AskSign(p) \/ AgainSign(p)
  PROVE  Inv'
<1>0. TypeOK /\ ReqOK(req[p]) /\ req[p] \in Request BY DEF Inv, ReqsOK, TypeOK
<1>1. PICK k \in FreshKeys, to \in {"ask.insert", "again.update"} :
        /\ store' = [store EXCEPT ![k] = [owner |-> req[p].by]]
        /\ req' = [req EXCEPT ![p].at = to, ![p].signature = k]
        /\ to = "ask.insert" => req[p].at = "ask.sign"
        /\ to = "again.update" => req[p].at = "again.sign"
        /\ UNCHANGED <<row, lost>>
  BY DEF AskSign, AgainSign, TakeSignature
<1>2. k \in Keys BY DEF FreshKeys
<1>3. [req[p] EXCEPT !.at = to, !.signature = k] \in Request
  BY <1>0, <1>2 DEF Request, Places
<1>4. PICK r \in Request : r = [req[p] EXCEPT !.at = to, !.signature = k]
  BY <1>3
<1>5. PICK o \in Signature : o = [owner |-> req[p].by] /\ o \in Object
  <2>1. req[p].by \in Members BY <1>0, <1>1 DEF ReqOK
  <2>2. [owner |-> req[p].by] \in Signature BY <2>1 DEF Signature
  <2> QED BY <2>2 DEF Object
<1>6. req' = [req EXCEPT ![p] = r] /\ store' = [store EXCEPT ![k] = o]
  BY <1>0, <1>1, <1>4, <1>5 DEF TypeOK
<1>7. r.at = to /\ r.signature = k /\ r.form = req[p].form /\ r.letter = req[p].letter
  BY <1>0, <1>4 DEF Request
<1>8. IsSigned(k)'
  <2>1. store'[k] = o BY <1>0, <1>2, <1>6 DEF TypeOK
  <2> QED BY <1>2, <1>5, <2>1 DEF IsSigned, Signature
<1>9. /\ to = "ask.insert" => r.form = "permohonan"
      /\ to = "again.update" => r.letter \in Letters /\ r.form = Form(r.letter)
  BY <1>0, <1>1, <1>7 DEF ReqOK
<1>10. ReqOK(r)'
  BY <1>7, <1>8, <1>9 DEF ReqOK, Approving, Uploaded, Form
<1>11. req[p].at \notin Uploaded /\ r.at \notin Uploaded BY <1>1, <1>7 DEF Uploaded
<1>12. o \notin SignedLetter BY <1>5, ObjectKinds
<1>13. o \in Object /\ UNCHANGED <<row, lost>> BY <1>1, <1>5
<1> QED BY <1>6, <1>10, <1>11, <1>12, <1>13, Stores

LEMMA Inserts ==
  ASSUME Inv, NEW p \in Requests, AskInsert(p)
  PROVE  Inv'
<1>0. TypeOK /\ RowsOK /\ ReqOK(req[p]) /\ req[p] \in Request BY DEF Inv, ReqsOK, TypeOK
<1>1. req[p].at = "ask.insert" /\ Done(p) /\ UNCHANGED <<store, lost>>
  BY DEF AskInsert
<1>2. PICK r \in Request : req' = [req EXCEPT ![p] = r] /\ r.at \notin Uploaded
                              /\ ReqOK(r) /\ ReqOK(r)'
  BY <1>0, <1>1, DoneKeepsType
<1>3. CASE UNCHANGED row
  <2>1. lost' = Orphans(p) BY <1>1 DEF Orphans
  <2> QED BY <1>1, <1>2, <1>3, <2>1, MovesOnly
<1>4. ASSUME NEW l \in Free(req[p].form),
             row' = [row EXCEPT ![l] = [status |-> "MENUNGGU", member |-> req[p].member,
                       dosen |-> req[p].dosen, file |-> None, signature |-> req[p].signature]]
      PROVE  Inv'
  <2>1. l \in Letters /\ row[l].status = "none" BY <1>0 DEF Free, Letters, Request
  <2>2. PICK w \in Row : w = [status |-> "MENUNGGU", member |-> req[p].member,
                       dosen |-> req[p].dosen, file |-> None, signature |-> req[p].signature]
    BY <1>0 DEF Request, Row, Status
  <2>3. row[l].file = None BY <1>0, <2>1 DEF RowsOK, RowOK
  <2>4. SignOK(l, w.signature)
    <3>1. req[p].form = "permohonan" => IsSigned(req[p].signature)
      BY <1>0, <1>1 DEF ReqOK
    <3>2. req[p].form # "permohonan" => req[p].signature = None /\ l \notin Permohonan
      BY <1>0, <1>1, <1>4, ConstantsAssumption DEF ReqOK, Free, Request
    <3> QED BY <2>2, <3>1, <3>2, ConstantsAssumption DEF SignOK, IsSigned
  <2>5. req[p].at \notin Uploaded BY <1>1 DEF Uploaded
  <2>6. row' = [row EXCEPT ![l] = w] BY <1>4, <2>2
  <2> QED BY <1>1, <1>2, <2>1, <2>2, <2>3, <2>4, <2>5, <2>6, WritesRow
<1> QED BY <1>3, <1>4 DEF AskInsert

LEMMA Approves ==
  ASSUME Inv, NEW p \in Requests, NEW d \in Dosens,
         NEW L \in (SUBSET Kesediaan) \cup (SUBSET Permohonan), Approve(p, d, L)
  PROVE  Inv'
<1>1. PICK r \in Request :
        r = [Idle EXCEPT !.at = "approve.next", !.dosen = d, !.todo = L]
  <2>1. Idle \in Request BY DEF Request, Idle, Places
  <2>2. L \in SUBSET Letters BY DEF Letters
  <2> QED BY <2>1, <2>2 DEF Request, Places
<1>2. r.at = "approve.next"
  <2>1. Idle \in Request BY DEF Request, Idle, Places
  <2> QED BY <1>1, <2>1 DEF Request
<1>3. req' = [req EXCEPT ![p] = r] /\ lost' = Orphans(p) /\ UNCHANGED <<row, store>>
  BY <1>1 DEF Approve, Begin, Orphans
<1>4. r.at \notin Uploaded /\ ReqOK(r) BY <1>2 DEF Uploaded, ReqOK, Approving
<1> QED BY <1>3, <1>4, MovesOnly

LEMMA TakesNext ==
  ASSUME Inv, NEW p \in Requests, ApproveNext(p)
  PROVE  Inv'
<1>0. TypeOK /\ req[p] \in Request BY DEF Inv, TypeOK
<1>1. req[p].at = "approve.next" /\ lost' = Orphans(p) /\ UNCHANGED <<row, store>>
  BY DEF ApproveNext, Orphans
<1>2. CASE Done(p)
  BY <1>0, <1>1, <1>2, DoneKeepsType, MovesOnly
<1>3. ASSUME NEW l \in req[p].todo, Waits(l, req[p].dosen),
             req' = [req EXCEPT ![p].at = "approve.details", ![p].letter = l,
                                ![p].todo = @ \ {l}]
      PROVE  Inv'
  <2>1. l \in Letters BY <1>0 DEF Request
  <2>2. PICK r \in Request : r = [req[p] EXCEPT !.at = "approve.details", !.letter = l,
                                                !.todo = @ \ {l}]
    BY <1>0, <2>1 DEF Request, Places
  <2>3. req' = [req EXCEPT ![p] = r] BY <1>0, <1>3, <2>2 DEF TypeOK
  <2>4. r.at = "approve.details" /\ r.letter = l BY <1>0, <2>2 DEF Request
  <2>5. row[l].status # "none" BY <1>3 DEF Waits
  <2>6. r.at \notin Uploaded /\ ReqOK(r) BY <2>1, <2>4, <2>5 DEF Uploaded, ReqOK
  <2> QED BY <1>1, <2>3, <2>6, MovesOnly
<1>4. ASSUME NEW l \in req[p].todo, req' = [req EXCEPT ![p].todo = @ \ {l}]
      PROVE  Inv'
  <2>1. PICK r \in Request : r = [req[p] EXCEPT !.todo = @ \ {l}]
    BY <1>0 DEF Request
  <2>2. req' = [req EXCEPT ![p] = r] BY <1>0, <1>4, <2>1 DEF TypeOK
  <2>3. r.at = "approve.next" BY <1>0, <1>1, <2>1 DEF Request
  <2>4. r.at \notin Uploaded /\ ReqOK(r) BY <2>3 DEF Uploaded, ReqOK, Approving
  <2> QED BY <1>1, <2>2, <2>4, MovesOnly
<1> QED BY <1>2, <1>3, <1>4 DEF ApproveNext

LEMMA ReadsDetails ==
  ASSUME Inv, NEW p \in Requests, ApproveDetails(p)
  PROVE  Inv'
<1>0. TypeOK /\ RowsOK /\ ReqOK(req[p]) /\ req[p] \in Request BY DEF Inv, ReqsOK, TypeOK
<1>1. req[p].at = "approve.details" /\ lost' = Orphans(p) /\ UNCHANGED <<row, store>>
  BY DEF ApproveDetails, Orphans
<1>2. req[p].letter \in Letters /\ row[req[p].letter].status # "none"
  BY <1>0, <1>1 DEF ReqOK, Approving
<1>3. PICK r \in Request : r = [req[p] EXCEPT !.at = "approve.upload",
                                              !.signature = row[req[p].letter].signature]
  <2>1. row[req[p].letter].signature \in Keys \cup {None} BY <1>0, <1>2 DEF TypeOK, Row
  <2> QED BY <1>0, <2>1 DEF Request, Places
<1>4. req' = [req EXCEPT ![p] = r] BY <1>0, <1>3 DEF ApproveDetails, TypeOK
<1>5. /\ r.at = "approve.upload" /\ r.letter = req[p].letter
      /\ r.signature = row[req[p].letter].signature
  BY <1>0, <1>3 DEF Request
<1>6. SignOK(r.letter, r.signature) BY <1>0, <1>2, <1>5 DEF RowsOK, RowOK
<1>7. r.at \notin Uploaded /\ ReqOK(r)
  BY <1>2, <1>5, <1>6 DEF Uploaded, ReqOK
<1> QED BY <1>1, <1>4, <1>7, MovesOnly

LEMMA Uploads ==
  ASSUME Inv, NEW p \in Requests, ApproveUpload(p)
  PROVE  Inv'
<1>0. TypeOK /\ RowsOK /\ ReqOK(req[p]) /\ req[p] \in Request BY DEF Inv, ReqsOK, TypeOK
<1>1. req[p].at = "approve.upload" /\ UNCHANGED <<row, lost>>
  BY DEF ApproveUpload
<1>2. /\ req[p].letter \in Letters /\ row[req[p].letter].status # "none"
      /\ SignOK(req[p].letter, req[p].signature)
  BY <1>0, <1>1 DEF ReqOK, Approving
<1>3. PICK k \in FreshKeys :
        /\ store' = [store EXCEPT ![k] = [letter |-> req[p].letter,
                                          signature |-> req[p].signature]]
        /\ req' = [req EXCEPT ![p].at = "approve.update", ![p].key = k]
  BY DEF ApproveUpload
<1>4. PICK o \in SignedLetter : o = [letter |-> req[p].letter, signature |-> req[p].signature]
  BY <1>0, <1>2 DEF SignedLetter, Request
<1>5. k \in Keys /\ store[k] = None /\ ~Referenced(k) BY DEF FreshKeys, InUse
<1>6. PICK r \in Request : r = [req[p] EXCEPT !.at = "approve.update", !.key = k]
  BY <1>0, <1>5, AtPlaceWithKey
<1>7. req' = [req EXCEPT ![p] = r] /\ store' = [store EXCEPT ![k] = o]
  BY <1>0, <1>3, <1>4, <1>6 DEF TypeOK
<1>8. r.at = "approve.update" /\ r.letter = req[p].letter /\ r.key = k
  BY <1>0, <1>6 DEF Request
<1>9. /\ store'[k] = o
      /\ \A s \in Keys : store[s] \in Signature => store'[s] \in Signature
  BY <1>0, <1>5, <1>7, ObjectKinds DEF TypeOK
<1>10. o.letter = r.letter /\ o.signature = req[p].signature BY <1>4, <1>8
<1>11. SignOK(r.letter, o.signature)'
  BY <1>2, <1>8, <1>9, <1>10 DEF SignOK, IsSigned
<1>12. SignedFor(r.letter, k)'
  BY <1>5, <1>9, <1>10, <1>11 DEF SignedFor
<1>13. \A l \in Letters : row'[l].file # k
  BY <1>1, <1>5 DEF Referenced
<1>14. ReqOK(r)'
  BY <1>1, <1>2, <1>8, <1>12, <1>13 DEF ReqOK, Uploaded, Approving
<1>15. req[p].at \notin Uploaded /\ r.at \in Uploaded BY <1>1, <1>8 DEF Uploaded
<1>16. o \in Object BY DEF Object
<1> QED BY <1>1, <1>7, <1>8, <1>14, <1>15, <1>16, Stores

LEMMA Records ==
  ASSUME Inv, NEW p \in Requests, ApproveUpdate(p)
  PROVE  Inv'
<1>0. TypeOK /\ RowsOK /\ ReqsOK /\ ReqOK(req[p]) /\ req[p] \in Request
  BY DEF Inv, ReqsOK, TypeOK
<1> DEFINE l == req[p].letter
           k == req[p].key
<1>1. req[p].at = "approve.update" /\ UNCHANGED <<store, lost>>
  BY DEF ApproveUpdate
<1>2. l \in Letters /\ SignedFor(l, k) /\ k \in Keys /\ (\A m \in Letters : row[m].file # k)
  BY <1>0, <1>1 DEF ReqOK, Approving, Uploaded, SignedFor
<1>3. CASE Waits(l, req[p].dosen)
  <2>1. NextLetter(p) /\ row' = [row EXCEPT ![l].status = "DISETUJUI", ![l].file = k]
    BY <1>3 DEF ApproveUpdate
  <2>2. PICK r \in Request : req' = [req EXCEPT ![p] = r] /\ r.at \notin Uploaded
                                /\ ReqOK(r) /\ ReqOK(r)'
    BY <1>0, <2>1, DoneKeepsType
  <2>3. row[l] \in Row BY <1>0, <1>2 DEF TypeOK
  <2>4. PICK w \in Row : w = [row[l] EXCEPT !.status = "DISETUJUI", !.file = k]
    BY <1>2, <2>3 DEF Row, Status
  <2>5. row' = [row EXCEPT ![l] = w] BY <1>0, <1>2, <2>1, <2>4 DEF TypeOK
  <2>6. w.status = "DISETUJUI" /\ w.file = k /\ w.signature = row[l].signature
    BY <2>3, <2>4 DEF Row
  <2>7. row[l].file = None /\ SignOK(l, w.signature)
    BY <1>0, <1>2, <1>3, <2>6 DEF RowsOK, RowOK, Waits
  <2>8. k # None BY <1>2, ConstantsAssumption
  <2>9. req[p].at \in Uploaded BY <1>1 DEF Uploaded
  <2> QED BY <1>1, <1>2, <2>2, <2>5, <2>6, <2>7, <2>8, <2>9, WritesRow
<1>4. CASE ~Waits(l, req[p].dosen)
  <2>1. req' = [req EXCEPT ![p].at = "approve.cleanup"] /\ UNCHANGED row
    BY <1>4 DEF ApproveUpdate
  <2>2. TypeOK'
    <3>1. [req[p] EXCEPT !.at = "approve.cleanup"] \in Request
      BY <1>0 DEF Request, Places
    <3> QED BY <1>0, <1>1, <2>1, <3>1 DEF TypeOK
  <2>3. \A q \in Requests : q # p => req'[q] = req[q]
    BY <1>0, <2>1 DEF TypeOK
  <2>4. /\ req'[p].at = "approve.cleanup" /\ req'[p].key = k /\ req'[p].letter = l
    BY <1>0, <2>1 DEF TypeOK, Request
  <2>5. RowsOK'
    BY <1>0, <1>1, <2>1 DEF RowsOK, RowOK, SignedFor, SignOK, IsSigned
  <2>6. ASSUME NEW q \in Requests PROVE ReqOK(req[q])'
    <3>1. ReqOK(req[q]) BY <1>0 DEF ReqsOK
    <3>2. CASE q = p
      <4>1. row'[l].status # "none" /\ l \in Letters BY <1>0, <1>1, <2>1 DEF ReqOK, Approving, Uploaded
      <4>2. SignedFor(l, k)' /\ \A m \in Letters : row'[m].file # k
        BY <1>1, <1>2, <2>1 DEF SignedFor, SignOK, IsSigned
      <4> QED BY <2>4, <3>2, <4>1, <4>2 DEF ReqOK
    <3>3. CASE q # p
      BY <1>1, <2>1, <2>3, <3>1, <3>3 DEF ReqOK, SignedFor, SignOK, IsSigned
    <3> QED BY <3>2, <3>3
  <2>7. KeysApart'
    BY <1>1, <2>3, <2>4 DEF Inv, KeysApart, Uploaded
  <2>8. NoStrayLetters'
    BY <1>1, <2>1, <2>3, <2>4 DEF Inv, NoStrayLetters, Referenced
  <2> QED BY <2>2, <2>5, <2>6, <2>7, <2>8 DEF Inv, ReqsOK
<1> QED BY <1>3, <1>4

LEMMA Cleans ==
  ASSUME Inv, NEW p \in Requests, ApproveCleanup(p)
  PROVE  Inv'
<1>0. TypeOK /\ RowsOK /\ ReqsOK /\ ReqOK(req[p]) /\ req[p] \in Request
  BY DEF Inv, ReqsOK, TypeOK
<1>1. req[p].at = "approve.cleanup" /\ req[p].at \in Uploaded /\ NextLetter(p) /\ UNCHANGED row
  BY DEF ApproveCleanup, Uploaded
<1>2. PICK r \in Request : req' = [req EXCEPT ![p] = r] /\ r.at \notin Uploaded
                              /\ ReqOK(r) /\ ReqOK(r)'
  BY <1>0, <1>1, DoneKeepsType
<1>3. CASE lost' = lost \cup {req[p].key} /\ UNCHANGED store
  BY <1>1, <1>2, <1>3, MovesOnly DEF Orphans
<1>4. CASE store' = [store EXCEPT ![req[p].key] = None] /\ UNCHANGED lost
  <2>1. /\ SignedFor(req[p].letter, req[p].key)
        /\ \A l \in Letters : row[l].file # req[p].key
    BY <1>0, <1>1 DEF ReqOK
  <2>2. \A k \in Keys : k # req[p].key => store'[k] = store[k]
    BY <1>0, <1>4 DEF TypeOK
  <2>3. \A s \in Keys : store[s] \in Signature => store'[s] = store[s]
    BY <2>1, <2>2, ObjectKinds DEF SignedFor
  <2>4. req'[p] = r /\ \A q \in Requests : q # p => req'[q] = req[q]
    BY <1>0, <1>2 DEF TypeOK
  <2>5. TypeOK' BY <1>0, <1>1, <1>2, <1>4 DEF TypeOK
  <2>6. RowsOK' BY <1>1, <2>2, <2>3, RowsUndisturbed DEF RowsOK
  <2>7. ASSUME NEW q \in Requests PROVE ReqOK(req[q])'
    <3>1. req[q].at \in Uploaded => \A l \in Letters : row'[l].file # req[q].key
      BY <1>0, <1>1 DEF ReqsOK, ReqOK
    <3>2. CASE q = p BY <1>2, <2>4, <3>2 DEF ReqOK
    <3>3. CASE q # p BY <1>1, <2>2, <2>3, <2>4, <3>1, <3>3, OthersUndisturbed
    <3> QED BY <3>2, <3>3
  <2>8. KeysApart' BY <1>2, <2>4 DEF Inv, KeysApart
  <2>9. NoStrayLetters'
    <3> SUFFICES ASSUME NEW k \in Keys, store'[k] \in SignedLetter, k \notin lost, ~Referenced(k)'
                 PROVE  \E q \in Requests : req'[q].key = k /\ req'[q].at \in Uploaded
      BY <1>4 DEF NoStrayLetters, Uploaded
    <3>1. k # req[p].key BY <1>0, <1>4, ObjectKinds DEF TypeOK
    <3>2. store[k] \in SignedLetter /\ ~Referenced(k) BY <1>1, <2>2, <3>1 DEF Referenced
    <3>3. PICK q \in Requests : req[q].key = k /\ req[q].at \in Uploaded
      BY <3>2 DEF Inv, NoStrayLetters, Uploaded
    <3> QED BY <2>4, <3>1, <3>3
  <2> QED BY <2>5, <2>6, <2>7, <2>8, <2>9 DEF Inv, ReqsOK
<1> QED BY <1>3, <1>4 DEF ApproveCleanup

LEMMA RejectBegins ==
  ASSUME Inv, NEW p \in Requests, NEW d \in Dosens, NEW l \in Letters, Reject(p, d, l)
  PROVE  Inv'
<1>0. Idle \in Request BY DEF Request, Idle, Places
<1>1. PICK r \in Request : r = [Idle EXCEPT !.at = "reject.update", !.dosen = d, !.letter = l]
  BY <1>0 DEF Request, Places
<1>2. r.at = "reject.update" /\ r.letter = l BY <1>0, <1>1 DEF Request
<1>3. req' = [req EXCEPT ![p] = r] /\ lost' = Orphans(p) /\ UNCHANGED <<row, store>>
  BY <1>1 DEF Reject, Begin, Orphans
<1>4. r.at \notin Uploaded /\ ReqOK(r) BY <1>2 DEF Uploaded, ReqOK, Approving
<1> QED BY <1>3, <1>4, MovesOnly

LEMMA Rejects ==
  ASSUME Inv, NEW p \in Requests, RejectUpdate(p)
  PROVE  Inv'
<1>0. TypeOK /\ RowsOK /\ ReqOK(req[p]) /\ req[p] \in Request BY DEF Inv, ReqsOK, TypeOK
<1> DEFINE l == req[p].letter
<1>1. /\ req[p].at = "reject.update" /\ Done(p) /\ UNCHANGED <<store, lost>>
      /\ lost' = Orphans(p) /\ req[p].at \notin Uploaded
  BY DEF RejectUpdate, Orphans, Uploaded
<1>2. l \in Letters /\ row[l] \in Row /\ RowOK(l)
  BY <1>0, <1>1 DEF ReqOK, TypeOK, RowsOK
<1>3. PICK r \in Request : req' = [req EXCEPT ![p] = r] /\ r.at \notin Uploaded
                              /\ ReqOK(r) /\ ReqOK(r)'
  BY <1>0, <1>1, DoneKeepsType
<1>4. CASE UNCHANGED row
  BY <1>1, <1>3, <1>4, MovesOnly
<1>5. CASE Waits(l, req[p].dosen) /\ row' = [row EXCEPT ![l].status = "DITOLAK"]
  <2>1. PICK w \in Row : w = [row[l] EXCEPT !.status = "DITOLAK"]
    BY <1>2 DEF Row, Status
  <2>2. row' = [row EXCEPT ![l] = w] BY <1>0, <1>2, <1>5, <2>1 DEF TypeOK
  <2>3. w.status = "DITOLAK" /\ w.file = row[l].file /\ w.signature = row[l].signature
    BY <1>2, <2>1 DEF Row
  <2>4. row[l].file = None /\ SignOK(l, row[l].signature) BY <1>2, <1>5 DEF RowOK, Waits
  <2> QED BY <1>1, <1>2, <1>3, <2>2, <2>3, <2>4, WritesRow
<1> QED BY <1>4, <1>5 DEF RejectUpdate

LEMMA AsksAgain ==
  ASSUME Inv, NEW p \in Requests, NEW m \in Members, NEW l \in Letters, AskAgain(p, m, l)
  PROVE  Inv'
<1>0. Idle \in Request BY DEF Request, Idle, Places
<1>1. PICK r \in Request :
        r = [Idle EXCEPT !.letter = l, !.member = m, !.by = m, !.form = Form(l),
               !.at = IF l \in Kesediaan THEN "again.update" ELSE "again.sign"]
  BY <1>0 DEF Request, Places, Form
<1>2. /\ r.at = IF l \in Kesediaan THEN "again.update" ELSE "again.sign"
      /\ r.letter = l /\ r.form = Form(l) /\ r.by = m
  BY <1>0, <1>1 DEF Request
<1>3. req' = [req EXCEPT ![p] = r] /\ lost' = Orphans(p) /\ UNCHANGED <<row, store>>
  BY <1>1 DEF AskAgain, Begin, Orphans
<1>4. r.at \notin Uploaded /\ ReqOK(r)
  BY <1>2 DEF Uploaded, ReqOK, Approving, Form
<1> QED BY <1>3, <1>4, MovesOnly

LEMMA Reopens ==
  ASSUME Inv, NEW p \in Requests, AgainUpdate(p)
  PROVE  Inv'
<1>0. TypeOK /\ RowsOK /\ ReqOK(req[p]) /\ req[p] \in Request BY DEF Inv, ReqsOK, TypeOK
<1> DEFINE l == req[p].letter
           s == IF req[p].form = "permohonan" THEN req[p].signature ELSE row[l].signature
<1>1. /\ req[p].at = "again.update" /\ Done(p) /\ UNCHANGED <<store, lost>>
      /\ lost' = Orphans(p) /\ req[p].at \notin Uploaded
  BY DEF AgainUpdate, Orphans, Uploaded
<1>2. l \in Letters /\ req[p].form = Form(l) /\ row[l] \in Row /\ RowOK(l)
  BY <1>0, <1>1 DEF ReqOK, TypeOK, RowsOK
<1>3. PICK r \in Request : req' = [req EXCEPT ![p] = r] /\ r.at \notin Uploaded
                              /\ ReqOK(r) /\ ReqOK(r)'
  BY <1>0, <1>1, DoneKeepsType
<1>4. CASE UNCHANGED row
  BY <1>1, <1>3, <1>4, MovesOnly
<1>5. CASE /\ Rejected(l, req[p].member)
           /\ row' = [row EXCEPT ![l].status = "MENUNGGU", ![l].file = None, ![l].signature = s]
  <2>0. s \in Keys \cup {None} BY <1>0, <1>2 DEF Request, Row
  <2>1. PICK w \in Row : w = [row[l] EXCEPT !.status = "MENUNGGU", !.file = None, !.signature = s]
    BY <1>2, <2>0 DEF Row, Status
  <2>2. row' = [row EXCEPT ![l] = w] BY <1>0, <1>2, <1>5, <2>1 DEF TypeOK
  <2>3. w.status = "MENUNGGU" /\ w.file = None /\ w.signature = s
    BY <1>2, <2>1 DEF Row
  <2>4. row[l].file = None /\ SignOK(l, row[l].signature) BY <1>2, <1>5 DEF RowOK, Rejected
  <2>5. SignOK(l, s)
    BY <1>0, <1>1, <1>2, <2>4, ConstantsAssumption DEF ReqOK, SignOK, IsSigned
  <2> QED BY <1>1, <1>2, <1>3, <2>2, <2>3, <2>4, <2>5, WritesRow
<1> QED BY <1>4, <1>5 DEF AgainUpdate

LEMMA Fails ==
  ASSUME Inv, NEW p \in Requests, LetterFails(p) \/ Die(p)
  PROVE  Inv'
<1>1. lost' = Orphans(p) /\ UNCHANGED <<row, store>> /\ (Done(p) \/ NextLetter(p))
  BY DEF LetterFails, Die
<1>2. PICK r \in Request : req' = [req EXCEPT ![p] = r] /\ r.at \notin Uploaded
                              /\ ReqOK(r) /\ ReqOK(r)'
  BY <1>1, DoneKeepsType DEF Inv
<1> QED BY <1>1, <1>2, MovesOnly

(* Every step keeps the invariant.                                         *)
LEMMA Inductive == Inv /\ [Next]_vars => Inv'
<1> SUFFICES ASSUME Inv, [Next]_vars PROVE Inv'
  OBVIOUS
<1>1. CASE UNCHANGED vars
  BY <1>1 DEF vars, Inv, TypeOK, RowsOK, RowOK, ReqsOK, ReqOK, KeysApart, NoStrayLetters,
     SignedFor, SignOK, IsSigned, Referenced
<1>2. ASSUME NEW p \in Requests, Step(p) PROVE Inv'
  BY <1>2, Signs, Inserts, TakesNext, ReadsDetails, Uploads, Records, Cleans, Rejects, Reopens
     DEF Step
<1>3. ASSUME NEW p \in Requests, Call(p) PROVE Inv'
  BY <1>3, Asks, Approves, RejectBegins, AsksAgain DEF Call, StudentCall, DosenCall
<1>4. ASSUME NEW p \in Requests, LetterFails(p) \/ Die(p) PROVE Inv'
  BY <1>4, Fails
<1> QED BY <1>1, <1>2, <1>3, <1>4 DEF Next

THEOREM InvAlways == Spec => []Inv
<1>1. Init => Inv BY Initially
<1>2. Inv /\ [Next]_vars => Inv' BY Inductive
<1> QED BY <1>1, <1>2, PTL DEF Spec

(* Every reachable state is well typed.                                    *)
THEOREM TypeCorrect == Spec => []TypeOK
<1>1. Inv => TypeOK BY DEF Inv
<1> QED BY <1>1, InvAlways, PTL

(* The bucket holds no signed letter that nobody refers to, is about to    *)
(* record or delete, or has lost.                                          *)
THEOREM NoLetterAstray == Spec => []NoStrayLetters
<1>1. Inv => NoStrayLetters BY DEF Inv
<1> QED BY <1>1, InvAlways, PTL

(* The signatures of permohonan in the table, and those in the approved    *)
(* letters, stay in the bucket.                                            *)
THEOREM SignaturesAlwaysStored == Spec => []SignaturesStored
<1>1. Inv => SignaturesStored
  BY DEF Inv, RowsOK, RowOK, SignedFor, SignOK, IsSigned, SignaturesStored
<1> QED BY <1>1, InvAlways, PTL

-----------------------------------------------------------------------------
(* What LetterPromise sees of a state.                                     *)
Statuses == [l \in Letters |-> row[l].status]
DocumentOf(f) == IF f = None THEN None ELSE store[f]
Documents == [l \in Letters |-> DocumentOf(row[l].file)]

(* A step that writes no row and spares the files of the rows is unseen.   *)
LEMMA Unseen ==
  ASSUME UNCHANGED row,
         \A l \in Letters : row[l].file # None => store'[row[l].file] = store[row[l].file]
  PROVE  UNCHANGED <<Statuses, Documents>>
BY DEF Statuses, Documents, DocumentOf

(* A step that writes the row of l is seen there.                          *)
LEMMA SeenAt ==
  ASSUME TypeOK, NEW l \in Letters, NEW w, row' = [row EXCEPT ![l] = w], UNCHANGED store
  PROVE  /\ Statuses' = [Statuses EXCEPT ![l] = w.status]
         /\ Documents' = [Documents EXCEPT ![l] = DocumentOf(w.file)]
         /\ DocumentOf(w.file) = DocumentOf(row[l].file) => UNCHANGED Documents
<1>1. row'[l] = w /\ \A m \in Letters : m # l => row'[m] = row[m]
  BY DEF TypeOK
<1>2. Statuses' = [Statuses EXCEPT ![l] = w.status]
  <2>1. Statuses' = [m \in Letters |-> row'[m].status] BY DEF Statuses
  <2>2. [Statuses EXCEPT ![l] = w.status]
          = [m \in Letters |-> IF m = l THEN w.status ELSE row[m].status]
    BY DEF Statuses
  <2> QED BY <1>1, <2>1, <2>2
<1>3. Documents' = [Documents EXCEPT ![l] = DocumentOf(w.file)]
  <2>1. Documents' = [m \in Letters |-> DocumentOf(row'[m].file)]
    BY DEF Documents, DocumentOf
  <2>2. [Documents EXCEPT ![l] = DocumentOf(w.file)]
          = [m \in Letters |-> IF m = l THEN DocumentOf(w.file) ELSE DocumentOf(row[m].file)]
    BY DEF Documents
  <2> QED BY <1>1, <2>1, <2>2
<1>4. ASSUME DocumentOf(w.file) = DocumentOf(row[l].file) PROVE UNCHANGED Documents
  BY <1>1, <1>4 DEF Documents, DocumentOf
<1> QED BY <1>2, <1>3, <1>4

PromiseStep == Promise!Next \/ UNCHANGED <<Statuses, Documents>>

LEMMA UploadUnseen ==
  ASSUME Inv, NEW k \in FreshKeys, NEW o, store' = [store EXCEPT ![k] = o], UNCHANGED row
  PROVE  UNCHANGED <<Statuses, Documents>>
<1>1. k \in Keys /\ \A l \in Letters : row[l].file # k BY DEF FreshKeys, InUse, Referenced
<1>2. \A s \in Keys : s # k => store'[s] = store[s] BY DEF Inv, TypeOK
<1>3. \A l \in Letters : row[l].file \in Keys \cup {None} BY DEF Inv, TypeOK, Row
<1> QED BY <1>1, <1>2, <1>3, Unseen

LEMMA InsertSeen ==
  ASSUME Inv, NEW p \in Requests, AskInsert(p)
  PROVE  PromiseStep
<1>1. CASE UNCHANGED row
  BY <1>1, Unseen DEF PromiseStep, AskInsert
<1>2. ASSUME NEW l \in Free(req[p].form), NEW w, row' = [row EXCEPT ![l] = w],
             w.status = "MENUNGGU", w.file = None
      PROVE  PromiseStep
  <2>1. l \in Letters /\ row[l].status = "none" /\ row[l].file = None
    BY DEF Inv, TypeOK, RowsOK, RowOK, Free, Letters
  <2>2. TypeOK /\ UNCHANGED store BY DEF Inv, AskInsert
  <2>3. Statuses' = [Statuses EXCEPT ![l] = "MENUNGGU"] /\ UNCHANGED Documents
    <3>1. row' = [row EXCEPT ![l] = w] BY <1>2
    <3>2. /\ Statuses' = [Statuses EXCEPT ![l] = w.status]
          /\ DocumentOf(w.file) = DocumentOf(row[l].file) => UNCHANGED Documents
      BY <2>1, <2>2, <3>1, SeenAt
    <3> QED BY <1>2, <2>1, <3>2
  <2>4. Statuses[l] = "none" BY <2>1 DEF Statuses
  <2>5. Promise!Ask(l)
    BY <2>3, <2>4 DEF Promise!Ask, Promise!Becomes, Statuses, Documents, DocumentOf
  <2> QED BY <2>1, <2>5 DEF PromiseStep, Promise!Next
<1>3. ASSUME NEW l \in Free(req[p].form),
             row' = [row EXCEPT ![l] = [status |-> "MENUNGGU", member |-> req[p].member,
                       dosen |-> req[p].dosen, file |-> None, signature |-> req[p].signature]]
      PROVE  PromiseStep
  <2>1. PICK w : w = [status |-> "MENUNGGU", member |-> req[p].member,
                       dosen |-> req[p].dosen, file |-> None, signature |-> req[p].signature]
    OBVIOUS
  <2>2. w.status = "MENUNGGU" /\ w.file = None BY <2>1
  <2> QED BY <1>2, <1>3, <2>1, <2>2
<1> QED BY <1>1, <1>3 DEF AskInsert

LEMMA RecordSeen ==
  ASSUME Inv, NEW p \in Requests, ApproveUpdate(p)
  PROVE  PromiseStep
<1>0. TypeOK /\ UNCHANGED store /\ req[p].at \in Uploaded
  BY DEF Inv, ApproveUpdate, Uploaded
<1>a. PICK l \in Letters, k \in Keys : l = req[p].letter /\ k = req[p].key
  BY <1>0 DEF Inv, ReqsOK, ReqOK, Approving, SignedFor
<1>1. SignedFor(l, k) BY <1>0, <1>a DEF Inv, ReqsOK, ReqOK
<1>2. CASE UNCHANGED row
  BY <1>0, <1>2, Unseen DEF PromiseStep
<1>3. CASE /\ Waits(l, req[p].dosen)
           /\ row' = [row EXCEPT ![l].status = "DISETUJUI", ![l].file = k]
  <2>1. PICK w : w = [row[l] EXCEPT !.status = "DISETUJUI", !.file = k]
    OBVIOUS
  <2>2. w.status = "DISETUJUI" /\ w.file = k BY <1>0, <1>1, <2>1 DEF TypeOK, Row
  <2>3. row' = [row EXCEPT ![l] = w] BY <1>0, <1>1, <1>3, <2>1 DEF TypeOK
  <2>4. k # None BY <1>1, ConstantsAssumption DEF SignedFor
  <2>a. /\ Statuses' = [Statuses EXCEPT ![l] = "DISETUJUI"]
        /\ Documents' = [Documents EXCEPT ![l] = DocumentOf(k)]
    BY <1>0, <2>2, <2>3, SeenAt
  <2>5. Statuses[l] = "MENUNGGU" /\ DocumentOf(k) = store[k]
    BY <1>3, <2>4 DEF Statuses, DocumentOf, Waits
  <2>6. store[k] \in [letter : {l}, signature : Keys \cup {None}]
    BY <1>1 DEF SignedFor, SignedLetter
  <2>7. Promise!Approve(l)
    BY <2>a, <2>5, <2>6 DEF Promise!Approve, Promise!Becomes, Statuses, Documents, DocumentOf
  <2> QED BY <2>7 DEF PromiseStep, Promise!Next
<1> QED BY <1>a, <1>2, <1>3 DEF ApproveUpdate

LEMMA CleanUnseen ==
  ASSUME Inv, NEW p \in Requests, ApproveCleanup(p)
  PROVE  UNCHANGED <<Statuses, Documents>>
<1>1. req[p].at \in Uploaded /\ UNCHANGED row BY DEF ApproveCleanup, Uploaded
<1>2. \A l \in Letters : row[l].file # req[p].key BY <1>1 DEF Inv, ReqsOK, ReqOK
<1>3. \A s \in Keys : s # req[p].key => store'[s] = store[s]
  BY DEF Inv, TypeOK, ApproveCleanup
<1>4. \A l \in Letters : row[l].file \in Keys \cup {None} BY DEF Inv, TypeOK, Row
<1> QED BY <1>1, <1>2, <1>3, <1>4, Unseen

LEMMA RejectSeen ==
  ASSUME Inv, NEW p \in Requests, RejectUpdate(p)
  PROVE  PromiseStep
<1>0. TypeOK /\ UNCHANGED store
  BY DEF Inv, RejectUpdate
<1>a. PICK l \in Letters : l = req[p].letter
  BY DEF Inv, RejectUpdate, ReqsOK, ReqOK
<1>1. CASE UNCHANGED row
  BY <1>0, <1>1, Unseen DEF PromiseStep
<1>2. CASE Waits(l, req[p].dosen) /\ row' = [row EXCEPT ![l].status = "DITOLAK"]
  <2>1. PICK w : w = [row[l] EXCEPT !.status = "DITOLAK"]
    OBVIOUS
  <2>2. w.status = "DITOLAK" /\ w.file = row[l].file BY <1>0, <2>1 DEF TypeOK, Row
  <2>3. row' = [row EXCEPT ![l] = w] BY <1>0, <1>2, <2>1 DEF TypeOK
  <2>a. UNCHANGED Documents /\ Statuses' = [Statuses EXCEPT ![l] = "DITOLAK"]
    BY <1>0, <2>2, <2>3, SeenAt
  <2>4. Statuses[l] = "MENUNGGU" BY <1>2 DEF Statuses, Waits
  <2>5. Promise!Reject(l)
    BY <2>a, <2>4 DEF Promise!Reject, Promise!Becomes, Statuses, Documents, DocumentOf
  <2> QED BY <2>5 DEF PromiseStep, Promise!Next
<1> QED BY <1>a, <1>1, <1>2 DEF RejectUpdate

LEMMA ReopenSeen ==
  ASSUME Inv, NEW p \in Requests, AgainUpdate(p)
  PROVE  PromiseStep
<1>a. PICK l \in Letters : l = req[p].letter
  BY DEF Inv, AgainUpdate, ReqsOK, ReqOK
<1> DEFINE s == IF req[p].form = "permohonan" THEN req[p].signature ELSE row[l].signature
<1>0. TypeOK /\ UNCHANGED store /\ RowOK(l)
  BY DEF Inv, AgainUpdate, ReqsOK, ReqOK, RowsOK
<1>1. CASE UNCHANGED row
  BY <1>0, <1>1, Unseen DEF PromiseStep
<1>2. CASE /\ Rejected(l, req[p].member)
           /\ row' = [row EXCEPT ![l].status = "MENUNGGU", ![l].file = None, ![l].signature = s]
  <2>1. PICK w : w = [row[l] EXCEPT !.status = "MENUNGGU", !.file = None, !.signature = s]
    OBVIOUS
  <2>2. w.status = "MENUNGGU" /\ w.file = None BY <1>0, <2>1 DEF TypeOK, Row
  <2>3. row' = [row EXCEPT ![l] = w] BY <1>0, <1>2, <2>1 DEF TypeOK
  <2>4. row[l].file = None BY <1>0, <1>2 DEF RowOK, Rejected
  <2>b. UNCHANGED Documents /\ Statuses' = [Statuses EXCEPT ![l] = "MENUNGGU"]
    BY <1>0, <2>2, <2>3, <2>4, SeenAt
  <2>5. Statuses[l] = "DITOLAK" BY <1>2 DEF Statuses, Rejected
  <2>6. Promise!AskAgain(l)
    BY <2>b, <2>5 DEF Promise!AskAgain, Promise!Becomes, Statuses, Documents, DocumentOf
  <2> QED BY <2>6 DEF PromiseStep, Promise!Next
<1> QED BY <1>a, <1>1, <1>2 DEF AgainUpdate

(* Every step is one of the promise or unseen.                             *)
LEMMA StepIsPromised == Inv /\ [Next]_vars => [Promise!Next]_<<Statuses, Documents>>
<1> SUFFICES ASSUME Inv, [Next]_vars PROVE PromiseStep
  BY DEF PromiseStep
<1>1. ASSUME NEW p \in Requests, AskSign(p) \/ AgainSign(p) \/ ApproveUpload(p)
      PROVE  UNCHANGED <<Statuses, Documents>>
  BY <1>1, UploadUnseen DEF AskSign, AgainSign, TakeSignature, ApproveUpload
<1>2. ASSUME NEW p \in Requests, Step(p) PROVE PromiseStep
  <2>1. CASE ApproveNext(p) \/ ApproveDetails(p)
    BY <2>1, Unseen DEF ApproveNext, ApproveDetails, PromiseStep
  <2> QED BY <1>1, <1>2, <2>1, InsertSeen, RecordSeen, CleanUnseen, RejectSeen, ReopenSeen
          DEF Step, PromiseStep
<1>3. ASSUME NEW p \in Requests, Call(p) \/ LetterFails(p) \/ Die(p) PROVE PromiseStep
  <2>1. UNCHANGED <<row, store>>
    BY <1>3 DEF Call, StudentCall, DosenCall, LetterFails, Die, AskKesediaan, AskPermohonan, Approve, Reject, AskAgain
  <2> QED BY <2>1, Unseen DEF PromiseStep
<1>4. CASE UNCHANGED vars
  BY <1>4, Unseen DEF vars, PromiseStep
<1> QED BY <1>2, <1>3, <1>4 DEF Next

(* Letters implements LetterPromise: each request is decided once a round, *)
(* and exactly the approved ones have their own signed letter, for good.   *)
THEOREM PromiseKept == Spec => KeepsPromise
<1>1. Init => Promise!Init
  BY DEF Init, NoRow, Promise!Init
<1>2. Inv /\ [Next]_vars => [Promise!Next]_<<Statuses, Documents>>
  BY StepIsPromised
<1> QED BY <1>1, <1>2, InvAlways, PTL DEF Spec, KeepsPromise, Promise!Spec, Statuses, Documents, DocumentOf
-----------------------------------------------------------------------------
(* Requests that do not overlap                                            *)

(* SignedWithCurrent is refuted by a letter that is rejected and asked for *)
(* again while an approval is drawing it.  When requests run one after the *)
(* other, the signature that an approval has read is still the row's.      *)
OneAtATime ==
  \A p, q \in Requests : req[p].at # "idle" /\ req[q].at # "idle" => p = q

Trusting == {"approve.upload", "approve.update"}

CalmOK(r) ==
  /\ r.at = "approve.upload" => r.signature = row[r.letter].signature
  /\ r.at = "approve.update" => store[r.key].signature = row[r.letter].signature

Calm == SignedWithCurrent /\ \A p \in Requests : CalmOK(req[p])

LEMMA KeepsCalm ==
  ASSUME Inv, Calm, OneAtATime, NEW p \in Requests, NEW r,
         req' = [req EXCEPT ![p] = r],
         req[p].at # "idle" \/ UNCHANGED <<row, store>>,
         SignedWithCurrent', CalmOK(r)'
  PROVE  Calm'
<1>1. ASSUME NEW q \in Requests \ {p} PROVE CalmOK(req[q])'
  <2>1. req'[q] = req[q]
    BY DEF Inv, TypeOK
  <2>2. req[q].at = "idle" \/ UNCHANGED <<row, store>>
    BY DEF OneAtATime
  <2>3. CASE req[q].at = "idle"
    BY <2>1, <2>3 DEF CalmOK
  <2>4. CASE UNCHANGED <<row, store>>
    BY <2>1, <2>4 DEF Calm, CalmOK
  <2> QED BY <2>2, <2>3, <2>4
<1>2. CalmOK(req[p])'
  <2>1. req'[p] = r
    BY DEF Inv, TypeOK
  <2> QED BY <2>1 DEF CalmOK
<1> QED BY <1>1, <1>2 DEF Calm

(* The approved letters bear what they bore where no row changes and no    *)
(* row's file goes.                                                        *)
LEMMA SignedStays ==
  ASSUME Inv, Calm, UNCHANGED row,
         \A l \in Letters : row[l].file # None => store'[row[l].file] = store[row[l].file]
  PROVE  SignedWithCurrent'
<1> SUFFICES ASSUME NEW l \in Permohonan, row[l].status = "DISETUJUI"
             PROVE  store'[row[l].file].signature = row[l].signature
  BY DEF SignedWithCurrent
<1>1. l \in Letters /\ row[l].file # None
  BY DEF Letters, Inv, RowsOK, RowOK
<1> QED BY <1>1 DEF Calm, SignedWithCurrent

(* A row is written whose letter, when it is approved, bears its           *)
(* signature.                                                              *)
LEMMA SignedIsWritten ==
  ASSUME Inv, Calm, UNCHANGED store, NEW l \in Letters, NEW w, row' = [row EXCEPT ![l] = w],
         w.status = "DISETUJUI" => store[w.file].signature = w.signature
  PROVE  SignedWithCurrent'
<1>1. row'[l] = w /\ \A m \in Letters \ {l} : row'[m] = row[m]
  BY DEF Inv, TypeOK
<1> QED BY <1>1 DEF Calm, SignedWithCurrent, Letters

LEMMA AtRest ==
  ASSUME TypeOK, NEW p \in Requests, Done(p) \/ NextLetter(p)
  PROVE  \E r : req' = [req EXCEPT ![p] = r] /\ r.at \notin Trusting
<1>1. CASE Done(p)
  <2>1. Idle.at \notin Trusting
    BY DEF Idle, Trusting
  <2> QED BY <1>1, <2>1 DEF Done
<1>2. CASE NextLetter(p)
  <2> DEFINE r == [Idle EXCEPT !.at = "approve.next", !.dosen = req[p].dosen,
                               !.todo = req[p].todo]
  <2>1. r.at = "approve.next"
    BY DEF Idle
  <2> QED BY <1>2, <2>1 DEF NextLetter, Trusting
<1> QED BY <1>1, <1>2

(* A step of p that writes no row and spares the rows' files.              *)
LEMMA QuietKeepsCalm ==
  ASSUME Inv, Calm, OneAtATime, NEW p \in Requests, NEW r,
         req' = [req EXCEPT ![p] = r], CalmOK(r)',
         UNCHANGED row,
         UNCHANGED store \/ req[p].at # "idle",
         \A l \in Letters : row[l].file # None => store'[row[l].file] = store[row[l].file]
  PROVE  Calm'
BY KeepsCalm, SignedStays

LEMMA CallsKeepCalm ==
  ASSUME Inv, Calm, OneAtATime, NEW p \in Requests, Call(p)
  PROVE  Calm'
<1>1. ASSUME NEW r, Begin(p, r), UNCHANGED <<row, store>>, r.at \notin Trusting PROVE Calm'
  <2>1. CalmOK(r)'
    BY <1>1 DEF CalmOK, Trusting
  <2> QED BY <1>1, <2>1, QuietKeepsCalm DEF Begin
<1>2. ASSUME NEW by, NEW m, NEW d, AskKesediaan(p, by, m, d) PROVE Calm'
  <2> DEFINE r == [Idle EXCEPT !.at = "ask.insert", !.member = m, !.dosen = d, !.by = by]
  <2>1. r.at \notin Trusting
    BY DEF Idle, Trusting
  <2> QED BY <1>1, <1>2, <2>1 DEF AskKesediaan
<1>3. ASSUME NEW by, NEW m, NEW d, AskPermohonan(p, by, m, d) PROVE Calm'
  <2> DEFINE r == [Idle EXCEPT !.at = "ask.sign", !.member = m, !.dosen = d, !.by = by,
                               !.form = "permohonan"]
  <2>1. r.at \notin Trusting
    BY DEF Idle, Trusting
  <2> QED BY <1>1, <1>3, <2>1 DEF AskPermohonan
<1>4. ASSUME NEW d, NEW L, Approve(p, d, L) PROVE Calm'
  <2> DEFINE r == [Idle EXCEPT !.at = "approve.next", !.dosen = d, !.todo = L]
  <2>1. r.at \notin Trusting
    BY DEF Idle, Trusting
  <2> QED BY <1>1, <1>4, <2>1 DEF Approve
<1>5. ASSUME NEW d, NEW l, Reject(p, d, l) PROVE Calm'
  <2> DEFINE r == [Idle EXCEPT !.at = "reject.update", !.dosen = d, !.letter = l]
  <2>1. r.at \notin Trusting
    BY DEF Idle, Trusting
  <2> QED BY <1>1, <1>5, <2>1 DEF Reject
<1>6. ASSUME NEW m, NEW l, AskAgain(p, m, l) PROVE Calm'
  <2> DEFINE r == [Idle EXCEPT !.letter = l, !.member = m, !.by = m, !.form = Form(l),
                     !.at = IF l \in Kesediaan THEN "again.update" ELSE "again.sign"]
  <2>1. r.at \notin Trusting
    BY DEF Idle, Trusting
  <2> QED BY <1>1, <1>6, <2>1 DEF AskAgain
<1> QED BY <1>2, <1>3, <1>4, <1>5, <1>6 DEF Call, StudentCall, DosenCall

(* Reads, failures and deaths.                                             *)
LEMMA ReadsKeepCalm ==
  ASSUME Inv, Calm, OneAtATime, NEW p \in Requests,
         ApproveNext(p) \/ ApproveDetails(p) \/ LetterFails(p) \/ Die(p)
  PROVE  Calm'
<1>0. TypeOK /\ req[p] \in Request /\ UNCHANGED <<row, store>>
  BY DEF Inv, TypeOK, ApproveNext, ApproveDetails, LetterFails, Die
<1>1. ASSUME NEW r, req' = [req EXCEPT ![p] = r], r.at \notin Trusting PROVE Calm'
  <2>1. CalmOK(r)'
    BY <1>1 DEF CalmOK, Trusting
  <2> QED BY <1>0, <1>1, <2>1, QuietKeepsCalm
<1>2. CASE Done(p) \/ NextLetter(p)
  BY <1>0, <1>1, <1>2, AtRest
<1>3. ASSUME NEW l, req' = [req EXCEPT ![p].at = "approve.details", ![p].letter = l,
                                       ![p].todo = @ \ {l}]
      PROVE  Calm'
  <2> DEFINE r == [req[p] EXCEPT !.at = "approve.details", !.letter = l, !.todo = @ \ {l}]
  <2>1. r.at \notin Trusting
    BY <1>0 DEF Request, Trusting
  <2>2. req' = [req EXCEPT ![p] = r]
    BY <1>0, <1>3 DEF TypeOK
  <2> QED BY <1>1, <2>1, <2>2
<1>4. ASSUME NEW l, req' = [req EXCEPT ![p].todo = @ \ {l}], req[p].at = "approve.next"
      PROVE  Calm'
  <2> DEFINE r == [req[p] EXCEPT !.todo = @ \ {l}]
  <2>1. r.at \notin Trusting
    BY <1>0, <1>4 DEF Request, Trusting
  <2>2. req' = [req EXCEPT ![p] = r]
    BY <1>0, <1>4 DEF TypeOK
  <2> QED BY <1>1, <2>1, <2>2
<1>5. CASE ApproveNext(p)
  BY <1>2, <1>3, <1>4, <1>5 DEF ApproveNext
<1>6. CASE ApproveDetails(p)
  <2>0. PICK r : r = [req[p] EXCEPT !.at = "approve.upload",
                                    !.signature = row[req[p].letter].signature]
    OBVIOUS
  <2>1. req' = [req EXCEPT ![p] = r]
    BY <1>0, <1>6, <2>0 DEF ApproveDetails, TypeOK
  <2>2. /\ r.at = "approve.upload" /\ r.letter = req[p].letter
        /\ r.signature = row[req[p].letter].signature
    BY <1>0, <2>0 DEF Request
  <2>3. CalmOK(r)'
    BY <1>0, <2>2 DEF CalmOK
  <2> QED BY <1>0, <2>1, <2>3, QuietKeepsCalm
<1> QED BY <1>2, <1>5, <1>6 DEF LetterFails, Die

(* What is put into the bucket, or taken out of it, is no row's file.      *)
LEMMA ObjectsKeepCalm ==
  ASSUME Inv, Calm, OneAtATime, NEW p \in Requests,
         AskSign(p) \/ AgainSign(p) \/ ApproveUpload(p) \/ ApproveCleanup(p)
  PROVE  Calm'
<1>0. /\ TypeOK /\ req[p] \in Request /\ UNCHANGED row /\ req[p].at # "idle"
      /\ \A l \in Letters : row[l].file \in Keys \cup {None}
  BY DEF Inv, TypeOK, Row, AskSign, AgainSign, TakeSignature, ApproveUpload, ApproveCleanup
<1>1. ASSUME NEW k, NEW o, store' = [store EXCEPT ![k] = o] \/ UNCHANGED store,
             \A l \in Letters : row[l].file # k,
             NEW r, req' = [req EXCEPT ![p] = r], CalmOK(r)'
      PROVE  Calm'
  <2>1. \A s \in Keys \ {k} : store'[s] = store[s]
    BY <1>0, <1>1 DEF TypeOK
  <2> QED BY <1>0, <1>1, <2>1, QuietKeepsCalm
<1>2. ASSUME NEW to \in {"ask.insert", "again.update"}, NEW k \in FreshKeys, NEW o,
             store' = [store EXCEPT ![k] = o],
             req' = [req EXCEPT ![p].at = to, ![p].signature = k]
      PROVE  Calm'
  <2>0. PICK r : r = [req[p] EXCEPT !.at = to, !.signature = k]
    OBVIOUS
  <2>1. req' = [req EXCEPT ![p] = r] /\ r.at = to
    BY <1>0, <1>2, <2>0 DEF TypeOK, Request
  <2>2. CalmOK(r)'
    BY <2>1 DEF CalmOK
  <2>3. \A l \in Letters : row[l].file # k
    BY DEF FreshKeys, InUse, Referenced
  <2> QED BY <1>1, <1>2, <2>1, <2>2, <2>3
<1>3. CASE AskSign(p) \/ AgainSign(p)
  BY <1>2, <1>3 DEF AskSign, AgainSign, TakeSignature
<1>4. CASE ApproveUpload(p)
  <2>1. PICK k \in FreshKeys :
          /\ store' = [store EXCEPT ![k] = [letter |-> req[p].letter,
                                            signature |-> req[p].signature]]
          /\ req' = [req EXCEPT ![p].at = "approve.update", ![p].key = k]
    BY <1>4 DEF ApproveUpload
  <2>a. PICK r : r = [req[p] EXCEPT !.at = "approve.update", !.key = k]
    OBVIOUS
  <2>2. /\ req' = [req EXCEPT ![p] = r]
        /\ r.at = "approve.update" /\ r.key = k /\ r.letter = req[p].letter
    BY <1>0, <2>1, <2>a DEF TypeOK, Request
  <2>3. store'[k].signature = req[p].signature
    BY <1>0, <2>1 DEF TypeOK, FreshKeys
  <2>4. req[p].signature = row[req[p].letter].signature
    BY <1>4 DEF ApproveUpload, Calm, CalmOK
  <2>5. CalmOK(r)'
    BY <1>0, <2>2, <2>3, <2>4 DEF CalmOK
  <2>6. \A l \in Letters : row[l].file # k
    BY DEF FreshKeys, InUse, Referenced
  <2> QED BY <1>1, <2>1, <2>2, <2>5, <2>6
<1>5. CASE ApproveCleanup(p)
  <2>1. PICK r : req' = [req EXCEPT ![p] = r] /\ r.at \notin Trusting
    BY <1>0, <1>5, AtRest DEF ApproveCleanup
  <2>2. CalmOK(r)'
    BY <2>1 DEF CalmOK, Trusting
  <2>3. \A l \in Letters : row[l].file # req[p].key
    BY <1>5 DEF ApproveCleanup, Inv, ReqsOK, ReqOK, Uploaded
  <2> QED BY <1>1, <1>5, <2>1, <2>2, <2>3 DEF ApproveCleanup
<1> QED BY <1>3, <1>4, <1>5

(* INSERT and UPDATE: only an approval makes an approved row, of a letter  *)
(* that was drawn with the signature which the row still has.              *)
LEMMA WritesKeepCalm ==
  ASSUME Inv, Calm, OneAtATime, NEW p \in Requests,
         AskInsert(p) \/ ApproveUpdate(p) \/ RejectUpdate(p) \/ AgainUpdate(p)
  PROVE  Calm'
<1>0. TypeOK /\ req[p] \in Request /\ UNCHANGED store /\ req[p].at # "idle"
  BY DEF Inv, TypeOK, AskInsert, ApproveUpdate, RejectUpdate, AgainUpdate
<1>1. ASSUME NEW r, req' = [req EXCEPT ![p] = r], r.at \notin Trusting, SignedWithCurrent'
      PROVE  Calm'
  <2>1. CalmOK(r)'
    BY <1>1 DEF CalmOK, Trusting
  <2> QED BY <1>0, <1>1, <2>1, KeepsCalm
<1>2. ASSUME SignedWithCurrent', Done(p) \/ NextLetter(p) PROVE Calm'
  BY <1>0, <1>1, <1>2, AtRest
<1>3. UNCHANGED row => SignedWithCurrent'
  BY <1>0, SignedStays
<1>4. CASE AskInsert(p)
  <2>1. ASSUME NEW l \in Free(req[p].form),
               row' = [row EXCEPT ![l] = [status |-> "MENUNGGU", member |-> req[p].member,
                         dosen |-> req[p].dosen, file |-> None, signature |-> req[p].signature]]
        PROVE  SignedWithCurrent'
    <3>1. l \in Letters
      BY DEF Free, Letters
    <3>2. PICK w : w = [status |-> "MENUNGGU", member |-> req[p].member,
                        dosen |-> req[p].dosen, file |-> None, signature |-> req[p].signature]
      OBVIOUS
    <3>3. w.status = "MENUNGGU"
      BY <3>2
    <3> QED BY <1>0, <2>1, <3>1, <3>2, <3>3, SignedIsWritten
  <2> QED BY <1>2, <1>3, <1>4, <2>1 DEF AskInsert
<1>5. CASE ApproveUpdate(p)
  <2>1. PICK l \in Letters, k \in Keys : l = req[p].letter /\ k = req[p].key
    BY <1>5 DEF ApproveUpdate, Inv, ReqsOK, ReqOK, Approving, Uploaded, SignedFor
  <2>2. CASE Waits(l, req[p].dosen)
    <3>1. NextLetter(p) /\ row' = [row EXCEPT ![l].status = "DISETUJUI", ![l].file = k]
      BY <1>5, <2>1, <2>2 DEF ApproveUpdate
    <3>2. row[l] \in Row
      BY <1>0 DEF TypeOK
    <3>3. PICK w : w = [row[l] EXCEPT !.status = "DISETUJUI", !.file = k]
      OBVIOUS
    <3>4. row' = [row EXCEPT ![l] = w] /\ w.file = k /\ w.signature = row[l].signature
      BY <1>0, <3>1, <3>2, <3>3 DEF TypeOK, Row
    <3>5. store[k].signature = row[l].signature
      BY <1>5, <2>1 DEF ApproveUpdate, Calm, CalmOK
    <3>6. SignedWithCurrent'
      BY <1>0, <3>4, <3>5, SignedIsWritten
    <3> QED BY <1>2, <3>1, <3>6
  <2>3. CASE ~Waits(l, req[p].dosen)
    <3> DEFINE r == [req[p] EXCEPT !.at = "approve.cleanup"]
    <3>1. req' = [req EXCEPT ![p] = r] /\ UNCHANGED row
      BY <1>0, <1>5, <2>1, <2>3 DEF ApproveUpdate, TypeOK
    <3>2. r.at \notin Trusting
      BY <1>0 DEF Request, Trusting
    <3> HIDE DEF r
    <3> QED BY <1>1, <1>3, <3>1, <3>2
  <2> QED BY <2>2, <2>3
<1>6. CASE RejectUpdate(p)
  <2>1. PICK l \in Letters : l = req[p].letter
    BY <1>6 DEF RejectUpdate, Inv, ReqsOK, ReqOK
  <2>2. ASSUME row' = [row EXCEPT ![l].status = "DITOLAK"] PROVE SignedWithCurrent'
    <3>1. PICK w : w = [row[l] EXCEPT !.status = "DITOLAK"]
      OBVIOUS
    <3>2. row' = [row EXCEPT ![l] = w] /\ w.status = "DITOLAK"
      BY <1>0, <2>2, <3>1 DEF TypeOK, Row
    <3> QED BY <1>0, <3>2, SignedIsWritten
  <2> QED BY <1>2, <1>3, <1>6, <2>1, <2>2 DEF RejectUpdate
<1>7. CASE AgainUpdate(p)
  <2>1. PICK l \in Letters : l = req[p].letter
    BY <1>7 DEF AgainUpdate, Inv, ReqsOK, ReqOK
  <2>2. ASSUME NEW s, row' = [row EXCEPT ![l].status = "MENUNGGU", ![l].file = None,
                                         ![l].signature = s]
        PROVE  SignedWithCurrent'
    <3>1. PICK w : w = [row[l] EXCEPT !.status = "MENUNGGU", !.file = None, !.signature = s]
      OBVIOUS
    <3>2. row' = [row EXCEPT ![l] = w] /\ w.status = "MENUNGGU"
      BY <1>0, <2>2, <3>1 DEF TypeOK, Row
    <3> QED BY <1>0, <3>2, SignedIsWritten
  <2> QED BY <1>2, <1>3, <1>7, <2>1, <2>2 DEF AgainUpdate
<1> QED BY <1>4, <1>5, <1>6, <1>7

LEMMA CalmHolds == Spec /\ []OneAtATime => []Calm
<1>1. Init => Calm
  BY DEF Init, NoRow, Idle, Calm, CalmOK, SignedWithCurrent, Letters
<1>2. Inv /\ Calm /\ OneAtATime /\ [Next]_vars => Calm'
  <2> SUFFICES ASSUME Inv, Calm, OneAtATime, [Next]_vars PROVE Calm'
    OBVIOUS
  <2>1. ASSUME NEW p \in Requests, Step(p) \/ LetterFails(p) \/ Die(p) \/ Call(p) PROVE Calm'
    BY <2>1, CallsKeepCalm, ReadsKeepCalm, ObjectsKeepCalm, WritesKeepCalm DEF Step
  <2>2. CASE UNCHANGED vars
    BY <2>2 DEF vars, Calm, CalmOK, SignedWithCurrent
  <2> QED BY <2>1, <2>2 DEF Next
<1> QED BY <1>1, <1>2, InvAlways, PTL DEF Spec

(* surat-permohonan.service.ts:690: an approved letter bears the signature *)
(* that is kept with its request, unless requests overlap.                 *)
THEOREM SignedWithCurrentOneAtATime == Spec /\ []OneAtATime => []SignedWithCurrent
<1>1. Calm => SignedWithCurrent
  BY DEF Calm
<1> QED BY <1>1, CalmHolds, PTL
=============================================================================
