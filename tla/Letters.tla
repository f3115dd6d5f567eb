------------------------------- MODULE Letters -------------------------------
(***************************************************************************)
(* Surat kesediaan (a dosen agrees to supervise) and surat permohonan (the *)
(* letter a student takes to the company): a student asks for one for      *)
(* himself or a teammate, the team's dosen approves it, which signs a PDF  *)
(* and stores it, or rejects it, and the student may ask again.            *)
(*                                                                         *)
(* A request takes one step per SQL statement or call to the storage.      *)
(* Decisions are UPDATEs that name the status they expect, so overlapping  *)
(* ones have one winner; the files they upload before cannot be taken back *)
(* by the database.  Storage keys are random (Date.now() and a nanoid).    *)
(***************************************************************************)
EXTENDS Naturals, FiniteSets

CONSTANTS
  Members,     \* students of a team; each may ask for every one of them
  Dosens,      \* who is or was the dosen of the team
  Kesediaan,   \* bound on the surat kesediaan requests
  Permohonan,  \* bound on the surat permohonan requests
  Keys,        \* storage keys in use at the same time
  Requests,    \* bound on the HTTP requests in flight
  Crashes,     \* whether a Worker may die and an awaited call may fail
  None

Letters == Kesediaan \cup Permohonan

ASSUME ConstantsAssumption ==
  /\ Kesediaan \cap Permohonan = {}
  /\ Crashes \in BOOLEAN
  /\ None \notin Letters \cup Keys \cup Members \cup Dosens

VARIABLES
  row,    \* surat_kesediaan_requests and surat_permohonan_requests tables
  store,  \* the objects of the R2 bucket: signed letters and signatures
  req,    \* the requests in flight and what they remember
  lost    \* history: keys of letters whose request died or failed to delete

vars == <<row, store, req, lost>>

Status == {"none", "MENUNGGU", "DISETUJUI", "DITOLAK"}

Row == [status : Status, member : Members \cup {None}, dosen : Dosens \cup {None},
        file : Keys \cup {None}, signature : Keys \cup {None}]

NoRow == [status |-> "none", member |-> None, dosen |-> None,
          file |-> None, signature |-> None]

(* A signed letter names the request it was made for and the signature     *)
(* that was drawn into it; a signature names the student who made it.      *)
SignedLetter == [letter : Letters, signature : Keys \cup {None}]
Signature == [owner : Members]
Object == SignedLetter \cup Signature

Places == {"idle", "ask.insert", "ask.sign", "approve.next", "approve.details",
           "approve.upload", "approve.update", "approve.cleanup",
           "reject.update", "again.sign", "again.update"}

Request == [at : Places, letter : Letters \cup {None}, member : Members \cup {None},
            dosen : Dosens \cup {None}, by : Members \cup {None},
            form : {"kesediaan", "permohonan"}, key : Keys \cup {None},
            signature : Keys \cup {None}, todo : SUBSET Letters]

ASSUME NoneIsNoObject == None \notin Object

Idle == [at |-> "idle", letter |-> None, member |-> None, dosen |-> None,
         by |-> None, form |-> "kesediaan", key |-> None, signature |-> None,
         todo |-> {}]

TypeOK ==
  /\ row \in [Letters -> Row]
  /\ store \in [Keys -> Object \cup {None}]
  /\ req \in [Requests -> Request]
  /\ lost \in SUBSET Keys

Init ==
  /\ row = [l \in Letters |-> NoRow]
  /\ store = [k \in Keys |-> None]
  /\ req = [p \in Requests |-> Idle]
  /\ lost = {}

-----------------------------------------------------------------------------
Form(l) == IF l \in Kesediaan THEN "kesediaan" ELSE "permohonan"
Free(form) == {l \in IF form = "kesediaan" THEN Kesediaan ELSE Permohonan :
                 row[l].status = "none"}
RowsFor(form, m, d) ==
  {l \in Letters : /\ row[l].status # "none" /\ Form(l) = form
                   /\ row[l].member = m /\ row[l].dosen = d}

Referenced(k) == \E l \in Letters : k \in {row[l].file, row[l].signature}
InUse(k) == Referenced(k) \/ \E p \in Requests : k \in {req[p].key, req[p].signature}

FreshKeys == {k \in Keys : store[k] = None /\ ~InUse(k)}

Begin(p, r) == req[p].at = "idle" /\ req' = [req EXCEPT ![p] = r]
Done(p) == req' = [req EXCEPT ![p] = Idle]

(* The next letter of a bulk approval; a single approval has none.         *)
NextLetter(p) ==
  req' = [req EXCEPT ![p] = [Idle EXCEPT !.at = "approve.next", !.dosen = req[p].dosen,
                                         !.todo = req[p].todo]]

-----------------------------------------------------------------------------
(* requestSuratKesediaan, requestSuratPermohonan.  by: the student who is  *)
(* logged in, m: the member the letter is for.                             *)

AskKesediaan(p, by, m, d) ==
  /\ \A l \in RowsFor("kesediaan", m, d) : row[l].status # "MENUNGGU"
  /\ Begin(p, [Idle EXCEPT !.at = "ask.insert", !.member = m, !.dosen = d, !.by = by])
  /\ UNCHANGED <<row, store, lost>>

(* Mutant: the signature is left for later.                                *)
AskPermohonan_Unsigned(p, by, m, d) ==
  /\ \A l \in RowsFor("permohonan", m, d) : row[l].status # "MENUNGGU"
  /\ Begin(p, [Idle EXCEPT !.at = "ask.insert", !.member = m, !.dosen = d, !.by = by,
                           !.form = "permohonan"])
  /\ UNCHANGED <<row, store, lost>>

AskPermohonan(p, by, m, d) ==
  /\ \A l \in RowsFor("permohonan", m, d) : row[l].status # "MENUNGGU"
  /\ Begin(p, [Idle EXCEPT !.at = "ask.sign", !.member = m, !.dosen = d, !.by = by,
                           !.form = "permohonan"])
  /\ UNCHANGED <<row, store, lost>>

(* The active signature of the session is copied to the bucket: it is that *)
(* of the student who is logged in.                                        *)
TakeSignature(p, from, to) ==
  /\ req[p].at = from
  /\ \E k \in FreshKeys :
       /\ store' = [store EXCEPT ![k] = [owner |-> req[p].by]]
       /\ req' = [req EXCEPT ![p].at = to, ![p].signature = k]
  /\ UNCHANGED <<row, lost>>

AskSign(p) == TakeSignature(p, "ask.sign", "ask.insert")

(* The unique index over member and dosen refuses a second kesediaan.      *)
AskInsert(p) ==
  LET r == req[p] IN
  /\ r.at = "ask.insert"
  /\ \/ /\ r.form = "kesediaan" => RowsFor(r.form, r.member, r.dosen) = {}
        /\ \E l \in Free(r.form) :
             row' = [row EXCEPT ![l] = [status |-> "MENUNGGU", member |-> r.member,
                       dosen |-> r.dosen, file |-> None, signature |-> r.signature]]
     \/ /\ r.form = "kesediaan" /\ RowsFor(r.form, r.member, r.dosen) # {}
        /\ UNCHANGED row
  /\ Done(p)
  /\ UNCHANGED <<store, lost>>

-----------------------------------------------------------------------------
(* approveSingleRequest, approveBulkRequests of dosen d                    *)

Approve(p, d, L) ==
  /\ L # {}
  /\ Begin(p, [Idle EXCEPT !.at = "approve.next", !.dosen = d, !.todo = L])
  /\ UNCHANGED <<row, store, lost>>

Waits(l, d) == row[l].status = "MENUNGGU" /\ row[l].dosen = d

ApproveNext(p) ==
  LET r == req[p] IN
  /\ r.at = "approve.next"
  /\ \/ r.todo = {} /\ Done(p)
     \/ \E l \in r.todo :
          req' = IF Waits(l, r.dosen)
                 THEN [req EXCEPT ![p].at = "approve.details", ![p].letter = l,
                                  ![p].todo = @ \ {l}]
                 ELSE [req EXCEPT ![p].todo = @ \ {l}]
  /\ UNCHANGED <<row, store, lost>>

ApproveDetails(p) ==
  /\ req[p].at = "approve.details"
  /\ req' = [req EXCEPT ![p].at = "approve.upload",
                        ![p].signature = row[req[p].letter].signature]
  /\ UNCHANGED <<row, store, lost>>

ApproveUpload(p) ==
  LET r == req[p] IN
  /\ r.at = "approve.upload"
  /\ \E k \in FreshKeys :
       /\ store' = [store EXCEPT ![k] = [letter |-> r.letter, signature |-> r.signature]]
       /\ req' = [req EXCEPT ![p].at = "approve.update", ![p].key = k]
  /\ UNCHANGED <<row, lost>>

(* approveWithSignedFile.  Mutant: the UPDATE goes by id alone.            *)
ApproveUpdate_ById(p) ==
  LET r == req[p] IN
  /\ r.at = "approve.update"
  /\ row' = [row EXCEPT ![r.letter].status = "DISETUJUI", ![r.letter].file = r.key]
  /\ NextLetter(p)
  /\ UNCHANGED <<store, lost>>

(* Mutant: the file of an approval that came too late stays.               *)
ApproveUpdate_NoCleanup(p) ==
  LET r == req[p] IN
  /\ r.at = "approve.update"
  /\ IF Waits(r.letter, r.dosen)
     THEN row' = [row EXCEPT ![r.letter].status = "DISETUJUI", ![r.letter].file = r.key]
     ELSE UNCHANGED row
  /\ NextLetter(p)
  /\ UNCHANGED <<store, lost>>

ApproveUpdate(p) ==
  LET r == req[p] IN
  /\ r.at = "approve.update"
  /\ IF Waits(r.letter, r.dosen)
     THEN /\ row' = [row EXCEPT ![r.letter].status = "DISETUJUI",
                                ![r.letter].file = r.key]
          /\ NextLetter(p)
     ELSE /\ req' = [req EXCEPT ![p].at = "approve.cleanup"]
          /\ UNCHANGED row
  /\ UNCHANGED <<store, lost>>

(* The loser of two decisions removes the file it uploaded, if it can.     *)
ApproveCleanup(p) ==
  LET r == req[p] IN
  /\ r.at = "approve.cleanup"
  /\ \/ store' = [store EXCEPT ![r.key] = None] /\ UNCHANGED lost
     \/ Crashes /\ lost' = lost \cup {r.key} /\ UNCHANGED store
  /\ NextLetter(p)
  /\ UNCHANGED row

-----------------------------------------------------------------------------
(* rejectRequest *)

Reject(p, d, l) ==
  /\ Waits(l, d)
  /\ Begin(p, [Idle EXCEPT !.at = "reject.update", !.dosen = d, !.letter = l])
  /\ UNCHANGED <<row, store, lost>>

(* Mutant: the word of another enum.                                       *)
RejectUpdate_Word(p) ==
  LET r == req[p] IN
  /\ r.at = "reject.update"
  /\ row' = IF Waits(r.letter, r.dosen)
            THEN [row EXCEPT ![r.letter].status = "REJECTED"] ELSE row
  /\ Done(p)
  /\ UNCHANGED <<store, lost>>

RejectUpdate(p) ==
  LET r == req[p] IN
  /\ r.at = "reject.update"
  /\ row' = IF Waits(r.letter, r.dosen)
            THEN [row EXCEPT ![r.letter].status = "DITOLAK"] ELSE row
  /\ Done(p)
  /\ UNCHANGED <<store, lost>>

(* reapplyRequest, by the member of the letter *)

Rejected(l, m) == row[l].status = "DITOLAK" /\ row[l].member = m

AskAgain(p, m, l) ==
  /\ Rejected(l, m)
  /\ Begin(p, [Idle EXCEPT !.letter = l, !.member = m, !.by = m, !.form = Form(l),
       !.at = IF l \in Kesediaan THEN "again.update" ELSE "again.sign"])
  /\ UNCHANGED <<row, store, lost>>

AgainSign(p) == TakeSignature(p, "again.sign", "again.update")

AgainUpdate(p) ==
  LET r == req[p] IN
  /\ r.at = "again.update"
  /\ row' = IF Rejected(r.letter, r.member)
            THEN [row EXCEPT ![r.letter].status = "MENUNGGU", ![r.letter].file = None,
                    ![r.letter].signature = IF r.form = "permohonan" THEN r.signature ELSE @]
            ELSE row
  /\ Done(p)
  /\ UNCHANGED <<store, lost>>

-----------------------------------------------------------------------------
(* An awaited call fails or the Worker dies.  A bulk approval catches the  *)
(* failure of one letter and goes on with the next one.                    *)
Orphans(p) ==
  IF req[p].at \in {"approve.update", "approve.cleanup"}
  THEN lost \cup {req[p].key} ELSE lost

LetterFails(p) ==
  /\ Crashes
  /\ req[p].at \in {"approve.details", "approve.upload", "approve.update"}
  /\ lost' = Orphans(p)
  /\ NextLetter(p)
  /\ UNCHANGED <<row, store>>

Die(p) ==
  /\ Crashes
  /\ req[p].at # "idle"
  /\ lost' = Orphans(p)
  /\ Done(p)
  /\ UNCHANGED <<row, store>>

Step(p) ==
  \/ AskSign(p) \/ AskInsert(p)
  \/ ApproveNext(p) \/ ApproveDetails(p) \/ ApproveUpload(p)
  \/ ApproveUpdate(p) \/ ApproveCleanup(p)
  \/ RejectUpdate(p) \/ AgainSign(p) \/ AgainUpdate(p)

(* The controllers: students ask, dosens decide.                           *)
StudentCall(p) ==
  \/ \E by, m \in Members, d \in Dosens : AskKesediaan(p, by, m, d) \/ AskPermohonan(p, by, m, d)
  \/ \E m \in Members, l \in Letters : AskAgain(p, m, l)

DosenCall(p) ==
  \E d \in Dosens : \/ \E L \in (SUBSET Kesediaan) \cup (SUBSET Permohonan) : Approve(p, d, L)
                    \/ \E l \in Letters : Reject(p, d, l)

Call(p) == StudentCall(p) \/ DosenCall(p)

Next == \E p \in Requests : Step(p) \/ LetterFails(p) \/ Die(p) \/ Call(p)

Spec == Init /\ [][Next]_vars

-----------------------------------------------------------------------------
(* Whatever decisions, repeated requests, failures and deaths overlap,     *)
(* each request for a letter goes through what LetterPromise says: one     *)
(* decision per round, an approval is final, and an approved request - no  *)
(* other - has its own signed letter in the bucket, which nobody else's    *)
(* clean-up deletes and no later upload replaces.                          *)
Promise ==
  INSTANCE LetterPromise WITH
    Docs <- [l \in Letters |-> [letter : {l}, signature : Keys \cup {None}]],
    status <- [l \in Letters |-> row[l].status],
    document <- [l \in Letters |->
                   IF row[l].file = None THEN None ELSE store[row[l].file]]

KeepsPromise == Promise!Spec

(* An approved permohonan can be rebuilt and a waiting one can be signed:  *)
(* the signature its row names is in the bucket, also when the row was     *)
(* asked for again while an approval was reading it, and the signed letter *)
(* bears one that was taken for it.                                        *)
SignaturesStored ==
  \A l \in Letters :
    /\ row[l].status # "none" /\ l \in Permohonan =>
         row[l].signature # None /\ store[row[l].signature] \in Signature
    /\ row[l].status = "DISETUJUI" /\ l \in Permohonan =>
         LET s == store[row[l].file].signature
         IN s # None /\ store[s] \in Signature

(* A signed letter that no request for a letter refers to is the one an    *)
(* approval in flight is about to record or to delete, unless the Worker   *)
(* that uploaded it died or could not delete it.                           *)
NoStrayLetters ==
  \A k \in Keys :
    store[k] \in SignedLetter =>
      \/ Referenced(k) \/ k \in lost
      \/ \E p \in Requests : /\ req[p].key = k
                             /\ req[p].at \in {"approve.update", "approve.cleanup"}

-----------------------------------------------------------------------------
(* What the code's messages and comments say and its behaviour breaks.     *)

(* surat-permohonan.service.ts:700: what is stored with a request as       *)
(* "mahasiswa-signature-<member>" is the signature of that member.         *)
SignatureIsMembers ==
  \A l \in Permohonan :
    row[l].status # "none" => store[row[l].signature] = [owner |-> row[l].member]

(* surat-permohonan.service.ts:690: the signature is kept as a "persistent *)
(* record at time of request", so a letter bears the one of the round it   *)
(* was approved in.                                                        *)
SignedWithCurrent ==
  \A l \in Permohonan :
    row[l].status = "DISETUJUI" => store[row[l].file].signature = row[l].signature

(* surat-permohonan.service.ts:242: a member has one request in process    *)
(* with a dosen ("sudah dalam proses").                                    *)
OnePermohonanWaits ==
  \A m \in Members, d \in Dosens :
    Cardinality({l \in RowsFor("permohonan", m, d) : row[l].status = "MENUNGGU"}) <= 1
=============================================================================
