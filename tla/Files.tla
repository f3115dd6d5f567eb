-------------------------------- MODULE Files --------------------------------
(***************************************************************************)
(* Rows that name a stored object: templates, submission documents,        *)
(* response letters, logbook photos and mentor signatures.  The row is in  *)
(* Postgres and the object in R2, and every handler changes the two in     *)
(* separate awaited calls, each in its own order:                          *)
(*   template   replace: upload new, delete old, UPDATE by id              *)
(*   photo, signature    delete old, upload new, UPDATE by id              *)
(*   document   again: delete old, DELETE row, upload new, INSERT          *)
(*   delete     read, delete object, DELETE row by id                      *)
(*                                                                         *)
(* uploadFile makes a key from the clock and a nanoid: keys are numbered.  *)
(* deleteFile reports no failure.  Who may call, and in which status of    *)
(* the row, is in Workflow, MentorRequests and Logbooks: here a handler's  *)
(* checks may have let it pass.                                            *)
(***************************************************************************)
EXTENDS FiniteSets, Naturals

CONSTANTS
  RowIds,    \* bound on the rows of the five tables
  Kind,      \* the table that an id belongs to
  MaxKeys,   \* bound on the keys that are ever made
  Requests,  \* bound on the HTTP requests in flight
  Mortal,    \* the requests that may be killed or fail in an upload
  Unsure,    \* whether deleteFile may fail (it only logs it)
  None

Keys == 1..MaxKeys
Kinds == {"template", "document", "answer", "photo", "signature"}

(* key is the column the handlers delete by, url what readers are shown.   *)
(* None: no file yet, or a url of SSO.                                     *)
Row == [key : Keys \cup {None}, url : Keys \cup {None}]

ASSUME ConstantsAssumption ==
  /\ Kind \in [RowIds -> Kinds]
  /\ Mortal \in SUBSET Requests
  /\ Unsure \in BOOLEAN
  /\ MaxKeys \in Nat
  /\ None \notin RowIds /\ None \notin Keys /\ None \notin Kinds /\ None \notin Row

VARIABLES
  row,     \* the five tables
  store,   \* the bucket: the folder of each object
  req,     \* the requests in flight and what they remember
  born,    \* history: row ids that were ever inserted
  minted,  \* the clock: the last key that was made
  torn,    \* history: keys held by a request when it ended early
  raced    \* history: keys whose row another request changed, or whose
           \* deletion failed

history == <<born, minted, torn, raced>>
vars == <<row, store, req, history>>

-----------------------------------------------------------------------------
Empty == [key |-> None, url |-> None]

Places == {"idle", "create.upload", "create.insert", "again.file", "again.row",
           "template.upload", "template.file", "template.write",
           "photo.file", "photo.upload", "photo.write",
           "delete.file", "delete.row", "sync.write"}

Request == [at : Places, kind : Kinds \cup {None}, id : RowIds \cup {None},
            old : Keys \cup {None}, new : Keys \cup {None}]

Idle == [at |-> "idle", kind |-> None, id |-> None, old |-> None, new |-> None]

TypeOK ==
  /\ row \in [RowIds -> Row \cup {None}]
  /\ store \in [Keys -> Kinds \cup {None}]
  /\ req \in [Requests -> Request]
  /\ born \in SUBSET RowIds
  /\ minted \in 0..MaxKeys
  /\ torn \in SUBSET Keys
  /\ raced \in SUBSET Keys

Rows == {r \in RowIds : row[r] # None}
Stored == {k \in Keys : store[k] # None}
Named == {row[r].key : r \in Rows}

(* Where uploadFile puts the object of a row, whose row links to it with   *)
(* getAssetProxyUrl, and the folders that the asset route serves           *)
Folder(kind) ==
  CASE kind = "template" -> "templates"
    [] kind = "document" -> "submissions"
    [] kind = "answer" -> "response-letters"
    [] kind = "photo" -> "logbooks"
    [] kind = "signature" -> "signatures"

Linked == {k \in Stored : store[k] \in {"answer", "photo", "signature"}}

Served == {k \in Stored :
             Folder(store[k]) \in {"esignatures", "signatures", "submissions", "logbooks",
                                   "surat-kesediaan", "reports"}}

(* Logbook entries and mentor signatures start without a file.             *)
Bare == {r \in RowIds : Kind[r] \in {"photo", "signature"}}

Init ==
  /\ row = [r \in RowIds |-> IF r \in Bare THEN Empty ELSE None]
  /\ store = [k \in Keys |-> None]
  /\ req = [p \in Requests |-> Idle]
  /\ born = Bare
  /\ minted = 0
  /\ torn = {}
  /\ raced = {}

-----------------------------------------------------------------------------
Begin(p, r) == req[p].at = "idle" /\ req' = [req EXCEPT ![p] = r]
Goto(p, place) == req' = [req EXCEPT ![p].at = place]
Done(p) == req' = [req EXCEPT ![p] = Idle]

(* Bound: no request sets out without a key left for it.                   *)
Uploading == {p \in Requests : req[p].at \in {"create.upload", "again.file", "again.row",
                "template.upload", "photo.file", "photo.upload"}}
Room == MaxKeys - minted > Cardinality(Uploading)

(* Mutant: every upload uses one key.                                      *)
Upload_FixedName(p, place) ==
  /\ minted < MaxKeys
  /\ minted' = minted + 1
  /\ store' = [store EXCEPT ![1] = req[p].kind]
  /\ req' = [req EXCEPT ![p].at = place, ![p].new = 1]

(* uploadFile                                                              *)
Upload(p, place) ==
  /\ minted < MaxKeys
  /\ minted' = minted + 1
  /\ store' = [store EXCEPT ![minted + 1] = req[p].kind]
  /\ req' = [req EXCEPT ![p].at = place, ![p].new = minted + 1]

(* Mutant: the object is never deleted.                                    *)
Delete_Nothing(k) == UNCHANGED <<store, raced>>

(* deleteFile: an unknown key is no error, and neither is a failure.       *)
Delete(k) ==
  \/ /\ store' = IF k \in Keys THEN [store EXCEPT ![k] = None] ELSE store
     /\ UNCHANGED raced
  \/ /\ Unsure
     /\ raced' = raced \cup ({k} \cap Keys)
     /\ UNCHANGED store

(* An UPDATE or DELETE by id replaces whatever key the row names by then.  *)
Lose(r, old) ==
  raced' = IF r \in Rows THEN raced \cup (({row[r].key} \cap Keys) \ {old}) ELSE raced

-----------------------------------------------------------------------------
(* createTemplate, uploadDocument, submitResponseLetter                    *)
CreateBegin(p, kind) ==
  /\ Room
  /\ kind \in {"template", "document", "answer"}
  /\ Begin(p, [Idle EXCEPT !.at = "create.upload", !.kind = kind])
  /\ UNCHANGED <<row, store, history>>

CreateUpload(p) ==
  /\ req[p].at = "create.upload"
  /\ Upload(p, "create.insert")
  /\ UNCHANGED <<row, born, torn, raced>>

(* Mutant: the row is inserted without the url column.                     *)
CreateInsert_NoUrl(p, r) ==
  /\ req[p].at = "create.insert"
  /\ r \in RowIds \ born
  /\ Kind[r] = req[p].kind
  /\ row' = [row EXCEPT ![r] = [key |-> req[p].new]]
  /\ born' = born \cup {r}
  /\ Done(p)
  /\ UNCHANGED <<store, minted, torn, raced>>

CreateInsert(p, r) ==
  /\ req[p].at = "create.insert"
  /\ r \in RowIds \ born
  /\ Kind[r] = req[p].kind
  /\ row' = [row EXCEPT ![r] = [key |-> req[p].new, url |-> req[p].new]]
  /\ born' = born \cup {r}
  /\ Done(p)
  /\ UNCHANGED <<store, minted, torn, raced>>

(* What the handler read, to be replaced or deleted.                       *)
Holding(r, place) ==
  [at |-> place, kind |-> Kind[r], id |-> r, old |-> row[r].key, new |-> None]

(* uploadDocument of a document that was rejected: the old object and the  *)
(* old row go before the new file is even looked at.                       *)
AgainBegin(p, r) ==
  /\ Room
  /\ r \in Rows /\ Kind[r] = "document"
  /\ Begin(p, Holding(r, "again.file"))
  /\ UNCHANGED <<row, store, history>>

AgainFile(p) ==
  /\ req[p].at = "again.file"
  /\ Delete(req[p].old)
  /\ Goto(p, "again.row")
  /\ UNCHANGED <<row, born, minted, torn>>

AgainRow(p) ==
  LET r == req[p].id IN
  /\ req[p].at = "again.row"
  /\ row' = [row EXCEPT ![r] = None]
  /\ Lose(r, req[p].old)
  /\ req' = [req EXCEPT ![p] = [Idle EXCEPT !.at = "create.upload", !.kind = "document"]]
  /\ UNCHANGED <<store, born, minted, torn>>

-----------------------------------------------------------------------------
(* updateTemplate                                                          *)
TemplateBegin(p, r) ==
  /\ Room
  /\ r \in Rows /\ Kind[r] = "template"
  /\ Begin(p, Holding(r, "template.upload"))
  /\ UNCHANGED <<row, store, history>>

TemplateUpload(p) ==
  /\ req[p].at = "template.upload"
  /\ Upload(p, "template.file")
  /\ UNCHANGED <<row, born, torn, raced>>

TemplateFile(p) ==
  /\ req[p].at = "template.file"
  /\ Delete(req[p].old)
  /\ Goto(p, "template.write")
  /\ UNCHANGED <<row, born, minted, torn>>

(* Mutant: the url column keeps the old file.                              *)
Write_KeyOnly(p) ==
  LET r == req[p].id IN
  IF r \in Rows
  THEN /\ row' = [row EXCEPT ![r].key = req[p].new]
       /\ Lose(r, req[p].old)
  ELSE /\ raced' = raced \cup {req[p].new}
       /\ UNCHANGED row

(* LogbookRepository.update, TemplateRepository.update, updateProfile: the *)
(* UPDATE finds the row or does nothing, and then the new object is left.  *)
Write(p) ==
  LET r == req[p].id IN
  IF r \in Rows
  THEN /\ row' = [row EXCEPT ![r] = [key |-> req[p].new, url |-> req[p].new]]
       /\ Lose(r, req[p].old)
  ELSE /\ raced' = raced \cup {req[p].new}
       /\ UNCHANGED row

TemplateWrite(p) ==
  /\ req[p].at = "template.write"
  /\ Write(p)
  /\ Done(p)
  /\ UNCHANGED <<store, born, minted, torn>>

-----------------------------------------------------------------------------
(* LogbookService.uploadPhoto, MentorService.updateSignature               *)
PhotoBegin(p, r) ==
  /\ Room
  /\ r \in Rows /\ Kind[r] \in {"photo", "signature"}
  /\ Begin(p, Holding(r, "photo.file"))
  /\ UNCHANGED <<row, store, history>>

PhotoFile(p) ==
  /\ req[p].at = "photo.file"
  /\ Delete(req[p].old)
  /\ Goto(p, "photo.upload")
  /\ UNCHANGED <<row, born, minted, torn>>

PhotoUpload(p) ==
  /\ req[p].at = "photo.upload"
  /\ Upload(p, "photo.write")
  /\ UNCHANGED <<row, born, torn, raced>>

PhotoWrite(p) ==
  /\ req[p].at = "photo.write"
  /\ Write(p)
  /\ Done(p)
  /\ UNCHANGED <<store, born, minted, torn>>

(* syncSignatureFromSso shows the signature of SSO and leaves the key.     *)
SyncBegin(p, r) ==
  /\ Kind[r] = "signature"
  /\ Begin(p, [Holding(r, "sync.write") EXCEPT !.old = None])
  /\ UNCHANGED <<row, store, history>>

SyncWrite(p) ==
  /\ req[p].at = "sync.write"
  /\ row' = [row EXCEPT ![req[p].id].url = None]
  /\ Done(p)
  /\ UNCHANGED <<store, history>>

-----------------------------------------------------------------------------
(* deleteTemplate, deleteDocument; deleteResponseLetter, whose path to the *)
(* object has a month that uploadFile never put there; deleteLogbook, that *)
(* leaves the photo.                                                       *)
DeleteBegin(p, r) ==
  /\ r \in Rows /\ Kind[r] # "signature"
  /\ Begin(p, Holding(r, IF Kind[r] \in {"template", "document"} THEN "delete.file"
                                                                 ELSE "delete.row"))
  /\ UNCHANGED <<row, store, history>>

DeleteFile(p) ==
  /\ req[p].at = "delete.file"
  /\ Delete(req[p].old)
  /\ Goto(p, "delete.row")
  /\ UNCHANGED <<row, born, minted, torn>>

DeleteRow(p) ==
  LET r == req[p].id IN
  /\ req[p].at = "delete.row"
  /\ row' = [row EXCEPT ![r] = None]
  /\ Lose(r, req[p].old)
  /\ Done(p)
  /\ UNCHANGED <<store, born, minted, torn>>

-----------------------------------------------------------------------------
(* The Worker is killed, or the upload throws.                             *)
Die(p) ==
  /\ p \in Mortal
  /\ req[p].at # "idle"
  /\ torn' = torn \cup ({req[p].old, req[p].new} \cap Keys)
  /\ Done(p)
  /\ UNCHANGED <<row, store, born, minted, raced>>

Step(p) ==
  \/ CreateUpload(p) \/ TemplateUpload(p) \/ PhotoUpload(p)
  \/ \E r \in RowIds : CreateInsert(p, r)
  \/ AgainFile(p) \/ AgainRow(p) \/ TemplateFile(p) \/ TemplateWrite(p)
  \/ PhotoFile(p) \/ PhotoWrite(p) \/ SyncWrite(p) \/ DeleteFile(p) \/ DeleteRow(p)

Call(p) ==
  \/ \E kind \in Kinds : CreateBegin(p, kind)
  \/ \E r \in RowIds : AgainBegin(p, r) \/ TemplateBegin(p, r) \/ PhotoBegin(p, r)
                         \/ SyncBegin(p, r) \/ DeleteBegin(p, r)

Next == \E p \in Requests : Step(p) \/ Call(p) \/ Die(p)

Spec == Init /\ [][Next]_vars

(* A request in flight goes on until it answers or dies; nobody has to     *)
(* send one.                                                               *)
FairSpec == Spec /\ \A p \in Requests : WF_vars(Step(p))

-----------------------------------------------------------------------------
(* A reader of the row is sent to an object that is not there, as          *)
(* downloadTemplate tells (template.service.ts:195).                       *)
Lost(r) == r \in Rows /\ row[r].url \in Keys /\ row[r].url \notin Stored

Swaps(p, k) ==
  req[p].old = k /\ req[p].at \in {"again.row", "template.write", "photo.upload",
                                   "photo.write", "delete.row"}

(* A row names a missing object only while the request that deleted the    *)
(* object has yet to write the row, or after that request ended early: no  *)
(* overlap of replacements, deletions and syncs loses the current file.    *)
ReadersFindTheFile ==
  \A r \in RowIds : Lost(r) => row[r].url \in torn
                                 \/ \E p \in Requests : Swaps(p, row[r].url)

(* An object that no row names is being stored or deleted right now, or a  *)
(* request ended early or lost a race over its row: in order and unharmed, *)
(* templates, documents and signatures leave nothing behind.               *)
NothingLeftBehind ==
  \A k \in Stored :
    \/ k \in Named \cup torn \cup raced
    \/ store[k] \in {"photo", "answer"}
    \/ \E p \in Requests : req[p].new = k

(* No two rows name one object, so deleting the file of one row never      *)
(* takes that of another.                                                  *)
OneRowPerObject ==
  \A r, s \in Rows : r # s /\ row[r].key # None => row[r].key # row[s].key

(* A missing object is replaced, or its row deleted, unless the request    *)
(* that took it away ends early.                                           *)
LossEnds ==
  \A r \in RowIds : Lost(r) ~> (~Lost(r) \/ row[r].url \in torn)

-----------------------------------------------------------------------------
(* What the code says and does not keep.                                   *)

(* response-letter.service.ts:371 "Delete file from storage if exists":    *)
(* the path it deletes is not the key that uploadFile returned.            *)
AnswerTakesItsFile ==
  \A k \in Stored :
    store[k] = "answer" => k \in Named \cup torn \cup raced
                             \/ \E p \in Requests : k \in {req[p].new, req[p].old}

(* response-letter.service.ts:162 links to the answer through the asset    *)
(* route, which forbids the folder it is in (assets.route.ts:61).          *)
LinksAreServed == Linked \subseteq Served

(* logbook.service.ts:164 deletes a photo that is replaced, not the photo  *)
(* of an entry that is deleted.                                            *)
EntryTakesItsPhoto ==
  \A k \in Stored :
    store[k] = "photo" => k \in Named \cup torn \cup raced
                            \/ \E p \in Requests : k \in {req[p].new, req[p].old}
=============================================================================
