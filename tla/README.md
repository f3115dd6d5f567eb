# Formal models of the SIKP backend

SIKP ("Sistem Informasi Kerja Praktik") administers the internships of a
faculty: students form a team, the team files a submission, an administrator and
a dosen approve it, letters are signed, the company answers, and internships,
logbooks, assessments and grades follow.  The backend (`src/src`) is a Hono
application on Cloudflare Workers.  Each HTTP request runs in a Worker of its
own, keeps its state in PostgreSQL (through Drizzle) and its files in an R2
bucket, and asks an SSO service about people and their signatures.

What makes it hard is one property of the code: **no database transaction spans
two statements.**  A handler reads rows, checks them, awaits other services, and
then writes, almost always with `UPDATE ... WHERE id = ...`.  Between any two of
its statements other requests run, and the Worker may die.  The models therefore
give every request a program counter and one step per SQL statement (or call to
the storage), and let TLC interleave several of them.

## 1. Inventory

Every component, its state, its operations, and what makes it correct.
`PROJECT.json` says for each one how far it is modelled, and lists the places
where the code can go wrong (`hazards`) with the properties that watch them.

**Team formation** (`team.service.ts`, `team-reset.service.ts`,
`team.repository.ts`).  State: `teams`, `team_members` (the leader's own row and
invitations or join requests, PENDING / ACCEPTED / REJECTED), and which
submissions of the team are active.  Operations: create (team row, then leader
row, with a compensating delete), invite, respond, join, cancel, leave, remove,
delete, finalize (FIXED and a draft submission), reset (archive the submissions,
unfix).  Hard: rows are deleted and updated by an id that was read earlier; an
accepting student's own teams are disbanded one by one.  Correct when: nobody is
a member without both sides' consent, every team keeps its leader's row, only
the parties remove a row, a FIXED team has a draft to work on.

**Submission form and documents** (`submission.service.ts`,
`submission.repository.ts`).  State: a `submissions` row with *four* columns that
say where it stands (`status`, `workflow_stage`, `admin_verification_status`,
`dosen_verification_status`), its data, its letter numbers and its
`submission_documents`.  Operations: create, edit, submit, reset to draft,
upload (replacing an earlier document) and delete a document.  Hard: an
operation checks DRAFT and writes later.  Correct when the four columns never
contradict each other.

**Admin review** (`admin.service.ts`).  Approves or rejects: document verdicts,
a cover letter, the verdict, and on approval an internship per accepted member;
on rejection the letters of the round are removed on a best-effort basis.  Hard:
many statements, all by id, and a catch block around the clean-up.

**Dosen verification** (`surat-pengantar-dosen.service.ts`) and **letter
generation** (`letter.service.ts`).  State: `generated_letters` with a unique
letter number.  Approve: look for or insert the final letter, then complete the
submission; reject.  Hard: look and insert are separate, and two paths (dosen,
response letter) reach the same insert.

**Response letters** (`response-letter.service.ts`).  State: `response_letters`
and a mark on the submission.  Operations: hand in, verify (may complete the
submission, create internships and the final letter, failures swallowed),
delete.

**Surat kesediaan and surat permohonan** (`surat-kesediaan.service.ts`,
`surat-permohonan.service.ts`).  State: two request tables and the bucket.
Operations: ask, approve (one or many: sign, upload, conditional UPDATE, clean
up when it loses), reject, ask again.  Here the UPDATEs *do* name the status they
expect.  Hard: the bucket is not part of the database, the uploaded file of a
lost decision must go and no other one may.

**Title, report and grades** (`reporting.service.ts`, `assessment.service.ts`)
and **mentor assessments** (`mentor.service.ts`).  State: `title_submissions`,
`reports`, `assessments` (no unique index), `combined_grades`, the internship's
status.  Hard: look-then-insert, several writes of which one may fail, a grade
that is stored once and computed from what was there then.

**Logbook** (`logbook.service.ts`, decisions in `mentor.service.ts`).  State:
`logbooks`, a photo per entry in the bucket.  Operations: write, edit, attach a photo,
delete, approve, reject, approve all.  Hard: whose mentee the student is comes from two
queries, the entry's status from a third, and the write names the id only.  Correct when
only a mentor decides, and a decision stands for what the mentor has seen.

**Mentor requests** (`mentor-workflow.service.ts`).  State: `mentor_approval_requests`,
the internship's mentor and Dosen PA columns, `mentor_signatures`, and the accounts of SSO.
Operations: submit, resubmit, reject, approve (find or create the account, assign it, ensure
its signature row, mark the request); the monitoring repairs the Dosen PA column.  Hard: four
writes to two systems with no transaction.  Correct when an approved request is approved all
the way and no account is made for nothing.

**Auth sessions** (`auth.service.ts`, `auth-session.repository.ts`,
`auth.middleware.ts`).  State: `auth_sessions` with a snapshot of the SSO profile.
Operations: login (insert, then delete the user's others), load (delete the expired, read,
fill in a missing snapshot), choice of the identity, logout.  Hard: every write names a row
that may be gone.  Correct when what ended stays ended, one session per user is left, and the
identity is one the profile offers.

**Templates** (`template.service.ts`) and **file storage** (`storage.service.ts`,
`assets.route.ts`).  State: five tables with rows that name an object, and the bucket.  Hard:
each handler changes row and object in an order of its own, and `deleteFile` hides its
failures.  Correct when readers find the file, and what is left behind has a cause.

**Views** (the student's pages and dashboard, the admin's list, the dosen's queues, the pages
and snapshots of response letters, the cover letter, the archive).  They keep nothing, but
each derives "where the submission stands" and "who the team is" by a rule of its own.
Correct when the rules agree on whatever overlapping requests have left.

**Monitoring, archive, SSO proxies, routes, validation**: stateless, but for
`syncMenteesProgress` (in `MentorRequests`) and `archiveInternship`, which writes one column.

Interaction: requests never talk to each other; they meet in the tables.  Team
formation hands a draft to the submission; the admin's verdict hands a submission
to the dosen and creates internships; the response letter and the dosen both end
in the final letter; internships carry logbooks, assessments, reports and grades.
There are no queues, timers or callbacks.  Delivery is HTTP: a client may
repeat a call at any time or never make it.

## 2. Modules

| module | models |
|---|---|
| `MembershipPromise` | abstract specification of membership: who comes into a team and out of it, and by whose doing |
| `Teams` | team formation, reset, creation of the draft; implements `MembershipPromise` |
| `TeamViews` | extends `Teams` by the pages, papers and records that say who a team is |
| `Workflow` | a submission from its draft to its letters and internships: form, documents, admin, dosen, response letter, letters |
| `Views` | extends `Workflow` by what student, admin, dosen and archive are shown of a submission |
| `LetterPromise` | abstract specification of the two surat requests |
| `Letters` | surat kesediaan and surat permohonan, with the bucket; implements `LetterPromise` |
| `Grading` | the end of one internship: title, report, the mentor's assessment, the dosen's score, the combined grade |
| `MentorRequests` | requests for a field mentor, the accounts in SSO, the Dosen PA column |
| `Logbooks` | extends `MentorRequests`: the logbook, composed with the approvals that make somebody a mentor |
| `Sessions` | login, the middleware's load, choice of the identity, logout, expiry |
| `Files` | rows with a stored object: templates, documents, response letters, photos, signatures |
| `...Proofs` | the theorems and proofs about the module of that name (`TeamsProofs` and `WorkflowProofs` include the views) |
| `MC...` | endpoint sets, tables and symmetry for TLC |

### How the models read the code

* A table is a function from a bounded set of ids to rows.  Ids are random in the
  code, so a new row takes any unused id that no request remembers.
* `req[p]` is the request `p`: where it stands (`at`) and what its handler has
  read and still uses.  `at` is named `<operation>.<next statement>`.
  `...Begin` actions are the part of a handler up to and including the last read
  of its checks when nothing that matters is read before; each further
  statement is one action.  A failing check answers the client and ends the
  request.
* `UPDATE ... WHERE id AND status` is one atomic action with the condition in its
  guard or in an `IF`; `UPDATE ... WHERE id` writes whatever the row has become.
* `Die(p)` ends a request at any place: the Worker is killed or an awaited call
  outside a `try` fails.  `CheckSkips`, `RejectSkips` and `LetterFails` are the
  `catch` blocks that go on after a failure; `Unsure` lets `deleteFile` fail without a word.
  A compensation in the code (the roll-back of `createTeam`, the clean-up of
  `approveAndSignRequest`) is a place of its own which may fail, too.
* `Call(p)` starts a request of any client at any time, so repeated, duplicated
  and missing calls are all there.  It is split by controller (`FormCall`, `AdminCall`,
  `DosenCall`, ...).  `Ops` only chooses which endpoints a run lets the clients use.
* SSO is external: it answers with anything it has said at some time (`PaSeen`, `Profiles`),
  fails, or creates an account and the caller dies before it learns of it.
* Views are operators, not actions: they change nothing.  Where a query takes "the first" of
  several rows, the view is the set of what it may take.
* Variables marked "history" (`answer`, `crashed`, `failed`, `lost`, `revised`, `cut`,
  `mentored`, `overlapped`, `issued`, `torn`, `raced`, `late`) remember what the tables do not;
  the only guards that read one are those that keep ids fresh (`issued`, `born`).

What is abstracted: people are ids, documents are slots, PDFs are records saying
whose signature is in them, letter numbers are elements of a set with equality
only, keys of the bucket are numbered.  Names, formats, time stamps and notes are left
out, and so are the status history column and `audit_logs`, which no handler reads to decide.

### Correspondence

`Teams`: `team`, `members`, `subs` are the tables; `Create*` is `createTeam`,
`Leave*`/`Remove*`/`Cancel*` end in the shared `RowDelete`, `Delete*` is
`deleteTeam`, `Finalize*` is `finalizeTeam`, `Invite*`, `Respond*`, `Join*`, `Draft*`
(`createSubmission`), `Reset*` (`resetTeamByTeamId`).  `LetterArrives` is the one
thing deletion depends on that happens elsewhere (a response letter handed in).

`MembershipPromise`: `circle` is what a team is to its members (not yet there, there, gone, and its
leader), `place` what a row is: whose place in which team, the leader's or an ordinary one, who asked for
it, who answered, and how.  `CircleOf` and `PlaceOf` read both off the tables; what a request remembers and
the submissions are not seen.  `Found` and `TakeLead` are the two inserts of `createTeam`, `Ask` those of
`inviteMember` and `joinTeam`, `Answer` the update of `respondToInvitation`, `Withdraw` the deletes of one
row (leave, remove, cancel, the refused row that `inviteMember` replaces), `Disband` every delete of a team
with its rows (`deleteTeam`, the roll-back of `createTeam`, the invitee's own teams).  It asks more
than a table does: one leader's row in a team and nobody else before it, no place for the
leader beside it, an answer only by the party that did not ask.  It does not promise that an answer is
final or that a student is in one team: the code does not keep that (section 5).

`TeamViews`: `Effective` is the filter "the accepted rows, or all when there is none" that the
cover letter, the snapshot and the page of a response letter share, and `Heads` their choice of
the leader.  `TeamPage`, `Inbox`, `MySubmissions`, `LetterCards`, `Access` are the members' own
pages, `Dashboard*` the dashboard, `AdminMembers`, `Queue*` the lists of the admin and the dosen,
`KesediaanTeams`/`PermohonanTeams` the team a letter is asked for in, `Interns` whom
`createInternshipRecords` makes records for.

`Workflow`: `sub`, `doc`, `letter`, `resp`, `intern` are the tables; `Edit*`,
`Submit*`, `Revert*`, `Upload*`, `RemoveDoc*` are the student's endpoints;
`Review*`, `Approve*`, `Reject*`, `Intern*`, `Generate*` the admin's; `Dosen*` and
`Letter*` the dosen's (`DosenRejects` is one statement: the handler checks nothing but
that the submission exists); `Answer*`, `Check*`, `Remove*` the
response letter's.  `InternLook/InternInsert` and `LetterNumber/Look/Add/Final` are
used by more than one caller (`req[p].by`), as in the code.  A signed letter of an earlier round
is found by `LetterLook` and used again, under its old number.

`Views`: `AdminSeen`, `StageSeen`, `StudentFile` are `toStudentSubmissionView`,
`StatusPengajuan` and `TahapBerikutnya` the dashboard's card and next step, `Bucket` and
`AdminFiles` the admin's tabs and file, `Queue`, `VerifierFiles`, `DashboardCount` the
verifier's list, file and counter, `Archive` the archive's filter.

`Letters`: `row` holds both request tables (kesediaan and permohonan differ in the
unique index, which only kesediaan has, and in the student's signature, which only
permohonan has); `store` is the bucket.  `Ask*`, `Approve*`, `Reject*`, `Again*`
follow the services; `TakeSignature` is `resolveMahasiswaEsignatureUrl`.

`Grading`: `title`, `report`, `lecturer`, `assess`, `grade` are `title_submissions`,
`reports`, `lecturer_assessments`, `assessments`, `combined_grades`; `internship` is the
internship's status and supervisor.  `Title*`, `Fast*`, `Report*`, `Backfill*`, `Score*`
are the endpoints of `reporting.service.ts` (`Score*` goes on into
`calculateCombinedGrade`), `Assess*`, `Change*`, `Unlock*` those of `mentor.service.ts`
with the second read in its repository.  All queries name one internship, so the module
has one.  `limit 1` without an order is any row.  Scores are integers; weighted sums are
counted in tenths, and because the code computes them in floating point an exact half may
be rounded either way (`RoundedTenths`).

`MentorRequests`: every query names one student, so there is one internship.  `ask` is
`mentor_approval_requests`, `account` and `pa` are SSO, `knownPa` the Dosen PAs that cached
profiles still name, `signature` the rows of `mentor_signatures`.  `Approve*` are the statements
of `approveMentorApprovalRequest` in their order, `Heal*` and `Sync*` the two repairs of
`dosen_pa_id`, `Finish` what `Grading` does to the internship.

`Logbooks`: `entry` is `logbooks`; `task[p]` a logbook request.  `Student*` are `updateLogbook`,
`uploadPhoto`, `deleteLogbook` (they share their checks), `Decide*`, `ApproveEntry`,
`RejectEntry`, `AllBegin`, `ApproveAll` the mentor's.  `Direct` and `Fallback` are the two
queries of `getMentees`.

`Sessions`: `session` is `auth_sessions`; `Callback*` is `handleCallback`; every other endpoint
starts with `RequestBegin` and `Load*` (the middleware), loads once more when its handler does,
and goes on to `SelectWrite` or `Logout*`.  `Expire` lets the time pass.

`Files`: `row` is the two columns `key` and `url` of each of five tables, `store` the bucket.
`Template*`, `Photo*` (photo and signature), `Again*` (a document uploaded again), `Create*`,
`Delete*`, `Sync*` follow the order of calls of their handlers.

`PROJECT.json` maps every definition to its lines.

## 3. Runs

Deadlock checking is off in all runs: clients may stop calling, and the bounds on
ids end a run.  Symmetry is used in runs without liveness only, over sets whose
elements no definition tells apart.

| run | what it checks | states |
|---|---|---|
| `teams_members` | three students, two teams, three rows, two requests that may die, all membership endpoints: `TwoPartyConsent`, `LeaderSeated`, `RemovedByItsParties`, `PagesAgree` of the views, and `KeepsPromise` (refinement of `MembershipPromise`) | 69,815 |
| `teams_lifecycle` | one team, three overlapping requests that may die, create / finalize / draft / reset / delete: `FixedTeamHasDraft`, and `FinalizationCompletes` under fairness | 249,375 |
| `workflow_review` | one submission, one member, two requests that may die, among the student's, admin's and dosen's endpoints: `TypeOK`, `VerdictsAgree`, `DosenApprovalHasLetter`, `InternshipsFollow`, and `ViewsAgree` of the views | 1,267,472 |
| `workflow_answer` | response letters, generated letters and both ways to the final letter: `VerdictsAgree`, and `InternshipsCreated` under fairness | 1,804,797 |
| `letters` | two requests, three letters, two dosens, four keys, failures and deaths: `TypeOK`, `SignaturesStored`, `NoStrayLetters`, and `KeepsPromise` (refinement of `LetterPromise`) | 394,823 |
| `grading` | two dosens, one mentor, two assessments, two scorings, two requests: `TypeOK`, `GradeFitsScores`, `TotalFitsColumns` | 1,785,184 |
| `reporting` | two titles, the report, the fast track, the repair, two scorings, two requests that may die: `ResultsInOrder`, and `GradedEnds` under fairness | 107,091 |
| `mentor_requests` | one request row, two addresses, two accounts, two HTTP requests that may die, approvals, rejections, resubmissions, repairs: `ApprovalComesLast`, `ApprovedNamesItsMentor`, `AccountIsUsed`, `StatusesInTurn` | 771,508 |
| `logbooks` | one entry, two texts, two requests of both kinds at a time: `TypeOK`, `VerifierWasMentor`, `ReasonFollowsStatus`, `ApprovedEntryStands` | 1,195,062 |
| `sessions` | one user, two sessions, one of them perhaps from before the snapshot column, two profiles, two requests that may die: `OneSettledSession`, `IdentityWasOffered`, `EndedStaysEnded`, and `LoginsSettle` under fairness | 1,663,978 |
| `files` | a template, a document and a signature, three keys, two requests, one of which may die, a bucket that may fail: `TypeOK`, `ReadersFindTheFile`, `NothingLeftBehind`, `OneRowPerObject`, and `LossEnds` under fairness | 603,197 |
| `files_answer` | a response letter is deleted: `AnswerTakesItsFile` is violated (section 5) | - |

**What the properties are about.**  `VerdictsAgree`, `DosenApprovalHasLetter`,
`InternshipsFollow`: the four status columns, the letter and the internships of a submission
tell one story after any overlap.  `ViewsAgree` and `PagesAgree` go from the rows to what people
see: card, tab, queue and archive agree; a team is the same on paper and on screen.
`TwoPartyConsent`, `LeaderSeated`, `RemovedByItsParties`: stale ids do no harm to
membership; `KeepsPromise` of `Teams` is the same for the way from one row to the next, step by step.
`KeepsPromise` of `Letters`: the letters' conditional UPDATEs make decisions atomic.
`GradeFitsScores`, `TotalFitsColumns`, `ResultsInOrder`: a grade is that of the scores it
names, whoever scores and changes at the time.  `ApprovalComesLast`, `AccountIsUsed`: the order of the
four writes of an approval survives deaths and retries.  `StatusesInTurn`: what breaks "only pending
requests" is a second request on the same row, and nothing else.  `VerifierWasMentor`,
`ApprovedEntryStands`, `ReasonFollowsStatus`: authority and status that were read before the write.
`OneSettledSession`, `EndedStaysEnded`, `IdentityWasOffered`: writes by the id of a row that may be
gone.  `ReadersFindTheFile`, `NothingLeftBehind`, `OneRowPerObject`: bucket and table, changed one
after the other.

**Bounds and why they are enough to be interesting.**  Two requests are what a
stale read or a lost decision takes: one that has checked and one that writes in
between; `teams_lifecycle` has three, so that a finalization, a reset and a draft
can overlap.  Ids are bounds on rows that exist *or are remembered*; ids of
deleted rows are not reused in `Teams`, `Sessions` and `Files` (a browser remembers a
session that is gone) and are reused elsewhere once no request remembers them, so long
sequences of operations are covered by few ids.  Two teams and two students suffice for a
student who leads one team and joins another; `teams_members` has a third student, so
that there is a caller with no say over a row, and a team that grows past a limit of two.  Its three
rows are two leaders' rows and an invitation between the teams, or a leader's row and a row that is deleted
and asked for again under another id, while a request still has the first one in hand.  It leaves the
teams unfixed, so the views' preference for a FIXED team is not exercised there.  A second submission
matters only for the unique letter numbers.  Four keys leave each of two requests an upload next to a
stored letter and a stored signature.  `grading` has two ids of assessments and of lecturer's rows, so
that creations and scorings overlap, and two partial changes of different criteria, one of which gives
an exact half; a dosen's marks never meet a condition before the final score, so one sheet is enough.
The title endpoints are apart from it in `reporting`, where no scoring finds an assessment: neither side
reads what the other one writes.  `Members = {m1}` in the two
`workflow` runs is a concession to size: with two members `workflow_review` has 3.6 million states.  Who
the members are matters to `InternshipsFollow` only, which is proved for any set of them
(`InternshipsAlwaysFollow`).  One mentor request row is enough for two approvals of the same row
to overlap, two accounts for the second one to be created; one dosen suffices because who may approve
only guards the way, and a wrong dosen ends there.  `Logbooks` leaves out deaths: each of its requests
writes once, at its end.  One user is enough in `Sessions`, whose statements each name one user or one
id.  `Files` has one row of each way to replace a file; a photo follows the same steps as a
signature and a response letter is never replaced.

**Fairness.**  `FairSpec` (in `Teams`, `Workflow`, `Grading`, `Sessions`, `Files`) adds
`WF_vars(Step(p))` for each request: a Worker that is not killed runs its handler to the end (every
awaited statement returns or throws).  There is no fairness on `Call` - no client owes a call - nor on
`Die`.  Weak fairness per request is enough because nothing disables a request's next step
for good: there are no locks.  The liveness properties therefore say what a handler
that was started brings about, and name in `crashed`, `failed`, `cut` and `torn` the cases in which it
was cut short.

The type invariants of `Teams` and `Sessions` are in no run: they are proved (`TeamsProofs!TeamTypesHold`,
`SessionsProofs!TypeCorrect`).

Each property has a mutant in `PROJECT.json`: a plausible bug (a dropped
guard, a forgotten reset, a wrong word) after which TLC refutes it.

## 4. Proofs

The proof modules prove, for every value of the constants that satisfies the modules' assumptions:
`ConstantsAssumption` (disjointness of id sets, `None` being no id, scores in range),
`LogbooksAssumption`, `NoneIsNoObject`, `NoneIsNoRow`, `NoneIsNoOp` (`None` is not a record or a word
either) and `BoundsAssumption` (sets whose elements are counted are finite):

| theorem | says |
|---|---|
| `TeamsProofs!TeamTypesHold` | `Spec => []TypeOK` |
| `TeamsProofs!ConsentIsAlwaysMutual` | `Spec => []TwoPartyConsent` |
| `TeamsProofs!LeaderAlwaysSeated` | `Spec => []LeaderSeated` |
| `TeamsProofs!FixedTeamAlwaysHasDraft` | `Spec => []FixedTeamHasDraft` |
| `TeamsProofs!RowsAlwaysRemovedByParties` | `Spec => RemovedByItsParties` |
| `TeamsProofs!PagesAlwaysAgree` | `Spec => []PagesAgree` |
| `TeamsProofs!MembershipPromiseKept` | `Spec => KeepsPromise`, the refinement |
| `WorkflowProofs!TypeCorrect` | `Spec => []TypeOK` |
| `WorkflowProofs!VerdictsAlwaysAgree` | `Spec => []VerdictsAgree` |
| `WorkflowProofs!ApprovalHasLetter` | `Spec => []DosenApprovalHasLetter` |
| `WorkflowProofs!InternshipsAlwaysFollow` | `Spec => []InternshipsFollow` |
| `WorkflowProofs!ViewsAlwaysAgree` | `Spec => []ViewsAgree` |
| `LettersProofs!TypeCorrect` | `Spec => []TypeOK` |
| `LettersProofs!NoLetterAstray` | `Spec => []NoStrayLetters` |
| `LettersProofs!SignaturesAlwaysStored` | `Spec => []SignaturesStored` |
| `LettersProofs!PromiseKept` | `Spec => KeepsPromise`, the refinement |
| `GradingProofs!GradingTypesHold` | `Spec => []TypeOK` |
| `GradingProofs!GradeAlwaysFitsScores` | `Spec => []GradeFitsScores` |
| `GradingProofs!TotalAlwaysFitsColumns` | `Spec => []TotalFitsColumns` |
| `GradingProofs!ResultsAlwaysInOrder` | `Spec => []ResultsInOrder` |
| `MentorRequestsProofs!MentorTypesHold` | `MentorSpec => []MentorTypeOK` |
| `MentorRequestsProofs!ApprovalAlwaysComesLast` | `MentorSpec => []ApprovalComesLast` |
| `MentorRequestsProofs!ApprovedAlwaysNamesItsMentor` | `MentorSpec => []ApprovedNamesItsMentor` |
| `MentorRequestsProofs!AccountIsAlwaysUsed` | `MentorSpec => []AccountIsUsed` |
| `MentorRequestsProofs!StatusesAlwaysInTurn` | `MentorSpec => StatusesInTurn` |
| `LogbooksProofs!LogTypesHold` | `Spec => []TypeOK` |
| `LogbooksProofs!VerifierAlwaysWasMentor` | `Spec => []VerifierWasMentor` |
| `LogbooksProofs!ReasonAlwaysFollowsStatus` | `Spec => []ReasonFollowsStatus` |
| `LogbooksProofs!ApprovedEntryAlwaysStands` | `Spec => ApprovedEntryStands` |
| `SessionsProofs!TypeCorrect` | `Spec => []TypeOK` |
| `SessionsProofs!SessionsSettle` | `Spec => []OneSettledSession` |
| `SessionsProofs!IdentityAlwaysOffered` | `Spec => []IdentityWasOffered` |
| `SessionsProofs!EndedSessionsStayEnded` | `Spec => EndedStaysEnded` |
| `FilesProofs!TypeCorrect` | `Spec => []TypeOK` |
| `FilesProofs!LossHasACause` | `Spec => []ReadersFindTheFile` |
| `FilesProofs!OrphanHasACause` | `Spec => []NothingLeftBehind` |
| `FilesProofs!RowsKeepApart` | `Spec => []OneRowPerObject` |
| `TeamsProofs!OneDraftOneAtATime` | `Spec /\ []OneAtATime => []OneActiveSubmission` |
| `TeamsProofs!AnswersFinalOneAtATime` | `Spec /\ []OneAtATime => AnswerIsFinal` |
| `WorkflowProofs!SubmittedStaysOneAtATime` | `Spec /\ []OneAtATime => SubmittedIsImmutable` |
| `WorkflowProofs!OneLetterOneAtATime` | `Spec /\ []OneAtATime => []OneResponseLetter` |
| `GradingProofs!OneAssessmentOneAtATime` | `Spec /\ []OneAtATime => []OneAssessment` |
| `GradingProofs!LockedKeepsOneAtATime` | `Spec /\ []OneAtATime => LockedKeepsScores` |
| `LettersProofs!SignedWithCurrentOneAtATime` | `Spec /\ []OneAtATime => []SignedWithCurrent` |
| `LogbooksProofs!OnlyPendingOneAtATime` | `Spec /\ []OneAtATime => OnlyPendingChanges` |
| `SessionsProofs!LoginLeavesOneAtATime` | `Spec /\ []OneAtATime => LoginLeavesOne` |
| `SessionsProofs!SelectedIsKeptOneAtATime` | `Spec /\ []OneAtATime => SelectedIsKept` |

The inductive invariants have one shape.  One part says what the rows satisfy, one what each request
still knows after what it has read may have changed (`ReqOK`, `TaskOK`), and a step relation (`Lasting`,
`Keeps`, `Grows`) says what no step takes away from the others.  One lemma concludes from the relation
that the requests that do not move keep their part, so every action needs an argument only about its own
request and the one row it writes.  The relation is where the code's habits show: ids are not used twice,
and what a later statement relies on is written once or only grows.

*Teams.*  None of the properties is inductive.  `TeamsInv` adds that a row that is there belongs to a
team that is there, that a leader's row is accepted and its student the leader, that any other row was
made by one of its two parties (`RowOK`), and that a request which remembers a row to delete or answer
remembers an ordinary one, of which its caller is a party (`ReqOK`).  This outlives any number of
statements because a row never changes team, student, role or maker, and a team never its leader, while
they are there (`Lasting`).  `LeaderSeated` and `FixedTeamHasDraft` each name the requests that may be at
fault; `SeatsKept` and `DraftsKept` say that the request that moves takes its place in that list, leaves it
with the work done, or is in `crashed`.  `PagesAgree` then needs no induction: in a team that has its leader's
row, that row is accepted, so the services' fallbacks for "no accepted row" and "no leader" are never taken.

*Teams, the refinement.*  `TeamsInv` does not say why a team has one leader's row, or why nobody is asked
into a team before it.  `Apart` does, in two parts.  Of the rows (`RowsApart`): an ordinary row is never for
the leader of its team, and an id that was never used has no answer.  Of the requests (`SeekOK`,
`SeatersApart`): while the team is there, whoever is about to invite or to join finds its leader's row in
it and asks for somebody other than the leader, and whoever is about to insert the leader's row is the
only one and finds none.  Most steps write one row or none: for each kind there is a lemma that says
how `Circles` and `PlacesSeen` change with it (`RowWriteStays`, `PlaceTaken`, `AnswerSeen`, `WithdrawSeen`,
`FoundSeen`, `DisbandSeen`), and `UntouchedUnseen` says that nothing changes for the promise where the two
tables do not.  Each action is then a step of the promise or a stutter (`StepIsPromised`).

*Workflow.*  Every write is by id, so what a submission's row satisfies cannot depend on
what a request has checked: the inductive invariant has to be a fact about single rows
(`RowOK`) that **every** write establishes from whatever the row was.  It adds to
`VerdictsAgree` only the dosen's half, and needs of a request merely that it remembers a
submission and, once it has chosen a letter number, the number (`RequestOK`).  That this
suffices is the reason why the four columns cannot disagree although the interleavings
break other claims.  `InternshipsFollow` has its own invariant about the members a
request still has to serve.  `ViewsAgree` follows from `RowOK`: the views' rules differ, but not on a row
that satisfies it.

*Grading.*  A scoring is six statements.  `GradingInv` says what it holds on the way: its lecturer's row
(rows are never deleted), and a total that is either still the assessment's or marked as `revised`.
A fact about the bounds is needed as well: an insert in flight finds a free id (`EnoughIds`, a counting
argument with the library's theorems on finite sets).  `TotalFitsColumns` is arithmetic about a sum of five
weighted criteria: each statement that writes some columns writes the total of the row it makes.

*Mentor requests and logbooks.*  `MentorInv` says how far each approval got: past `approve.find` it has an
account of the address it read, past `approve.assign` that account is a mentor's, past `approve.signature` it
has its row.  Accounts, signatures and `mentored` only grow, so a request that was slow is still right;
the one thing that changes under it is the address, which is what `overlapped` records (`Alone`: no two
requests work on a row that is not in it).  `StatusesInTurn` follows from the same two facts: whoever is alone on a row still
finds the status it looked for (`Turns`).  `LogbooksProofs` extends this module: the mentor requests keep
`MentorInv`, the logbook's requests leave it alone, and what they rely on (`TaskOK`: who passed
`getMentees` is in `mentored`) is again a set that only grows.

*Letters.*  `NoStrayLetters` is not inductive: nothing in it says that the key a late
approval deletes holds its own letter and no row's.  `Inv` adds what each request knows
about the letter it works on (`ReqOK`), that keys of uploads in flight are apart
(`KeysApart`), and what a row's file and signature are (`RowOK`).  Five lemmas say what
kinds of steps there are (a request only moves, a row is written, an object is
stored, one is deleted, others are undisturbed); each action is then an instance of one of
them.  With `Inv`, a step is one of `LetterPromise` or leaves what it sees unchanged.

*Sessions.*  What a step writes into a row was read in an earlier step, so `Inv` says of each
request that its memory fits the row it names, *if* that row is still there (`ReqOK`).  This stays
true because ids are never issued twice (`RowsIssued`) and a snapshot that a row has does not change
(`Keeps`); `OneSettledSession` follows since only a completed login leaves `callback.delete`, and
its DELETE names every session of the user but its own.

*Files.*  `Inv` adds that a key in a request's hands is in nobody else's (`KeysApart`,
`HolderOK`), that the key a request means to replace is of no other row (`OldOK`) and is gone before
the row is written (`GoneOK`).  Then every action is an instance of one kind of step (`Shape`), and
six lemmas show that such a step keeps each part of `Inv`.

*One at a time.*  Ten claims of section 5 are refuted by overlapping requests, and the last ten theorems
say that nothing else refutes them: they hold in every behaviour in which at most one request is in flight
(`OneAtATime`), with deaths, repeated calls and one-statement writes at any time.  In `Logbooks` it is the
requests on the logbook that do not overlap; those for a mentor may.  `Calm` is the invariant: the request
in flight still has in front of it what it looked up (the pending entry it checked, the signature it read,
the session it selected or inserted, which may have expired but is not deleted).  Most steps lead to no
place that trusts an earlier look (`Careless`, `Unrelated`, `Settles`); the few that write on trust end the
request or leave it at a place that trusts nothing.  So a lock per team, submission, letter, entry,
internship or user, or a condition in the UPDATE as `Letters` has for its decisions, is all these handlers
lack.  No such theorem is stated for `ApprovedIsAssigned` of `MentorRequests`: an approval that dies between
assigning and writing breaks it without an overlap.

Every safety property and action property of the passing runs is proved.  Only model-checked are the five
liveness properties (`FinalizationCompletes`, `InternshipsCreated`, `GradedEnds`, `LoginsSettle`, `LossEnds`):
they rest on weak fairness, and so on `ENABLED`, which these proofs cannot express.  The run that expects a
violation and the claims of section 5 are counterexamples; what is proved about ten of these is where the
counterexample has to come from.  No module uses recursion.

## 5. What the code does not keep

Some claims of messages, comments or migrations are refuted by the interleavings, or by
a plain sequence of calls.  `files_answer` is a run of its own that ends in a counterexample:
`deleteResponseLetter` deletes a path with a month in it, where `uploadFile` never put anything, so
the file of a deleted response letter stays in the bucket (`findings` in `PROJECT.json` quotes the
claim).  The others are defined at the end of their modules; each has been refuted by TLC when
it is put in place of the properties of the run named here.  "P" marks an action property, given as a
PROPERTY; the others are given as an INVARIANT.

| property | claim | what refutes it | see it with |
|---|---|---|---|
| `OneActiveSubmission` | one non-archived submission per team (`0036_archive_submissions.sql:12`) | two creations look and then insert (`submission.service.ts:195`) | `teams_lifecycle` |
| `OneTeamPerStudent` | "Each student can only join one team" (`team.service.ts:83`) | a leader is accepted into another team (`:79`) | `teams_members` |
| `TeamSizeLimit` | at most three members (`:901`) | counted when a row is asked for, not when it is accepted (`:900`) | `teams_members` |
| `AnswerIsFinal` (P) | "already responded" (`:495`) | two answers both read PENDING (`:579`) | `teams_members` |
| `FixedTeamNeedsLetterToGo` (P) | a FIXED team goes after a response letter only (`:272`) | accepting an invitation disbands one's own teams (`:565`) | `teams_members`, `Ops` with `"finalize"` |
| `ReadersAreMembers` | "Anda bukan anggota tim ini" (`response-letter.service.ts:62`) | a row of any status counts as membership | (a) |
| `InternsAreMembers` | internships "for all team members" (`:797`) | also for who has not answered or refused | `teams_members` |
| `InboxIsAnswerable` | "invitations for user" (`team.service.ts:716`) | one's own requests to join are among them | `teams_members` |
| `ListShowsMembers` | the dosen's list shows the team's members (`surat-kesediaan.service.ts:302`) | every row counts | `teams_members` |
| `MembersHaveAccess` | only a non-member is refused (`submission.service.ts:458`) | an old, rejected row of a member may be the one that is read | (a) |
| `ListShowsItsTeam` | the team beside a request is the one it was made in (`surat-permohonan.service.ts:312`) | any team of the student's is shown | (a) |
| `MyAnswerIsOurs` | "the most recent submission for this team" (`response-letter.repository.ts:405`) | the query does not name the team: the latest submission of anybody is taken | (a) |
| `HistoryPreserved` (P) | a snapshot "for history preservation" (`response-letter.service.ts:102`) | the page prefers the rows of today | (a) |
| `ResetIsComplete` | an archived submission means the team "was reset" (`team-reset.service.ts:77`) | the team is unfixed last | (a) |
| `SubmittedIsImmutable` (P) | "tidak dapat diubah" (`submission.service.ts:269`) | an edit that checked before writes after (`:277`) | `workflow_review` |
| `AdminDecidesPending` (P) | only in PENDING_ADMIN_REVIEW (`admin.service.ts:538`) | two admins, or an admin and a dosen's rejection: both write by id (`:626`) | `workflow_review` |
| `NumberNotTaken` | re-approvals meet no unique index (`:607`) | a dosen's rejection keeps the signed letter under its number | `workflow_review` with two `Subs` and `Numbers`, four `DocIds`, one member, one request, no deaths |
| `OneResponseLetter` | "sudah pernah disubmit" (`response-letter.service.ts:68`) | two hand-ins look and then insert (`:66`) | `workflow_answer`, two `RespIds` |
| `SignedLetterAfterAdmin` (P) | "belum disetujui admin" (`surat-pengantar-dosen.service.ts:259`) | checking a response letter signs whatever the admin decided (`response-letter.service.ts:334`) | `workflow_answer` |
| `NextStepFitsCard` | next step and card agree (`mahasiswa.service.ts:400`) | the legacy status of a rejection reads "wait for review" beside the card "rejected" | `workflow_review` |
| `OneFinalLetter` | one final letter on both pages (`response-letter.service.ts:166`) | the answer's page shows it when the student's view hides it | `workflow_answer` |
| `QueueHasFile` | what waits has a file (`surat-pengantar-dosen.service.ts:232`) | a cover letter removed meanwhile | `workflow_review` |
| `DashboardCountsQueue` | the counter counts the queue (`dosen.service.ts:124`) | it looks at fields the queue's entries do not have | `workflow_review` |
| `SignatureIsMembers` | the signature is the member's (`surat-permohonan.service.ts:244`) | the asking student's is stored for a teammate | `letters`, two `Members` |
| `SignedWithCurrent` | a letter is built from its request | reject and ask again during an approval | `letters` |
| `OnePermohonanWaits` | one pending request (`:240`) | look, then insert; a rejected row asked again beside a newer one, no overlap needed | `letters` |
| `OneTitle` | one title | look, then insert (`reporting.service.ts:78`); the fast track inserts without a look, no overlap needed | `reporting` |
| `ApprovedHasSupervisor` | an approved title has a supervisor | the fast track and a scoring; no overlap needed | `reporting` |
| `OneAssessment`, `LockedKeepsScores` (P) | one assessment, locked once given | look, then insert; check, then write (`mentor.service.ts:302`, `:340`) | `grading` |
| `GradeIsCurrent` | the grade is that of the assessment | computed once, from what was there (`assessment.service.ts:24`) | `grading` |
| `RejectedIsNotApproved` (P) | "Only pending requests can be approved" (`mentor-workflow.service.ts:307`) | an approval that read it before | `mentor_requests` |
| `ColumnIsCurrentPa` | "Only the assigned Dosen PA" (`:322`) | the column outlives the office | `mentor_requests`, two `Dosens` |
| `OneAccountPerEmail` | "Check first, then create if missing" (`:329`) | approvals overlap, or the lookup fails and counts as "missing" | `mentor_requests` |
| `ApprovedIsAssigned` | an approved row names the internship's mentor | two approvals assign in one order and write in the other | `mentor_requests` |
| `SupervisorIsAssigned` | the mentor is `pembimbingLapanganId` (`mentor.service.ts:370`) | the fallback accepts the mentor of any approved request | `logbooks` |
| `OnlyPendingChanges` (P) | "only PENDING entries can be updated" (`logbook.repository.ts:160`) | an approval between check and write | `logbooks` |
| `ApprovedHasNoReason` | the reason is that of a rejection | approving leaves it | `logbooks` |
| `LoginLeavesOne` (P) | other sessions are deleted (`auth.service.ts:626`) | two logins delete each other's | `sessions` |
| `SelectedIsKept` (P) | the answer names the chosen identity (`:670`) | the row is gone when it is written | `sessions` |
| `LinksAreServed` | the answer's link (`response-letter.service.ts:162`) | its folder is not one the asset route serves (`assets.route.ts:61-73`) | `files_answer` |
| `EntryTakesItsPhoto` | replaced photos are deleted (`logbook.service.ts:164`) | a deleted entry leaves its photo | `files_answer` with `RowIds = {l1}` |

(a) `teams_members` with two students, one request, two `SubIds` and all endpoints
(`"create"`, `"invite"`, `"respond"`, `"join"`, `"leave"`, `"remove"`, `"cancel"`, `"finalize"`, `"draft"`,
`"reset"`, `"letter"`).

`GradedEnds` holds up to `cut`: when a scoring ends between its last two statements, every later one
fails at the unique index, and nothing marks the internship SELESAI any more.

`OneActiveSubmission`, `AnswerIsFinal`, `SubmittedIsImmutable`, `OneResponseLetter`, `OneAssessment`,
`LockedKeepsScores`, `SignedWithCurrent`, `OnlyPendingChanges`, `LoginLeavesOne` and `SelectedIsKept` need overlapping requests to fail (section 4, *one at a time*), and
`RejectedIsNotApproved` two requests on the same row (`StatusesInTurn`).

The two abstract specifications show the contrast.  Where the UPDATE names the status it expects, the
interleavings do no harm: `LetterPromise` has one decision per round.  Where it names the id only, the
promise has to be weaker: an `Answer` of `MembershipPromise` may come on top of another one.

## 6. Plan

1. `Teams`, `Workflow`, `Letters`, `Grading`, `MentorRequests`, `Logbooks`, `Sessions`, `Files`, the two
   view modules and their runs (done).
2. The proofs of every safety property and action property of the runs, and of ten claims that only
   overlapping requests break (done).
3. `MembershipPromise`, the abstract specification of membership, and the proof that `Teams` implements it
   (done).
4. The status history column in `Workflow` (lost entries).
5. A composition of `Teams` and `Workflow` over the shared submissions (reset and deletion
   while a review is in flight), each of them shown to be implemented.

## 7. Not modelled

The layout of documents; validation of inputs (the models take any request that passes it); roles and
access rights other than the checks that decide what a handler writes or whose page a row is on;
migrations; counts, statistics, searches and the sorting of lists; the recap of grades and its PDF; the zip
of an internship's documents.

State that is left out: the status history column and `audit_logs` (logs that no handler reads to decide);
requests for another e-mail address of a mentor (checked PENDING, then marked APPROVED or REJECTED by id;
the comment beside it says that nothing is done with them yet); `archivedAt` of internships, which only
`archiveInternship` writes; activation tokens, which the repository can store and no service does;
`submitLogbook`, which touches `updated_at`.
