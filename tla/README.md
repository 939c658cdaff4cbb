# Verification of the incident-report backend

This directory holds TLA+ models of the backend of the repository (and of the
browser's paperwork editors), TLC configurations that check them on small
instances, and TLAPS proofs that every safety property the passing runs check holds for
every size of the system. Source paths below are relative to `src/`.

## 1. The system

An officer describes an incident; the application keeps the incident and the
reports written about it as revision histories in PostgreSQL, sends AI jobs
through Cloud Tasks to a private worker that calls a language model, and applies
the results to those same documents. Around them it keeps accounts and sessions,
the paperwork of the unit, packets of forms, a roster, and a policy question
service. Many clients, dispatcher runs and worker requests act at once. Almost
every write is a transaction that locks rows, checks a base revision, appends a
revision and completes an idempotency record.

| Component | State | Operations | Hard behaviour |
|---|---|---|---|
| AI jobs (`backend/jobs`, `backend/worker/routes.py`) | `ai_jobs`, `task_outbox`, the Cloud Tasks queue, worker requests | submit, dispatch, deliver, claim, preflight, provider call, apply, fail, release, lease expiry | at-least-once delivery, leases that run out, crashes between steps, results about facts that moved on |
| Idempotency (`identity/idempotency.py`) | `idempotency_records` | claim, complete, replay, reclaim after 24 h | concurrent duplicates, the expiry boundary, claims committed before a paid call |
| Incidents (`reports/persistence.py`) | `incidents`, `incident_revisions`, the official number | create, save, restore, AI result | objects loaded before the lock stay stale; two incidents want one number |
| Reports (`reports/revisions.py`, `reports/persistence.py`) | `reports`, `report_revisions`, `report_access` | save, status, restore, recovery, transfer, AI result | recovery numbers that never become current, retries, ownership moving back and forth |
| Accounts and sessions (`identity/accounts.py`, `sessions.py`) | staff, accounts, sessions, renewal history | sign in, lock, renew, log out, revoke, administer | stale account objects, lost increments of `auth_version`, the last administrator, rollbacks of attempts |
| Elevation and handoffs (`identity/elevation.py`, `browser_handoffs.py`) | elevated sessions, step-up tokens, handoffs, Review Lab sessions | confirm a PIN, spend a token, hand off, redeem | one confirmation, two requests; a key burned by a wrong PIN |
| Paperwork (`backend/paperwork`, the browser editors) | records, revisions, receipts; what a page holds | create, save, restore, copy, derive, print | base check before the claim, reads before the lock, answers that come late or never |
| Packets (`backend/forms`) | packet items, form instances, acknowledgments | build, add, remove, dismiss, populate, edit, acknowledge, print | reconciliation from an unlocked read |
| Report generation (`reports/service.py`, `generator.py`, ...) | the wizard of the page, the output of a pass | classify, extract, answer gaps, generate, second pass | a second request that replaces the first one's result; overlapping rewrites of names |
| Policy questions (`pipeline/`) | one question's search | gate, search, read, draft | citations by position in lists that are filtered differently |
| Roster store (`reports/roster_store.py`) | one GCS object, a cache per instance | read, compare-and-swap update | retried mutations, uploads without an answer, stale cache |
| Operator jobs (`jobs/admin_bootstrap.py`, `roster_import.py`) | accounts, secret versions, the staff table | run once by an operator | secret written before the commit; a plan older than the table |
| Exports (`reports/export_service.py`) | `exports`, audit events, idempotency records | one revision, an archive | statements of one archive around concurrent saves, replays |
| Lists (`api_v1/pagination.py` and the queries) | cursors | first page, next page | rows that move between pages, late commits |
| HTTP adapters, other browser pages, infrastructure | little or none | render, parse, show, deploy | through the services they call |

Jobs, incidents and reports meet in the documents: users save while a job runs,
the worker reads bases at its preflight and compares them when it applies. The
idempotency records stand in front of every write. Access rows of reports decide
who may write and whether a job may still apply. Accounts and sessions decide who
a request is, elevation whether it may administer. Packets read incidents, exports
read reports, and lists read everything.

What makes each part correct: a job's result is published exactly once and only
onto the facts it was computed from, and no job is lost; a key acts once; no write
replaces something its author had not seen; access follows ownership; an ended
session stays out and somebody can always administer; a confirmation authorises
one thing; what a page calls saved is saved; a required form is answered; invented
facts are flagged; a citation leads to what was cited; a list shows every row
nobody touched, once. `PROJECT.json` lists the hazards behind these at their lines.

## 2. The modules

One action is one database transaction, or the part of it between an unlocked read
and the commit, or one call to an outside service. SQLAlchemy does not refresh a
loaded object when its row is later selected `FOR UPDATE`; wherever a handler loads
before it locks, the model keeps what was loaded in the request and works with that.

### JobPipeline, with JobLifecycle

One incident with its reports and the jobs about them.

| Code | Model |
|---|---|
| `submit_job` and its outbox row | `Submit` |
| `SqlOutboxRepository.pending`, `create_task`, `mark_dispatched` / `mark_failure` | `ReadPending`, `CreateTask`, `Mark`: three steps, each may be the last of a run (`DispatcherCrash`) |
| Cloud Tasks: named tasks, redelivery, `queue_max_attempts` | `Deliver`, `Ack`, `Nack`, and `task`, `tries` (external) |
| `JobProcessor.run` | the control points `pc` of a worker request |
| `claim_job` (`FOR UPDATE SKIP LOCKED`) and the second, unlocked read of `_claim` | `Claim`; `ClaimMiss` and `MissedRead`, two steps |
| `_preflight`, `_mark_provider_started`, `_call_engine` | `Preflight`, `MarkProviderStarted`, `CallEngine`, `EngineAnswers` |
| `_apply` up to the incident's lock: the job locked, the requester read (`_actor`, no lock) | `BeginApply` |
| the rest of `_apply`, `_apply_report_results`, `apply_job_result`, `save_report`, `save_incident` | `Apply`; for an engine that returns `report_content`, which reads the report without a lock, `Apply` and `SaveReport` |
| `_mark_terminal`, `_release_transient` | `MarkTerminal`, `ReleaseTransient` |
| saves, transfers, deactivation by people | `UserSave`, `Transfer`, `SetActor` |

`token[j]` is the attempt number, which changes exactly when the claim token does.
Time is the predicate `expired[j]`: the lease has run out by the clock of whoever
looks. A clock read before a lock wait is covered, since `LeaseExpires` may come
any time. A rolled-back transaction or a deadlock abort is `DependencyError`.
A preflight records the report bases it finds, so an edit between submission and
preflight is a base of the job, as in the code.

`_actor` reads account and staff member once, before the transaction waits for the
incident, and nobody looks again: a requester who is deactivated while it waits still
gets his result. `AppliedOnlyWhenEntitled` says what the code does guarantee: he was
active when the application began, and has access to everything written when it
commits. A generate job looks its reports up by type and owner when it applies;
`Targets` are those reports from the start.

Left out: `available_at` and backoff (any delay is allowed), task names (never
reused by the code), the state `cancelled` (nothing writes it), audit rows and
metrics, refusals for inactive reporting staff and malformed targets, and classify
jobs bound to a report.

`JobLifecycle` is what the job API promises: queued, running, over, the result in
the documents in the step that makes the job succeed, on the revision it was
submitted for. `ImplementsLifecycle` is the refinement, with `phase <- state`,
`basis <- base`, `rev <- cur[Incident]` and `published` computed from the history.

### Idempotency

`record[k]` is the row as its last writer left it, `lock[k]` the request whose open
transaction wrote or locked it, `saved[k]` what a rollback restores. `InsertClaim`,
`InsertConflicts` and `SelectClaim` are the two statements of
`claim_idempotency`; `began[r]` is the `now` a route reads before it waits.
`Perform` is the transactional command. A policy question instead runs
`CommitClaim`, `CallProvider` and `Settle` or `FailProvider`; the keys
in `SettledKeys` are those of `api_v1/policy.py`; `web_api/policy.py` leaves the
record of a failed question in progress for its 24 hours, so `NoStrandedKey` is
about the former. Where the write that settles a failure fails as well, the route
swallows it and answers 503 (`LoseSettlement`): the key stays in progress, which is,
beside a crash, the one exception in `NoStrandedKey`. Replays of a policy question carry no stored answer; the model
records only whose result they stand for.

A request lasts less than a day (`Tick`): Cloud Run ends requests after minutes,
and a question has a budget of 90 seconds. `complete_idempotency` does not check
who claimed the record; this is what keeps that harmless.

### IncidentRecord

`Load` is the unlocked `get_incident`, `Write` everything from the lock to the
commit. Base check, next number and carried identity use `seen[r]`; the unique
constraints `uq_incident_revisions_parent_number` and
`uq_incidents_incident_number` decide (`RevisionFree`, `NumberFree`), and `_write`
turns collisions into answers (`RefuseStale`, `RefuseNumber`). Administrators restore
through their own route and set the records status, which appends a revision too
(`ChangeStatus`). `number` stands for
`incident_number` and `incident_name`; the reporting selection does not change
after creation.

### ReportRevisions

The reports of one type of one incident. Commands hold the report lock and their
idempotency record for their whole transaction, so `Run(c)` is one step; `Replay`,
`Refuse` and `Expire` are what else can happen to a command a client sends again.
`Save`, `SaveStatus`, `Restore`, `Recover` and `Transfer` are the operations,
`SaveResult` and `CreateReport` the worker, which JobPipeline has in detail. A
transfer to an officer who has a report of the type fails on the unique constraint
and is answered as a revision conflict (`Collides`), as the code does. The
administrators' routes give the same answer when PostgreSQL aborts the transaction
for a deadlock; that is not modelled.

### Identity

Staff, accounts and sessions under both HTTP surfaces. A request is `Begin` (the
check of its token, which loads session and account) and later one command;
`Loaded` is what its ORM session has, `Flush` writes only the changed fields.
`LogoutAllRows`/`LogoutAll` are the two lock waits of `logout_all`; the commands of
administrators lock the account and take its sessions with `NOWAIT` (`CanRevoke`,
else `Abort`). Sign-in and renewal work on fresh rows. A wrong PIN (`RefuseSignIn`)
is committed by the bearer route and rolled back by the browser route; the reuse of
a replaced token (`RenewReused`) likewise. `LockAfter` is the five attempts.

### AdminControls

`ConfirmInBrowser`, and `ClaimConfirmation` followed by `ConfirmByBearer` or
`RefuseConfirmation`, are the PIN confirmations; a command (`Perform`) spends a
step-up token in the transaction that completes its idempotency record, `Replay`
answers from the record but spends a token too, as the code does.
`IssueHandoff` and `Redeem` open a Review Lab session. What ends or expires
sessions is `EndSessions`, `OnOrOffDuty`, `Logout` and `RunOut`. A claimed
confirmation key is completed by the commit, deleted after a wrong PIN and taken back
by the rollback of whatever else fails (`Abort`); `NoKeyBurned` says that no key is
left claimed without an open request. A PIN confirmed by a request whose session was
ended after the request was authenticated still elevates that session, as in the code;
no property forbids it, since the session is refused at its next request.

### Paperwork

The service, and the pages that call it. A call is one fetch with one idempotency
key; `Send` starts it, the service runs it (`Save`, `Create`, `ReadPrevious` and
`SaveCopy`, `ReadRoster` and `SaveDerived`, `ReadRecord` and `Restore` or `Act`),
`Redeliver` is a transport that delivers it twice, `Lose` a page that gives up
waiting, `Hear` its answer arriving. `AcceptRoster` and `AcceptForm` are what the
two kinds of editor do with a saved record. Content is the id of the text typed.

### Packets

`BeginPacket` is the unlocked read of the incident; `Build`, `AddForm` and
`RecordAction` lock the packet afterwards. `Plan(n)` is the checklist of a
revision. Requests about one item (`RemoveForm`, `MarkNotApplicable`, `Populate`,
`SaveManual`, `Acknowledge`, `ClearAcknowledgment`) lock it first.

### ReportGeneration

The wizard of `templates/reports.html` and the classify, generate and disciplinary
jobs of the worker over one pipeline. A text is a sequence of facts, mentions (full, short,
bare) and closing phrases; the models are free to write any of `Drafts` or fail.
`Finalize` is what every pass does: naming enforcement (position by position), the
check for invented facts, the style rules, of which RW-030 is silent without notes.
`GenSupplement` is the second request for the disciplinary report, and
`GenSupplementJob` the job that writes it over the owner's first-person report.

`MatchWhole` and `MatchPart` are the patterns of `name_fixer.py`. A surname that one
person on the list has is a pattern of its own, and also matches inside a mention of
somebody else of that surname; what is left of such a mention stands for nobody
(`"mixed"`). So naming enforcement can spoil a mention of an unlisted person, and
`MentionsAreKept` says nothing of those, nor of lists on which two people share
title and surname, whom a short form cannot tell apart. Left out: edits of the notes
between two passes.

### PolicySearch

`Gate`, `Classify`, `Search`, `Read` and `Draft` are the steps of
`answer_question`, each of which may find the deadline passed (`RunOutOfTime`).
The selection of passages (`SelectPassages`), the inference of citations
(`InferCitations`) and the renumbering (`Renumber`) are functions of sequences. What
the code does in a loop is said by which positions are kept (`Elements`), so that
the proofs count positions where the code counts rounds.

### RosterStore, Operations, Exports, Listings

`RosterStore`: `Fetch`, `Write` (with `if_generation_match`), `WriteUnanswered` (the
client library repeats an upload that had arrived), `Conflict`, `Retry`; reads fill a
cache under a lock. `Operations`: the bootstrap job with every answer `add_version`
and the commit may have (`EndBootstrap`: its result is printed, unless the rollback
raises and `main` returns without a word), and the roster import, whose plan, report and application
are three steps. `Exports`: the statements of an export, `View` being the snapshot
of its REPEATABLE READ transaction. `Listings`: a walk through a list, each page a
query of its own. `created` stands for the revision number in the lists of revisions.
`/paperwork/daily` shows the newest 50 records without a cursor and is not among them.

### Composition

JobPipeline composes jobs with documents and people. JobLifecycle is implemented by
JobPipeline. `MCLibrary` puts the modules that share no state side by side: each
behaviour picks a `part` and is a behaviour of that part's module; the others stand
still. `MCJobScenarios` likewise picks a `scenario`, because repeated deliveries and
two jobs at once are more than TLC can explore together.

## 3. What is checked

All runs switch deadlock checking off: the saves, deliveries, requests and
revisions a run allows are bounded, and a state in which all are used up is the
end of the run, not of the system. Every `.cfg` names its bounds.
Symmetry is used where only safety properties are checked: over the workers in
`job_results`, the commands in `report_edits`, people, sessions and requests in
`accounts_and_sessions` and `sign_in_misses`, calls and records in `paperwork`, the
packet requests in `library`.

| Run | Instance | Shows |
|---|---|---|
| `job_results` | a job bound to a report that is transferred, an engine that may hand over `report_content`, two overlapping requests, two deliveries; or the same of an incident's job; or two jobs for the same reports, one of which does not exist yet | each result once, for the entitled, on current facts, over nobody's work; repeated provider calls recorded; conflicts only after newer work |
| `job_one_at_a_time` | a job bound to a report, an engine that may hand over `report_content`, one delivery at a time, two dispatchers, three deliveries | no stranded job, the lifecycle, every job ends |
| `idempotent_command` | a command sent twice, two different questions under another key, records that expire | once a day, true replays, no stranded key, everybody answered |
| `report_edits` | one report that an AI result creates, three officers, two commands of all kinds sent any number of times, four revisions, an officer who leaves | nothing overwritten, once per command, access follows ownership |
| `accounts_and_sessions` | two people, two sessions, two open requests | ended sessions stay out; commands of administrators never leave no active administrator account, only wrong PINs may |
| `paperwork` | a roster, an inspection and a count sheet on three pages, three calls | whole histories, once per call, true provenance, saved is saved, typed work kept |
| `library` | ten parts, see below | seventeen properties of the parts |
| `job_duplicate_delivery` | two overlapping deliveries | **violation** (finding 1) |
| `incident_number_lost` | two incidents | **violation** (finding 2) |
| `sign_in_misses` | one person, lock after two | **violation** (finding 3) |
| `classification_unusable` | one classification job | **violation** (finding 4) |
| `audit_pages` | the audit list, pages of one | **violation** (finding 5) |

The parts of `library`: two incidents, one number, two racing commands and AI results
(`NothingOverwritten`); two sessions of one administrator, two tokens, two requests
(`OneUsePerConfirmation`, `NoKeyBurned`, `LabOpenedByAdmin`); three forms, two
revisions, two overlapping packet requests (`RequiredIsAnswered`,
`FormsNeverGoBack`); three passages, two results, a summary (`CitationsAreMeant`);
an officer and an inmate of one surname, two questions, two passes
(`InventedIsFlagged`, `MentionsAreKept`, `ReportsAreKept`); pairs of colliding
roster edits on two instances (`NoEditIsDropped`, `OneEntryPerNumber`); two
bootstraps (`NoStrayPin`); two imports and an edit (`ImportIsWhole`); two requests
for two exports, two saves, an expiry (`ArchiveIsOneMoment`, `RecordedOnce`); four
rows, pages of one, two edits (`UntouchedShownOnce`).

The bounds are the smallest in which the interesting orders occur: two claims and a
late worker need two requests and two deliveries; a conflict between results needs
two jobs; returning a report to its first owner needs two transfers; a recovery
between two saves needs four revisions; a session that outlives its ending needs a
stale request beside the one that ends it; a late answer needs a second call of the
same page; a stale build needs two revisions and two requests; an edit between pages
needs a row on each side of the cursor.

**Fairness.** `JobPipeline!FairSpec`: the scheduler starts the dispatcher over and
over, and although it may crash or fail each time, a step that is possible again
and again eventually succeeds (strong fairness of `CreateTask` and `Mark`);
Cloud Tasks keeps delivering a queued task; a worker request that is not cut off
continues; leases run out. Crashes and dependency errors get no fairness and may
go on until the queue gives up, which `EveryJobEnds` allows for.
`Idempotency!FairSpec`: a request that is not cut off goes on. A lock wait ends
because its holder is such a request. The other modules state safety only.

### Findings

1. `_claim` (`backend/worker/routes.py:487-493`) skips a locked row and then
   trusts an unlocked second read; a delivery that finds the job `queued` reports
   success and its task is dropped. If the other delivery of that task then dies
   with its job queued again, nothing will run the job. With one delivery at a
   time the property holds.
2. `restore_incident_record` (`backend/reports/persistence.py:588`) writes the source
   revision's identity as it is; restoring a revision from before the number was
   assigned clears the number, against the plan and `carry_forward_identity`.
3. The browser's `login_route` (`web_api/auth.py:222`) lets `InvalidCredentials`
   leave the transaction, so the failed attempt is rolled back: the lock after five
   wrong PINs only exists on the bearer route.
4. The worker (`worker/routes.py:196`) accepts `charges` only as strings, the engine
   wired in returns dicts: a classification with a suggested charge always fails.
5. `list_events` (`api_v1/admin_audit.py:208`) builds a cursor of fields the codec
   refuses, so that an audit list longer than a page fails. The revision list of
   daily paperwork (`web_api/admin_daily_paperwork.py:498`) would, past 100 revisions.

Other disagreements with the documents met while modelling, without a run of their own:

* With an injected engine that returns `report_content`, the report is loaded before
  it is locked (`worker/routes.py:670`) and the base check uses the old object. The
  engine wired into the service never returns it. `ResultsNeverOverwrite` excepts
  that one case, the report of such an engine's job that is bound to it, and nothing
  else.
* `list_incident_summaries` (`reports/incident_library.py:358`) falls back on the
  officers of the reports only when no incident of the page has a selection, the
  administrators' page for each incident by itself: a page that mixes both kinds
  leaves names out.
* When an administrator's restore collides with a number in use, or his transfer with
  a report the new owner has, the routes (`web_api/admin_incidents.py:503`,
  `api_v1/admin_reports.py:489`) answer that the record changed and should be
  reloaded, which it did not.
* `name_fixer.py` rewrites a surname inside the name of an unlisted person of that
  surname, so that a text about "Officer John Smith" may come to name the listed Smith
  in part.
* A corrected row that the operator approved is written over an edit made on the page
  since the plan was read (`jobs/roster_import.py:282`); `ImportIsWhole` is about what
  an import may change, not about that edit.
* A second generation pass returns only its own errors (`reports/service.py:502-517`),
  so that a first pass's failed report is no longer announced, although its
  placeholder text is still there.
* A paperwork save delivered twice answers the second delivery with a conflict
  (`paperwork/service.py:214`); `copy_previous_daily_record` says that the record
  exists (`:343`). Nothing is written twice (`OncePerCall`).
* `CountSheetPage` and the daily editors other than the roster replace the draft by the
  saved record, and what was typed while the save ran is gone; `TypedWorkKept` is a
  property of the roster editor. A daily form prints the revision on record while an
  unsaved draft is on the page.
* The answer of the bootstrap's commit may be lost after it took effect; the job then
  reports an orphan PIN that is in fact an administrator's.
* Reuse of a replaced renewal token is rolled back on the browser route, and
  `update_staff` takes the last administrator's staff member off duty without a check.
* `web_api/policy.py` leaves the key of a failed question in progress for a day.

## 4. What is proved

Every safety invariant and action property that a passing run checks is also a
theorem: it holds for every value of the constants that satisfies the assumption of
its module, under the whole next-state relation, with no bound on how many jobs,
people, requests or rows there are. So is the refinement of `JobLifecycle`.
`PROJECT.json` names the theorem of each property. The bounds of the runs
(`MaxRevision`, `MaxSaves` and so on) are constants like any other.

* `JobPipelineProofs` builds on three invariants.
  - `Inv == TypeOK /\ OpenApplicationIsolated /\ ResultExactlyOnce`. Exactly-once is
    not inductive alone: a two-step application publishes later than it checks, and
    meanwhile its job must stay running and unpublished, which is the isolation of
    open applications, which in turn rests on the row locks. `FateIsFinal`,
    `ResultsOnCurrentFacts` and `ResultsOnlyForTheEntitled` follow step by step, and so
    does `PipelineImplementsLifecycle`: one lemma per group of actions, each a step
    of `JobLifecycle` or none. The second half of a split application is the only case
    that needs more than guards.
  - `JInv` adds the books of claims and bases (`Bookkept`): a claim is known by its
    attempt number, what is done under an old number is caught by `ClaimHeld`, and
    documents only move forward, so that a base is never ahead of its document and a
    conflict that was met stays one. `RepeatedCallsAreRecorded`, `ConflictsAreReal` and
    `ResultsStandOnTheirBase` follow.
  - `SInv`, under the assumption that deliveries do not overlap (`OneAtATime`), says
    that a task is only deleted by an answer that an ended job earned (`AcksEarned`).
    `NoJobIsStranded` follows. Finding 1 is the step at which it fails otherwise.
* `IdempotencyProofs`. `KeysActOncePerDay`: an uncommitted record has a live owner
  (`LocksHeld`), a request at work owns its claim (`ClaimsOwned`) and is younger than
  a day (`RequestsShort`), a request that met a record met one that is still there
  (`MetRecord`), and every effect is covered by a record that outlives it by a day
  (`EffectsRecorded`), which is what makes a second claim start a day later.
  `ReplaysAreTrue` and `KeysNeverStrand` use `TInv`: what a committed record says is
  true (`RecordsTrue`), and one in progress has a request that is calling the
  provider, died, could not settle its failure, or failed on a surface that does not
  settle (`KeysAccounted`).
* `IncidentRecordProofs`. A request writes from an object it loaded before the lock;
  the reason nothing is overwritten is that revision numbers have no gap (`NoGap`)
  and are unique, so the number after a stale one is always taken. `Follows` says that
  whatever is promoted continues the row as it is, and `PromoteKeeps` proves the
  properties of revisions from that. `ConflictsAreReal` needs what a request knows
  about its incident (`SeenBefore`).
* `ReportRevisionsProofs`. `Appends` says what every operation does to a report;
  `AppendKeeps` proves the history properties from it, with `NotBeyond` (recoveries
  aside, nothing is newer than the current revision) as the strengthening. Access is
  proved by operation (`NewPair`). That a command takes effect once rests on `Marks`,
  which ties each revision to its command and record: without a live record only an
  unchecked command can run again, because a checked one would find its own first
  revision past its base.
* `IdentityProofs`. `EndedForGood`: commands write an `auth_version` computed from a
  stale object and may well write the same one twice, so the version cannot be the
  reason that an ended session stays out. It is that whatever adds a session to `ended`
  revokes it in the same step (`EndedAreRevoked`) and that no step takes a revocation
  back (`KeepsRevocations`). `AdminsAreKept`: the other administrators are counted
  afresh, and the one account a command takes from memory is its own, which was active
  when the request was authenticated (`LoadedActive`); if it has become stale, the
  check is only stricter.
* `AdminControlsProofs`. `ConfirmationsUsedOnce`: a token behind something is used and
  its purpose matches what was recorded (`Authorised`), and no token stands behind two
  things (`OneEach`), which holds because every use finds the token unused under its
  lock. `KeysStayUsable`: a claimed key has an open request that claims it, and whatever
  ends that request settles the key in the same step (`ClaimsStayHeld`).
  `LabsAreOpenedByAdmins` adds that a lab's
  handoff is marked redeemed (`LabsRedeemed`).
* `PaperworkProofs`. One invariant for the five properties: the revisions of a record
  are numbered without gap or repetition (`History`); a call knows the revision it
  wrote and nobody else does (`RowsWritten`); what a call has read is still in the
  history, though the record may have moved on (`CallsTrue`); a page holds a revision
  that exists (`PagesTrue`); and a save that is still fresh carries the text of its
  page (`FreshTrue`), which is why a late answer cannot mark another text as saved.
* `LibraryProofs`, one section per module that `MCLibrary` puts side by side:
  - Packets: the plan of a revision never changes once the revision exists
    (`PlansStay`), and a row is judged by the revision it names, so a build for an older
    revision is as consistent as any other.
  - RosterStore: a copy of the current generation holds the current staff
    (`CopiesBehind`), because each generation belongs to one upload. Then an accepted
    edit was applied to what the last accepted one left. The model remembers each
    accepted edit with what it left (`accepted`), so `NoEditIsDropped` relates
    neighbours and needs no fold over the past.
  - Operations: a bootstrap that holds the lock still finds no account (`LockHeld`)
    and has come as far as its own writes (`Underway`). An import may be applied to a
    table that has changed since its plan; what survives is what the plan was made of
    (`Planned`) and that no row of the start is taken off the table (`StartRowsStay`).
  - Exports: a key belongs to one request until it ends (`OneHolder`), so what a
    transaction found earlier still holds at each later stage (`Sound`).
  - ReportGeneration: a pass replaces the whole result, so flags are judged of one
    pass. For the mentions: what a mention may stand for is read off its text; a
    pattern that is the whole of it belongs to somebody it may stand for
    (`RewritingKeeps`), and every text reads as its draft does (`TextsRead`). What is
    handed back to the second request is only what it resumes (`Awaited`), and texts
    that were rewritten once are not rewritten again.
  - Listings: a page holds the rows of the smallest ranks behind the cursor, and the
    cursor is the last of them (`PageIsWhole`); a row nobody touches keeps its sort
    key, so what is behind the cursor is what was not shown yet (`Walked`).
  - PolicySearch: a sequence cut down to some places keeps their order
    (`PlacesRanked`), a list of cited numbers names each once (`CitedOnce`, a pigeonhole
    argument), so a new number leads back to the old one (`Meant`).
    `SelectionStaysSmall` is about `select_passages` by itself: never more passages
    than asked for, never more of one source than allowed, none twice, the first one
    always. Nothing is stated of its character budget, which bounds a sum: that would
    need induction.

The assumptions on constants are in the modules, named, and evaluated by TLC in each
run. Most say that markers such as `None` are not rows. The others come from the
code: a job targets its incident or reports of it (`JobPipelineAssumption`); the
seed roster `templates/staff_roster.json` lists a number once (`RosterAssumption`);
an export key stands for one request body (`ExportsAssumption`); rows of a list have
ids that can be compared (`ListingsAssumption`); the notes list people, and drafts are
texts (`GenAssumption`).

Only model-checked: the liveness properties `EveryJobEnds` and `EveryRequestAnswered`,
which need fairness and `ENABLED`, and with them the fairness of the specifications.
The prover also has no induction over data; none of the properties needs it, because
sequences that the code builds in loops are defined by their positions, and their
lengths are obtained by counting. The five violations are runs of TLC.

## 5. What is not modelled

* Rendering, parsing, prompts, the wording rules of the style checks, document
  layout, React pages other than the paperwork editors: no state a property could be
  about.
* Deployment and corpus preparation: configuration and sequential scripts. What the
  code relies on from Cloud Tasks and the scheduler is part of JobPipeline.
* Order of row locks. Each transaction locks in one step, a deadlock is an abort.
  `submit_job` and `_preflight` do lock incident and report in opposite orders.
* The rate limiter, the durations of locks, sessions and tokens: time is a choice that
  may come at any moment, which includes every duration.
* The refusals of jobs named above, and the Review Lab's feedback objects, which only
  accumulate.
