----------------------------- MODULE JobPipeline -----------------------------
(***************************************************************************)
(* The AI-job pipeline of one incident: submission with a transactional    *)
(* outbox (backend/jobs), the dispatcher that turns outbox rows into Cloud *)
(* Tasks, the at-least-once queue, and the worker requests that claim a    *)
(* job, call the engine and apply its result (backend/worker/routes.py),   *)
(* together with the users who keep editing the same documents.            *)
(*                                                                         *)
(* One action is one database transaction (its row locks make it atomic)   *)
(* or one call to an outside service.  Two transactions are split because  *)
(* they act on what they read without a lock: the claim, whose miss is     *)
(* explained by a second read, and the application, which reads the        *)
(* requester before it waits for the incident and, for an injected engine, *)
(* the report before it locks it.  Time is the predicate "the lease has    *)
(* run out".                                                               *)
(***************************************************************************)
EXTENDS Naturals, FiniteSets

CONSTANTS
    Jobs,             \* ids of the jobs that may be submitted
    Workers,          \* requests the worker service runs at the same time
    Dispatchers,      \* runs of dispatch_pending that may overlap
    Incident,         \* the incident document
    Reports,          \* the reports the incident has or may get
    InitialReports,   \* those created with the incident
    Targets,          \* Targets[j]: the documents a result of j writes
    Bound,            \* the jobs submitted for one report (report_id set)
    ActorRelated,     \* the requester created the incident or is selected in it
    InjectedContent,  \* the engine may return JobEngineResult.report_content
    MaxDeliveries,    \* queue_max_attempts of the Cloud Tasks queue
    MaxSaves,         \* bound: saves, transfers and (de)activations by people
    User,             \* author of those
    None              \* no job

Docs == {Incident} \cup Reports

ASSUME JobPipelineAssumption ==
    /\ Incident \notin Reports
    /\ InitialReports \subseteq Reports
    /\ User \notin Jobs /\ None \notin Jobs
    /\ Targets \in [Jobs -> SUBSET Docs]
    /\ \A j \in Jobs : Targets[j] = {Incident} \/ Targets[j] \subseteq Reports
    /\ \A j \in Jobs : Targets[j] # {}
    /\ Bound \subseteq {j \in Jobs : \E r \in Reports : Targets[j] = {r}}
    /\ ActorRelated \in BOOLEAN /\ InjectedContent \in BOOLEAN
    /\ MaxDeliveries \in Nat \ {0} /\ MaxSaves \in Nat

VARIABLES
    \* ai_jobs, one row per job.  claim_token is the attempt number: both are
    \* new with every claim.  0 stands for NULL.
    state, token, expired, attempts, base, bases, started, error,
    outbox,           \* task_outbox.state of the job's row
    \* Cloud Tasks: the named task of the job and its delivery attempts
    task, tries,
    \* worker requests: control point, job, claim token, pending failure
    \* code, report revision read without a lock
    pc, at, held, code, seen,
    \* dispatcher runs: rows still to send, row being marked, its outcome
    batch, sent, outcome,
    \* documents: current revision number (0: no such report) and all revisions
    cur, history,
    access,           \* the requester has live report_access to the report
    actorActive,      \* the requester's account and staff member are active
    saves,            \* counts the bounded user actions
    \* what an observer of the provider records: attempts that called it, and
    \* attempts whose claim recorded ai_provider_repeat_risk
    calls, risks

jobRow   == <<state, token, expired, attempts, base, bases, started, error>>
queue    == <<task, tries>>
request  == <<pc, at, held, code, seen>>
dispatch == <<batch, sent, outcome>>
content  == <<cur, history>>
people   == <<access, actorActive, saves>>
observed == <<calls, risks>>
vars == <<jobRow, outbox, queue, request, dispatch, content, people, observed>>

Terminal == {"succeeded", "failed"}
States   == {"none", "queued", "running"} \cup Terminal
Codes    == {"none", "job_result_conflict", "job_authorization_invalid",
             "job_output_invalid"}
Points   == {"idle", "claim", "missed", "preflight", "check", "mark", "engine",
             "calling", "apply", "applying", "saving", "fail", "release", "ack", "nack"}
Revision == [doc : Docs, n : Nat, by : Jobs \cup {User}]

\* The control points at which the request may be inside a transaction that
\* holds the row lock of its job.
Holding == {"applying", "saving"}     \* an application that spans several steps
Locking == {"claim", "preflight", "mark", "apply", "fail", "release"} \cup Holding

Init ==
    /\ state = [j \in Jobs |-> "none"]
    /\ token = [j \in Jobs |-> 0]
    /\ expired = [j \in Jobs |-> FALSE]
    /\ attempts = [j \in Jobs |-> 0]
    /\ base = [j \in Jobs |-> 0]
    /\ bases = [j \in Jobs |-> [r \in Reports |-> 0]]
    /\ started = [j \in Jobs |-> 0]
    /\ error = [j \in Jobs |-> "none"]
    /\ outbox = [j \in Jobs |-> "none"]
    /\ task = [j \in Jobs |-> "none"]
    /\ tries = [j \in Jobs |-> 0]
    /\ pc = [w \in Workers |-> "idle"]
    /\ at = [w \in Workers |-> None]
    /\ held = [w \in Workers |-> 0]
    /\ code = [w \in Workers |-> "none"]
    /\ seen = [w \in Workers |-> 0]
    /\ batch = [d \in Dispatchers |-> {}]
    /\ sent = [d \in Dispatchers |-> None]
    /\ outcome = [d \in Dispatchers |-> "none"]
    /\ cur = [d \in Docs |-> IF d = Incident \/ d \in InitialReports THEN 1 ELSE 0]
    /\ history = {[doc |-> d, n |-> 1, by |-> User] :
                    d \in {Incident} \cup InitialReports}
    /\ access = [r \in Reports |-> r \in InitialReports]
    /\ actorActive = TRUE
    /\ saves = 0
    /\ calls = [j \in Jobs |-> {}]
    /\ risks = [j \in Jobs |-> {}]

-----------------------------------------------------------------------------
(* Row locks held across steps: an application holds its job row, and the   *)
(* incident row as well once it has got it.                                 *)
JobLocked(j)   == \E w \in Workers : pc[w] \in Holding /\ at[w] = j
IncidentLocked == \E w \in Workers : pc[w] = "saving"

\* The live access row _authorize_incident locks for someone who is neither
\* creator nor selected staff; _authorize_incident_target asks the same again.
LiveAccess == \E r \in Reports : access[r]
IncidentAuthorized == ActorRelated \/ LiveAccess

\* _authorize_bound_report
BoundAuthorized(j) == j \in Bound => \A r \in Targets[j] : access[r]

Goto(w, p) == pc' = [pc EXCEPT ![w] = p]

Idle(w) ==
    /\ Goto(w, "idle")
    /\ at' = [at EXCEPT ![w] = None]
    /\ held' = [held EXCEPT ![w] = 0]
    /\ code' = [code EXCEPT ![w] = "none"]
    /\ seen' = [seen EXCEPT ![w] = 0]

\* The request leaves with a TerminalJobFailure that _mark_terminal records.
FailWith(w, c) ==
    /\ Goto(w, "fail")
    /\ code' = [code EXCEPT ![w] = c]
    /\ UNCHANGED <<at, held, seen>>

Move(w, p) == Goto(w, p) /\ UNCHANGED <<at, held, code, seen>>

-----------------------------------------------------------------------------
(* Submission: one transaction writes the job, its outbox row, the          *)
(* idempotency record and the audit event.                                  *)

\* submit_job
NewJob(j) ==
    /\ IncidentAuthorized /\ BoundAuthorized(j)
    /\ state' = [state EXCEPT ![j] = "queued"]
    /\ base' = [base EXCEPT ![j] = cur[Incident]]
    /\ outbox' = [outbox EXCEPT ![j] = "pending"]

\* The route commits what submit_job did, or rolls it back and refuses.
Submit(j) ==
    /\ state[j] = "none"
    /\ actorActive /\ ~IncidentLocked
    /\ NewJob(j)
    /\ UNCHANGED <<token, expired, attempts, bases, started, error, queue,
                   request, dispatch, content, people, observed>>

-----------------------------------------------------------------------------
(* Dispatcher: dispatch_pending.                                            *)

\* pending(): an unlocked read; available_at and the limit select a subset.
ReadPending(d) ==
    /\ batch[d] = {} /\ sent[d] = None
    /\ \E rows \in SUBSET {j \in Jobs : outbox[j] = "pending"} \ {{}} :
         batch' = [batch EXCEPT ![d] = rows]
    /\ UNCHANGED <<jobRow, outbox, queue, request, sent, outcome, content,
                   people, observed>>

\* create_task of a deterministically named task.  A name is never reused, so
\* a task that exists or existed answers AlreadyExists; an error may be
\* reported after the task was created.
CreateTask(d, j, result) ==
    /\ sent[d] = None /\ j \in batch[d]
    /\ sent' = [sent EXCEPT ![d] = j]
    /\ batch' = [batch EXCEPT ![d] = @ \ {j}]
    /\ outcome' = [outcome EXCEPT ![d] = result]
    /\ \/ task[j] = "none" /\ task' = [task EXCEPT ![j] = "queued"]
       \/ (result # "dispatched" \/ task[j] # "none") /\ UNCHANGED task
    /\ UNCHANGED <<jobRow, outbox, tries, request, content, people, observed>>

\* Faulty: a send that is to be retried is recorded as dispatched.
MarkAlways(d) ==
    /\ sent[d] # None
    /\ outbox' = [outbox EXCEPT ![sent[d]] = IF @ = "pending" THEN "dispatched" ELSE @]
    /\ sent' = [sent EXCEPT ![d] = None]
    /\ outcome' = [outcome EXCEPT ![d] = "none"]
    /\ UNCHANGED <<jobRow, queue, request, batch, content, people, observed>>

\* mark_dispatched and mark_failure: only a row that is still pending moves.
Mark(d) ==
    /\ sent[d] # None
    /\ outbox' = [outbox EXCEPT ![sent[d]] =
                    IF @ = "pending" /\ outcome[d] # "retry" THEN outcome[d] ELSE @]
    /\ sent' = [sent EXCEPT ![d] = None]
    /\ outcome' = [outcome EXCEPT ![d] = "none"]
    /\ UNCHANGED <<jobRow, queue, request, batch, content, people, observed>>

\* The dispatcher's process ends before it has marked everything it sent.
DispatcherCrash(d) ==
    /\ batch[d] # {} \/ sent[d] # None
    /\ batch' = [batch EXCEPT ![d] = {}]
    /\ sent' = [sent EXCEPT ![d] = None]
    /\ outcome' = [outcome EXCEPT ![d] = "none"]
    /\ UNCHANGED <<jobRow, outbox, queue, request, content, people, observed>>

-----------------------------------------------------------------------------
(* Cloud Tasks: delivers a queued task at least once, also while an earlier *)
(* delivery is still being worked on, up to MaxDeliveries times.            *)
Deliver(w, j) ==
    /\ pc[w] = "idle" /\ task[j] = "queued" /\ tries[j] < MaxDeliveries
    /\ Goto(w, "claim")
    /\ at' = [at EXCEPT ![w] = j]
    /\ tries' = [tries EXCEPT ![j] = @ + 1]
    /\ UNCHANGED <<jobRow, outbox, task, held, code, seen, dispatch, content,
                   people, observed>>

\* A 2xx answer deletes the task.
Ack(w) ==
    /\ pc[w] = "ack"
    /\ task' = [task EXCEPT ![at[w]] = IF @ = "queued" THEN "acked" ELSE @]
    /\ Idle(w)
    /\ UNCHANGED <<jobRow, outbox, tries, dispatch, content, people, observed>>

\* Any other answer keeps the task, unless its attempts are used up.
Refused(w) ==
    /\ task' = [task EXCEPT ![at[w]] =
                  IF @ = "queued" /\ tries[at[w]] >= MaxDeliveries
                  THEN "exhausted" ELSE @]
    /\ Idle(w)
    /\ UNCHANGED <<jobRow, outbox, tries, dispatch, content, people, observed>>

Nack(w) == pc[w] = "nack" /\ Refused(w)

\* The worker instance dies or the request is cut off: an open transaction
\* rolls back, the queue sees a failed delivery.
WorkerCrash(w) == pc[w] # "idle" /\ Refused(w)

-----------------------------------------------------------------------------
(* Worker: JobProcessor.run.                                                *)

\* The lease of a running claim runs out.
LeaseExpires(j) ==
    /\ state[j] = "running" /\ ~expired[j]
    /\ expired' = [expired EXCEPT ![j] = TRUE]
    /\ UNCHANGED <<state, token, attempts, base, bases, started, error, outbox,
                   queue, request, dispatch, content, people, observed>>

\* claim_job: queued, or running with an expired lease; a fresh token.  A
\* provider attempt left over by an earlier claim becomes a repeat risk.
ClaimableAgain(j) ==            \* faulty: ended jobs are claimed again
    state[j] # "none" /\ (state[j] = "running" => expired[j])
Claimable(j) == state[j] = "queued" \/ (state[j] = "running" /\ expired[j])

Claim(w) ==
    LET j == at[w] IN
    /\ pc[w] = "claim" /\ Claimable(j) /\ ~JobLocked(j)
    /\ state' = [state EXCEPT ![j] = "running"]
    /\ attempts' = [attempts EXCEPT ![j] = @ + 1]
    /\ token' = [token EXCEPT ![j] = attempts[j] + 1]
    /\ expired' = [expired EXCEPT ![j] = FALSE]
    /\ started' = [started EXCEPT ![j] = 0]
    /\ risks' = [risks EXCEPT ![j] =
                   IF started[j] # 0 THEN @ \cup {attempts[j] + 1} ELSE @]
    /\ held' = [held EXCEPT ![w] = attempts[j] + 1]
    /\ Goto(w, "preflight")
    /\ UNCHANGED <<base, bases, error, outbox, queue, at, code, seen, dispatch,
                   content, people, calls>>

\* FOR UPDATE SKIP LOCKED finds no row: the row does not qualify (a clock read
\* before the lease ran out counts), or another request has it locked.
ClaimMiss(w) ==
    /\ pc[w] = "claim"
    /\ \/ state[at[w]] # "queued"
       \/ \E v \in Workers \ {w} : at[v] = at[w] /\ pc[v] \in Locking
    /\ Move(w, "missed")
    /\ UNCHANGED <<jobRow, outbox, queue, dispatch, content, people, observed>>

\* Faulty: a lease still active counts as nothing to do.
MissedReadAcks(w) ==
    /\ pc[w] = "missed"
    /\ Move(w, "ack")
    /\ UNCHANGED <<jobRow, outbox, queue, dispatch, content, people, observed>>

\* The second, unlocked read of _claim: a running job is retried later, any
\* other state counts as nothing to do.
MissedRead(w) ==
    /\ pc[w] = "missed"
    /\ Move(w, IF state[at[w]] = "running" THEN "nack" ELSE "ack")
    /\ UNCHANGED <<jobRow, outbox, queue, dispatch, content, people, observed>>

\* The claim of the request is the job's current one.  The clock is read
\* before the row is locked, so an expired lease may still pass the check.
ClaimHeldByAnyone(w) == state[at[w]] # "none"            \* faulty: no check
ClaimHeld(w) == state[at[w]] = "running" /\ token[at[w]] = held[w]

\* StaleJobClaim: the delivery is retried, the job is left as it is.
StaleClaim(w) ==
    /\ pc[w] \in {"preflight", "mark", "engine", "apply"}
    /\ \/ ~ClaimHeld(w)
       \/ expired[at[w]] /\ pc[w] # "engine"
    /\ Move(w, "nack")
    /\ UNCHANGED <<jobRow, outbox, queue, dispatch, content, people, observed>>

\* A database or service error in a transaction or call of the request.
DependencyError(w) ==
    /\ pc[w] \in {"preflight", "check", "mark", "engine", "apply"} \cup Holding
    /\ Move(w, "release")
    /\ UNCHANGED <<jobRow, outbox, queue, dispatch, content, people, observed>>

\* apply_job_result / _mark_terminal: the job row of a failed job.
FailRow(j, c) ==
    /\ state' = [state EXCEPT ![j] = "failed"]
    /\ error' = [error EXCEPT ![j] = c]
    /\ token' = [token EXCEPT ![j] = 0]
    /\ expired' = [expired EXCEPT ![j] = FALSE]
    /\ UNCHANGED <<attempts, base, bases, started>>

BaseIsKnown(j) == cur[Incident] >= base[j]     \* faulty: accepts newer facts
BaseIsCurrent(j) == cur[Incident] = base[j]

\* The requester may still do what the job does, as _preflight sees it.
PreflightAuthorized(j) ==
    /\ IncidentAuthorized
    /\ Targets[j] # {Incident} /\ j \notin Bound => ActorRelated

BoundAccess(j) == j \in Bound => \A r \in Targets[j] : access[r]

\* _preflight: checks the claim, the requester, the bound report and the base,
\* and records the report revisions the result will build on.  The requester is
\* read without a lock here too, but nothing this transaction writes depends on
\* it: an account deactivated before the commit is one deactivated after it.
Preflight(w) ==
    LET j == at[w] IN
    /\ pc[w] = "preflight" /\ ClaimHeld(w) /\ ~JobLocked(j) /\ ~IncidentLocked
    /\ \/ /\ ~actorActive \/ ~BoundAccess(j)
          /\ FailWith(w, "job_authorization_invalid")
          /\ UNCHANGED jobRow
       \/ /\ actorActive /\ BoundAccess(j) /\ ~BaseIsCurrent(j)
          /\ FailRow(j, "job_result_conflict")
          /\ Move(w, "check")
       \/ /\ actorActive /\ BoundAccess(j) /\ BaseIsCurrent(j)
          /\ ~PreflightAuthorized(j)
          /\ FailWith(w, "job_authorization_invalid")
          /\ UNCHANGED jobRow
       \/ /\ actorActive /\ BoundAccess(j) /\ BaseIsCurrent(j)
          /\ PreflightAuthorized(j)
          /\ bases' = [bases EXCEPT ![j] =
                         [r \in Reports |-> IF r \in Targets[j] THEN cur[r] ELSE 0]]
          /\ Move(w, "check")
          /\ UNCHANGED <<state, token, expired, attempts, base, started, error>>
    /\ UNCHANGED <<outbox, queue, dispatch, content, people, observed>>

\* run(): a preflight that ended the job ends the request.
CheckTerminal(w) ==
    /\ pc[w] = "check"
    /\ Move(w, IF state[at[w]] \in Terminal THEN "ack" ELSE "mark")
    /\ UNCHANGED <<jobRow, outbox, queue, dispatch, content, people, observed>>

\* Faulty: the provider attempt leaves no trace in the row.
MarkNothing(w) ==
    /\ pc[w] = "mark" /\ ClaimHeld(w) /\ ~JobLocked(at[w])
    /\ Move(w, "engine")
    /\ UNCHANGED <<jobRow, outbox, queue, dispatch, content, people, observed>>

\* _mark_provider_started: durable before the provider is called.
MarkProviderStarted(w) ==
    /\ pc[w] = "mark" /\ ClaimHeld(w) /\ ~JobLocked(at[w])
    /\ started' = [started EXCEPT ![at[w]] = held[w]]
    /\ Move(w, "engine")
    /\ UNCHANGED <<state, token, expired, attempts, base, bases, error, outbox,
                   queue, dispatch, content, people, observed>>

\* _call_engine: an unlocked check of the token, then the provider.
CallEngine(w) ==
    /\ pc[w] = "engine" /\ ClaimHeld(w)
    /\ calls' = [calls EXCEPT ![at[w]] = @ \cup {held[w]}]
    /\ Move(w, "calling")
    /\ UNCHANGED <<jobRow, outbox, queue, dispatch, content, people, risks>>

\* The engine answers: a valid result, an invalid one, or a transient error.
EngineAnswers(w) ==
    /\ pc[w] = "calling"
    /\ \/ Move(w, "apply")
       \/ Move(w, "release")
       \/ FailWith(w, "job_output_invalid")
    /\ UNCHANGED <<jobRow, outbox, queue, dispatch, content, people, observed>>

NotDenied(j) == FALSE                          \* faulty: access not rechecked
UnrecordedOrNew(j) == \E r \in Targets[j] : bases[j][r] = 0  \* faulty: refuses shells
NeverMoved(j, rev) == FALSE                    \* faulty: no base check

\* What _apply_report_results refuses: an existing report without live access,
\* an existing report that was not there at preflight, and (in save_report,
\* after all of those) a revision other than the recorded one.  The reports of
\* a job that is not bound are found by type and owner each time; that a report
\* changes owner and leaves its place to another one is not modelled.
Denied(j)     == \E r \in Targets[j] : cur[r] > 0 /\ bases[j][r] > 0 /\ ~access[r]
Unrecorded(j) == \E r \in Targets[j] : cur[r] > 0 /\ bases[j][r] = 0
Moved(j, rev) == \E r \in Targets[j] : rev[r] # bases[j][r]

Refusal(j, rev, c) ==
    \/ c = "job_authorization_invalid" /\ Denied(j)
    \/ c = "job_result_conflict" /\ Unrecorded(j)
    \/ c = "job_result_conflict" /\ ~Denied(j) /\ Moved(j, rev)

\* save_report / save_incident of every target, and apply_job_result: the
\* revisions and the succeeded job row commit together.
Publish(j) ==
    /\ cur' = [d \in Docs |-> IF d \in Targets[j] THEN cur[d] + 1 ELSE cur[d]]
    /\ history' = history \cup
         {[doc |-> d, n |-> cur[d] + 1, by |-> j] : d \in Targets[j]}
    /\ access' = [r \in Reports |-> access[r] \/ (r \in Targets[j] /\ cur[r] = 0)]
    /\ state' = [state EXCEPT ![j] = "succeeded"]
    /\ token' = [token EXCEPT ![j] = 0]
    /\ expired' = [expired EXCEPT ![j] = FALSE]
    /\ UNCHANGED <<attempts, base, bases, started, error, actorActive, saves>>

Unpublished == UNCHANGED <<content, people>>

\* _apply: a new transaction that locks the job, checks the claim and reads the
\* requester (_actor, no lock).  It then waits for the incident's lock.
BeginAnyway(w) ==                              \* faulty: requester not read again
    /\ pc[w] = "apply" /\ ClaimHeld(w) /\ ~JobLocked(at[w])
    /\ Move(w, "applying")
    /\ UNCHANGED <<jobRow, outbox, queue, dispatch, content, people, observed>>

BeginApply(w) ==
    /\ pc[w] = "apply" /\ ClaimHeld(w) /\ ~JobLocked(at[w])
    /\ \/ actorActive /\ Move(w, "applying")
       \/ ~actorActive /\ FailWith(w, "job_authorization_invalid")
    /\ UNCHANGED <<jobRow, outbox, queue, dispatch, content, people, observed>>

\* The rest of it, with the incident locked: base and access once more, then
\* the result.  The account may have been deactivated while it waited.
Apply(w) ==
    LET j == at[w] IN
    /\ pc[w] = "applying" /\ ~IncidentLocked
    /\ \/ /\ ~BaseIsCurrent(j)
          /\ FailRow(j, "job_result_conflict") /\ Unpublished
          /\ Move(w, "ack")
       \/ /\ BaseIsCurrent(j) /\ ~IncidentAuthorized
          /\ FailWith(w, "job_authorization_invalid")
          /\ UNCHANGED jobRow /\ Unpublished
       \/ /\ BaseIsCurrent(j) /\ IncidentAuthorized
          /\ Targets[j] = {Incident}
          /\ Publish(j) /\ Move(w, "ack")
       \/ /\ BaseIsCurrent(j) /\ IncidentAuthorized
          /\ Targets[j] # {Incident}
          /\ \/ \E c \in Codes : /\ Refusal(j, cur, c)
                                 /\ FailWith(w, c)
                                 /\ UNCHANGED jobRow /\ Unpublished
             \/ /\ \A c \in Codes : ~Refusal(j, cur, c)
                /\ Publish(j) /\ Move(w, "ack")
       \/ \* an injected engine's report_content: the report is read unlocked
          /\ BaseIsCurrent(j) /\ IncidentAuthorized
          /\ InjectedContent /\ j \in Bound
          /\ \E r \in Targets[j] : seen' = [seen EXCEPT ![w] = cur[r]]
          /\ Goto(w, "saving")
          /\ UNCHANGED <<jobRow, at, held, code>> /\ Unpublished
    /\ UNCHANGED <<outbox, queue, dispatch, observed>>

\* The rest of that transaction: the report is locked now, but the session
\* keeps the attributes it has already loaded, so the base check sees `seen`.
SaveReport(w) ==
    LET j == at[w]
        rev == [r \in Reports |-> seen[w]]
    IN
    /\ pc[w] = "saving"
    /\ \/ \E c \in Codes : /\ Refusal(j, rev, c)
                           /\ FailWith(w, c)
                           /\ UNCHANGED jobRow /\ Unpublished
       \/ /\ \A c \in Codes : ~Refusal(j, rev, c)
          /\ Publish(j) /\ Move(w, "ack")
    /\ UNCHANGED <<outbox, queue, dispatch, observed>>

\* _mark_terminal: a terminal job is left alone; a lost claim escapes as an
\* error, the delivery is retried.
MarkTerminal(w) ==
    LET j == at[w] IN
    /\ pc[w] = "fail" /\ ~JobLocked(j)
    /\ \/ /\ state[j] \in Terminal
          /\ Move(w, "ack") /\ UNCHANGED jobRow
       \/ /\ state[j] \notin Terminal /\ ~ClaimHeld(w)
          /\ Move(w, "nack") /\ UNCHANGED jobRow
       \/ /\ ClaimHeld(w)
          /\ FailRow(j, code[w]) /\ Move(w, "ack")
    /\ UNCHANGED <<outbox, queue, dispatch, content, people, observed>>

\* _release_transient: gives the claim back, if it is still this request's.
ReleaseTransient(w) ==
    LET j == at[w] IN
    /\ pc[w] = "release" /\ ~JobLocked(j)
    /\ IF ClaimHeld(w)
       THEN /\ state' = [state EXCEPT ![j] = "queued"]
            /\ token' = [token EXCEPT ![j] = 0]
            /\ expired' = [expired EXCEPT ![j] = FALSE]
       ELSE UNCHANGED <<state, token, expired>>
    /\ Move(w, "nack")
    /\ UNCHANGED <<attempts, base, bases, started, error, outbox, queue,
                   dispatch, content, people, observed>>

-----------------------------------------------------------------------------
(* The people around the pipeline.                                          *)

\* A user saves the incident or a report on top of its current revision.
UserSave(d) ==
    /\ saves < MaxSaves /\ cur[d] > 0
    /\ d = Incident => ~IncidentLocked
    /\ cur' = [cur EXCEPT ![d] = @ + 1]
    /\ history' = history \cup {[doc |-> d, n |-> cur[d] + 1, by |-> User]}
    /\ saves' = saves + 1
    /\ UNCHANGED <<jobRow, outbox, queue, request, dispatch, access,
                   actorActive, observed>>

\* transfer_report_ownership takes the requester's access or gives it back;
\* it also appends a revision.
Transfer(r) ==
    /\ saves < MaxSaves /\ cur[r] > 0
    /\ access' = [access EXCEPT ![r] = ~@]
    /\ cur' = [cur EXCEPT ![r] = @ + 1]
    /\ history' = history \cup {[doc |-> r, n |-> cur[r] + 1, by |-> User]}
    /\ saves' = saves + 1
    /\ UNCHANGED <<jobRow, outbox, queue, request, dispatch, actorActive, observed>>

\* An administrator deactivates or reactivates the requester.
SetActor ==
    /\ saves < MaxSaves
    /\ actorActive' = ~actorActive
    /\ saves' = saves + 1
    /\ UNCHANGED <<jobRow, outbox, queue, request, dispatch, content, access,
                   observed>>

-----------------------------------------------------------------------------
Results == {"dispatched", "retry", "failed"}

DispatcherStep(d) ==
    \/ ReadPending(d) \/ Mark(d) \/ DispatcherCrash(d)
    \/ \E j \in Jobs, result \in Results : CreateTask(d, j, result)

WorkerStep(w) ==
    \/ Claim(w) \/ ClaimMiss(w) \/ MissedRead(w) \/ StaleClaim(w)
    \/ Preflight(w) \/ CheckTerminal(w) \/ MarkProviderStarted(w)
    \/ CallEngine(w) \/ EngineAnswers(w)
    \/ BeginApply(w) \/ Apply(w) \/ SaveReport(w)
    \/ MarkTerminal(w) \/ ReleaseTransient(w) \/ Ack(w) \/ Nack(w)

PeopleStep ==
    \/ \E d \in Docs : UserSave(d)
    \/ \E r \in Reports : Transfer(r)
    \/ SetActor

Next ==
    \/ \E j \in Jobs : Submit(j) \/ LeaseExpires(j)
    \/ \E d \in Dispatchers : DispatcherStep(d)
    \/ \E w \in Workers, j \in Jobs : Deliver(w, j)
    \/ \E w \in Workers : WorkerStep(w) \/ DependencyError(w) \/ WorkerCrash(w)
    \/ PeopleStep

Spec == Init /\ [][Next]_vars

(* The dispatcher is started over and over and eventually gets through; the *)
(* queue keeps delivering a queued task; a request that is not cut off goes *)
(* on; time passes.                                                         *)
Fairness ==
    /\ \A d \in Dispatchers :
         /\ WF_vars(ReadPending(d)) /\ SF_vars(Mark(d))
         /\ \A j \in Jobs : SF_vars(CreateTask(d, j, "dispatched"))
    /\ \A j \in Jobs : /\ WF_vars(\E w \in Workers : Deliver(w, j))
                       /\ WF_vars(LeaseExpires(j))
    /\ \A w \in Workers : WF_vars(WorkerStep(w))

FairSpec == Spec /\ Fairness

-----------------------------------------------------------------------------
(* Properties.                                                              *)

RowsTyped ==
    /\ state \in [Jobs -> States] /\ token \in [Jobs -> Nat]
    /\ expired \in [Jobs -> BOOLEAN] /\ attempts \in [Jobs -> Nat]
    /\ base \in [Jobs -> Nat] /\ bases \in [Jobs -> [Reports -> Nat]]
    /\ started \in [Jobs -> Nat] /\ error \in [Jobs -> Codes]

QueueTyped ==
    /\ outbox \in [Jobs -> {"none", "pending", "dispatched", "failed"}]
    /\ task \in [Jobs -> {"none", "queued", "acked", "exhausted"}]
    /\ tries \in [Jobs -> Nat]

RequestsTyped ==
    /\ pc \in [Workers -> Points] /\ at \in [Workers -> Jobs \cup {None}]
    /\ held \in [Workers -> Nat] /\ code \in [Workers -> Codes]
    /\ seen \in [Workers -> Nat]
    /\ \A w \in Workers : pc[w] # "idle" => at[w] \in Jobs

DispatchTyped ==
    /\ batch \in [Dispatchers -> SUBSET Jobs]
    /\ sent \in [Dispatchers -> Jobs \cup {None}]
    /\ outcome \in [Dispatchers -> Results \cup {"none"}]
    /\ \A d \in Dispatchers : sent[d] # None => outcome[d] \in Results

ContentTyped == cur \in [Docs -> Nat] /\ history \subseteq Revision

PeopleTyped ==
    access \in [Reports -> BOOLEAN] /\ actorActive \in BOOLEAN /\ saves \in Nat

ObservedTyped == calls \in [Jobs -> SUBSET Nat] /\ risks \in [Jobs -> SUBSET Nat]

\* Every variable holds a value the schema and the code allow, and a request
\* or dispatcher that is not idle is at work on a job.
TypeOK ==
    /\ RowsTyped /\ QueueTyped /\ RequestsTyped /\ DispatchTyped
    /\ ContentTyped /\ PeopleTyped /\ ObservedTyped

\* However often a job is delivered, claimed and retried, it leaves exactly one
\* revision in each of its documents if it succeeded, and none otherwise
\* (apply_job_result and the saves of _apply commit together).
ResultExactlyOnce ==
    \A j \in Jobs, d \in Docs :
        LET own == {h \in history : h.by = j /\ h.doc = d} IN
        IF state[j] = "succeeded" /\ d \in Targets[j]
        THEN \E h \in history : own = {h}
        ELSE own = {}

\* While an application is under way its job is running and no other request
\* applies it; once it has read the report of an injected engine, the incident
\* stays at the job's base and no second application has the incident (the row
\* locks taken by _apply).
OpenApplicationIsolated ==
    /\ \A w \in Workers : pc[w] \in Holding => state[at[w]] = "running"
    /\ \A v, w \in Workers :
         pc[v] \in Holding /\ pc[w] \in Holding /\ at[v] = at[w] => v = w
    /\ \A w \in Workers : pc[w] = "saving" => cur[Incident] = base[at[w]]
    /\ \A v, w \in Workers : pc[v] = "saving" /\ pc[w] = "saving" => v = w

\* Every revision number of a document up to the current one was given to
\* exactly one revision, whoever saved (users, transfers, workers).
OneRevisionPerNumber ==
    /\ \A g, h \in history : g.doc = h.doc /\ g.n = h.n => g = h
    /\ \A h \in history : h.n \in 1..cur[h.doc]
    /\ \A d \in Docs : \A n \in 1..cur[d] : \E h \in history : h.doc = d /\ h.n = n

\* A result sits directly on the revision its job was based on: the submitted
\* incident revision, or the report revision recorded by the preflight of the
\* claim that applied it.  No save in between, and no result of another job
\* that creates the same report, is overwritten.  (The one exception is what an
\* injected engine returns for a bound report, which reads the report before it
\* locks it.)
ResultsNeverOverwrite ==
    \A h \in history : h.by \in Jobs /\ ~(InjectedContent /\ h.by \in Bound) =>
        h.n = 1 + (IF h.doc = Incident THEN base[h.by] ELSE bases[h.by][h.doc])

\* A job recorded as job_result_conflict met newer work: its incident or one of
\* its reports has moved past the recorded base.
ConflictIsReal ==
    \A j \in Jobs : error[j] = "job_result_conflict" =>
        \/ cur[Incident] > base[j]
        \/ \E r \in Targets[j] \cap Reports : cur[r] > bases[j][r]

\* When two claims of a job both called the provider, a claim in between has
\* recorded the repeat risk (provider_attempt_started is durable before the
\* call and consumed by the next claim).
RepeatRiskRecorded ==
    \A j \in Jobs : \A a, b \in calls[j] :
        a < b => \E c \in risks[j] : a < c /\ c <= b

\* A job that has not ended can still be moved: its row waits for the
\* dispatcher, its task for the queue, or a request is at work on it.  Except
\* when create_task was rejected for good or the queue used up its attempts.
NoStrandedJob ==
    \A j \in Jobs : state[j] \in {"queued", "running"} =>
        \/ outbox[j] \in {"pending", "failed"}
        \/ task[j] \in {"queued", "exhausted"}
        \/ \E w \in Workers : at[w] = j

\* The fate of a job is written once: succeeded and failed rows never change
\* (TERMINAL_STATES guards in apply_job_result and _mark_terminal).
TerminalIsFinal ==
    [][\A j \in Jobs : state[j] \in Terminal =>
         UNCHANGED <<state[j], token[j], attempts[j], bases[j], error[j]>>]_vars

\* Access taken away while the engine was running, or while the application
\* waited for its locks, stops the result: it is published only while the
\* requester has access to every report it writes and to the incident (asked
\* before the unlocked read of an injected engine's report).  The account is
\* asked once more after the engine's answer, when the application begins; one
\* deactivated later, while the application waits, does not stop it.
AppliedOnlyWhenEntitled ==
    [][/\ \A w \in Workers : pc[w] \notin Holding /\ pc'[w] \in Holding => actorActive
       /\ \A j \in Jobs : state[j] # "succeeded" /\ state'[j] = "succeeded" =>
            /\ \/ IncidentAuthorized
               \/ \E w \in Workers : pc[w] = "saving" /\ at[w] = j
            /\ \A r \in Targets[j] \cap Reports : cur[r] > 0 => access[r]]_vars

\* A result is applied only while the incident is at the revision the job was
\* submitted for, report results included.
AppliedOnCurrentFacts ==
    [][\A j \in Jobs : state[j] # "succeeded" /\ state'[j] = "succeeded" =>
         cur[Incident] = base[j]]_vars

\* The pipeline implements the lifecycle its clients see: whatever the queue
\* and the workers do, a client observes only the steps of JobLifecycle.
Lifecycle == INSTANCE JobLifecycle WITH
    WritesIncident <- {j \in Jobs : Targets[j] = {Incident}},
    phase <- state, basis <- base, rev <- cur[Incident],
    published <- {j \in Jobs : \E h \in history : h.by = j}

ImplementsLifecycle == Lifecycle!Spec

\* Every submitted job ends, unless its dispatch was rejected for good or the
\* queue gave up on it.
EveryJobEnds ==
    \A j \in Jobs : state[j] = "queued" ~>
        state[j] \in Terminal \/ outbox[j] = "failed" \/ task[j] = "exhausted"
=============================================================================
