----------------------------- MODULE Idempotency -----------------------------
(***************************************************************************)
(* Idempotency-Key records (backend/identity/idempotency.py) and the two   *)
(* ways the routes use them.  A transactional command claims its key, does *)
(* its work and completes the record in one transaction.  A command of the *)
(* Policy Expert commits the claim before it calls the paid provider and   *)
(* completes the record afterwards: a key in SettledKeys belongs to        *)
(* backend/webapp/api_v1/policy.py, the others to web_api/policy.py.       *)
(*                                                                         *)
(* A request is one delivery of a command; the retries of a command are    *)
(* requests with the same key and digest.  An uncommitted record is held   *)
(* by lock[k], and saved[k] is what a rollback brings back.                *)
(***************************************************************************)
EXTENDS Naturals

CONSTANTS
    Requests, Keys,     \* a key stands for (actor, action, Idempotency-Key)
    KeyOf, DigestOf,    \* of each request
    ProviderKeys,       \* the keys of policy questions
    SettledKeys,        \* those whose failed calls complete the record
    Day,                \* life of a record; requests are shorter
    MaxTime,            \* bound of the clock
    Nobody

ASSUME IdempotencyAssumption ==
    /\ KeyOf \in [Requests -> Keys] /\ DigestOf \in [Requests -> Nat]
    /\ SettledKeys \subseteq ProviderKeys /\ ProviderKeys \subseteq Keys
    /\ Day \in Nat \ {0} /\ MaxTime \in Nat /\ Nobody \notin Requests

VARIABLES
    clock,
    record,     \* idempotency_records by key, as the last writer left it
    lock,       \* the request whose open transaction wrote or locked it
    saved,      \* the committed record underneath an open transaction
    pc, began,  \* control point and `now` of each request
    answer,     \* what the request was answered, and whose result it repeats
    effects     \* committed changes and provider calls

vars == <<clock, record, lock, saved, pc, began, answer, effects>>

NoRecord == [status |-> "none", digest |-> 0, expires |-> 0, of |-> Nobody]
Records  == [status : {"none", "in_progress", "completed"}, digest : Nat,
             expires : Nat, of : Requests \cup {Nobody}]
Answers  == {"none", "performed", "failed", "replayed", "conflict",
             "in_progress", "unsettled", "lost"}
Effects  == [by : Requests, key : Keys, at : Nat]
Points   == {"idle", "claim", "select", "operate", "provider", "called", "answered"}

Init ==
    /\ clock = 0
    /\ record = [k \in Keys |-> NoRecord]
    /\ lock = [k \in Keys |-> Nobody]
    /\ saved = [k \in Keys |-> NoRecord]
    /\ pc = [r \in Requests |-> "idle"]
    /\ began = [r \in Requests |-> 0]
    /\ answer = [r \in Requests |-> [kind |-> "none", of |-> Nobody]]
    /\ effects = {}

Active(r) == pc[r] \notin {"idle", "answered"}

Goto(r, p) == pc' = [pc EXCEPT ![r] = p]

Reply(r, kind, of) ==
    /\ Goto(r, "answered")
    /\ answer' = [answer EXCEPT ![r] = [kind |-> kind, of |-> of]]

\* The transaction of r ends with the record as it is, or as it was.
EndOf(r) == lock' = [lock EXCEPT ![KeyOf[r]] = Nobody]

\* The claim of r is written into its transaction.
WriteClaim(r) ==
    LET k == KeyOf[r] IN
    /\ record' = [record EXCEPT ![k] =
                    [status |-> "in_progress", digest |-> DigestOf[r],
                     expires |-> began[r] + Day, of |-> r]]
    /\ lock' = [lock EXCEPT ![k] = r]
    /\ saved' = [saved EXCEPT ![k] = record[k]]

Complete(r) == record' = [record EXCEPT ![KeyOf[r]] = [@ EXCEPT !.status = "completed"]]

-----------------------------------------------------------------------------
(* claim_idempotency.                                                       *)

\* The route reads the clock and opens its transaction.
Begin(r) ==
    /\ pc[r] = "idle"
    /\ began' = [began EXCEPT ![r] = clock]
    /\ Goto(r, "claim")
    /\ UNCHANGED <<clock, record, lock, saved, answer, effects>>

\* INSERT ... ON CONFLICT DO NOTHING finds no record.
InsertClaim(r) ==
    LET k == KeyOf[r] IN
    /\ pc[r] = "claim" /\ lock[k] = Nobody /\ record[k].status = "none"
    /\ WriteClaim(r)
    /\ Goto(r, "operate")
    /\ UNCHANGED <<clock, began, answer, effects>>

\* It conflicts with a committed record.  (It waits for an uncommitted one.)
InsertConflicts(r) ==
    LET k == KeyOf[r] IN
    /\ pc[r] = "claim"
    /\ (IF lock[k] = Nobody THEN record[k] ELSE saved[k]).status # "none"
    /\ Goto(r, "select")
    /\ UNCHANGED <<clock, record, lock, saved, began, answer, effects>>

ExpiresEarly(k, now) == record[k].expires <= now + 1     \* faulty
Expired(k, now) == record[k].expires <= now

AnyRequest(k, r) == TRUE                     \* faulty: digests are not compared
SameRequest(k, r) == record[k].digest = DigestOf[r]

\* SELECT ... FOR UPDATE: an expired record is claimed anew; another request
\* conflicts; a completed record is replayed; else the request is in progress.
SelectClaim(r) ==
    LET k == KeyOf[r] IN
    /\ pc[r] = "select" /\ lock[k] = Nobody
    /\ \/ /\ Expired(k, began[r])
          /\ WriteClaim(r)
          /\ Goto(r, "operate") /\ UNCHANGED answer
       \/ /\ ~Expired(k, began[r]) /\ ~SameRequest(k, r)
          /\ Reply(r, "conflict", Nobody)
          /\ UNCHANGED <<record, lock, saved>>
       \/ /\ ~Expired(k, began[r]) /\ SameRequest(k, r)
          /\ record[k].status = "completed"
          /\ Reply(r, "replayed", record[k].of)
          /\ UNCHANGED <<record, lock, saved>>
       \/ /\ ~Expired(k, began[r]) /\ SameRequest(k, r)
          /\ record[k].status = "in_progress"
          /\ Reply(r, "in_progress", Nobody)
          /\ UNCHANGED <<record, lock, saved>>
    /\ UNCHANGED <<clock, began, effects>>

-----------------------------------------------------------------------------
(* A transactional command.                                                 *)

Effect(r) == [by |-> r, key |-> KeyOf[r], at |-> began[r]]

\* The operation, complete_idempotency and the commit.
Perform(r) ==
    /\ pc[r] = "operate" /\ KeyOf[r] \notin ProviderKeys
    /\ effects' = effects \cup {Effect(r)}
    /\ Complete(r)
    /\ EndOf(r)
    /\ Reply(r, "performed", r)
    /\ UNCHANGED <<clock, saved, began>>

\* Faulty: the transaction is left open.
LeaveOpen(r) == UNCHANGED <<record, lock>>
Undo(r) == EndOf(r) /\ record' = [record EXCEPT ![KeyOf[r]] = saved[KeyOf[r]]]

\* The operation raises, or the commit fails: everything rolls back.
Rollback(r) ==
    /\ pc[r] = "operate"
    /\ Undo(r)
    /\ Reply(r, "failed", Nobody)
    /\ UNCHANGED <<clock, saved, began, effects>>

-----------------------------------------------------------------------------
(* A policy question.                                                       *)

\* The claim is committed before the provider call.
CommitClaim(r) ==
    /\ pc[r] = "operate" /\ KeyOf[r] \in ProviderKeys
    /\ EndOf(r)
    /\ Goto(r, "provider")
    /\ UNCHANGED <<clock, record, saved, began, answer, effects>>

CallProvider(r) ==
    /\ pc[r] = "provider"
    /\ effects' = effects \cup {Effect(r)}
    /\ Goto(r, "called")
    /\ UNCHANGED <<clock, record, lock, saved, began, answer>>

\* The record a request works on is still in progress: complete_idempotency
\* refuses any other.
Completable(r) == lock[KeyOf[r]] = Nobody /\ record[KeyOf[r]].status = "in_progress"

Settle(r) ==
    /\ pc[r] = "called" /\ Completable(r)
    /\ Complete(r)
    /\ Reply(r, "performed", r)
    /\ UNCHANGED <<clock, lock, saved, began, effects>>

\* Faulty: a failed question leaves its record in progress.
ForgetFailure(r) ==
    /\ pc[r] = "called" /\ Completable(r)
    /\ UNCHANGED record
    /\ Reply(r, "failed", Nobody)
    /\ UNCHANGED <<clock, lock, saved, began, effects>>

\* The provider fails, or its answer cannot be recorded: api_v1 completes the
\* record with the error (_settle, _settle_failure_after_persistence_error),
\* web_api leaves it.
FailProvider(r) ==
    /\ pc[r] = "called" /\ Completable(r)
    /\ IF KeyOf[r] \in SettledKeys THEN Complete(r) ELSE UNCHANGED record
    /\ Reply(r, "failed", Nobody)
    /\ UNCHANGED <<clock, lock, saved, began, effects>>

\* Neither of the two writes that would complete the record in api_v1 gets
\* through: the second error is passed over, the request is answered 503.
LoseSettlement(r) ==
    /\ pc[r] = "called" /\ KeyOf[r] \in SettledKeys
    /\ Reply(r, "unsettled", Nobody)
    /\ UNCHANGED <<clock, record, lock, saved, began, effects>>

-----------------------------------------------------------------------------
\* The instance dies: an open transaction rolls back, a committed claim stays.
Crash(r) ==
    /\ Active(r)
    /\ IF lock[KeyOf[r]] = r THEN Undo(r) ELSE UNCHANGED <<record, lock>>
    /\ Reply(r, "lost", Nobody)
    /\ UNCHANGED <<clock, saved, began, effects>>

\* Requests are cut off long before a record expires.
Tick ==
    /\ clock < MaxTime
    /\ \A r \in Requests : Active(r) => clock + 1 < began[r] + Day
    /\ clock' = clock + 1
    /\ UNCHANGED <<record, lock, saved, pc, began, answer, effects>>

Step(r) ==
    \/ InsertClaim(r) \/ InsertConflicts(r) \/ SelectClaim(r) \/ Perform(r)
    \/ Rollback(r) \/ CommitClaim(r) \/ CallProvider(r) \/ Settle(r)
    \/ FailProvider(r) \/ LoseSettlement(r)

Next == (\E r \in Requests : Begin(r) \/ Step(r) \/ Crash(r)) \/ Tick

Spec == Init /\ [][Next]_vars

\* A request that is not cut off goes on.
FairSpec == Spec /\ \A r \in Requests : WF_vars(Step(r))

-----------------------------------------------------------------------------
(* Properties.                                                              *)

\* Clock, records, locks, requests and effects hold the values the schema and
\* the code allow.
TypeOK ==
    /\ clock \in Nat
    /\ record \in [Keys -> Records] /\ saved \in [Keys -> Records]
    /\ lock \in [Keys -> Requests \cup {Nobody}]
    /\ pc \in [Requests -> Points] /\ began \in [Requests -> Nat]
    /\ answer \in [Requests -> [kind : Answers, of : Requests \cup {Nobody}]]
    /\ effects \subseteq Effects

\* A key changes anything, or pays the provider, at most once in the life of a
\* record, however many requests carry it and however they overlap, fail or die.
AtMostOncePerDay ==
    \A e, f \in effects : e.key = f.key /\ e # f =>
        e.at + Day <= f.at \/ f.at + Day <= e.at

\* A replay repeats the result of the same command (claim_idempotency compares
\* digests first), and that command has taken effect.
ReplayIsOfSameCommand ==
    \A r \in Requests : answer[r].kind = "replayed" =>
        \E e \in effects : /\ e.by = answer[r].of /\ e.key = KeyOf[r]
                           /\ DigestOf[e.by] = DigestOf[r]

\* A key is in progress only while its request is at work, or after that
\* request was cut off between committing its claim and settling it, or the
\* database failed it both times it tried to ("so the key never strands" holds
\* but for those; where failures are not settled, after every failure).
NoStrandedKey ==
    \A k \in Keys : lock[k] = Nobody /\ record[k].status = "in_progress" =>
        /\ k \in ProviderKeys
        /\ LET r == record[k].of IN
           \/ pc[r] \in {"provider", "called"}
           \/ answer[r].kind \in {"lost", "unsettled"}
           \/ k \notin SettledKeys /\ answer[r].kind = "failed"

\* Every request is answered: nobody waits for a record for ever.
EveryRequestAnswered ==
    \A r \in Requests : pc[r] = "claim" ~> pc[r] = "answered"
=============================================================================
