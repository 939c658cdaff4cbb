---------------------------- MODULE JobLifecycle -----------------------------
(***************************************************************************)
(* What the job API promises its clients (get_job, the incident's revision *)
(* history): a job is queued, running or over; a failed attempt puts it    *)
(* back in the queue; its result appears in the documents in the very step *)
(* in which it becomes succeeded, and only on the incident revision it was *)
(* submitted for.  Deliveries, claims, leases, tokens, workers and their   *)
(* crashes are not visible here.                                           *)
(***************************************************************************)
EXTENDS Naturals

CONSTANTS Jobs,
          WritesIncident   \* the jobs whose result is an incident revision

VARIABLES phase,       \* AiJob.state
          basis,       \* AiJob.base_incident_revision
          rev,         \* Incident.current_revision_number
          published    \* the jobs whose result is in some document

lifecycle == <<phase, basis, rev, published>>

Init ==
    /\ phase = [j \in Jobs |-> "none"]
    /\ basis = [j \in Jobs |-> 0]
    /\ rev = 1
    /\ published = {}

Moves(j, from, to) == phase[j] = from /\ phase' = [phase EXCEPT ![j] = to]

Accept(j) ==
    /\ Moves(j, "none", "queued")
    /\ basis' = [basis EXCEPT ![j] = rev]
    /\ UNCHANGED <<rev, published>>

Start(j)    == Moves(j, "queued", "running") /\ UNCHANGED <<basis, rev, published>>
GiveBack(j) == Moves(j, "running", "queued") /\ UNCHANGED <<basis, rev, published>>
Fail(j)     == Moves(j, "running", "failed") /\ UNCHANGED <<basis, rev, published>>

Succeed(j) ==
    /\ Moves(j, "running", "succeeded")
    /\ rev = basis[j]
    /\ rev' = IF j \in WritesIncident THEN rev + 1 ELSE rev
    /\ published' = published \cup {j}
    /\ UNCHANGED basis

\* A person saves the incident.
Edit == rev' = rev + 1 /\ UNCHANGED <<phase, basis, published>>

Next ==
    \/ \E j \in Jobs : Accept(j) \/ Start(j) \/ GiveBack(j) \/ Fail(j) \/ Succeed(j)
    \/ Edit

Spec == Init /\ [][Next]_lifecycle
=============================================================================
