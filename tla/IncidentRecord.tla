---------------------------- MODULE IncidentRecord ----------------------------
(***************************************************************************)
(* Incidents and their revisions: create, save, restore, the result of an  *)
(* AI job and the status an administrator sets (backend/reports/           *)
(* persistence.py, save_incident of backend/reports/revisions.py,          *)
(* webapp/web_api/admin_incidents.py).                                     *)
(*                                                                         *)
(* A save or restore first loads the incident without a lock (Load).  The  *)
(* SELECT ... FOR UPDATE that follows waits for its turn but leaves the    *)
(* attributes of the loaded object as they were, so the base check, the    *)
(* next number and the identity are those of seen[r], perhaps stale.  The  *)
(* unique constraints then decide (WriteRevision).  The worker and the     *)
(* change of status load under their lock.                                 *)
(***************************************************************************)
EXTENDS Naturals

CONSTANTS
    Incidents, Savers,
    Texts,          \* what an incident says besides its number
    LogNumbers,     \* official incident numbers
    RecordsStatuses,
    Unset,
    MaxRevision     \* bound: no command or result starts at this revision

ASSUME IncidentAssumption ==
    /\ "in_progress" \in RecordsStatuses
    /\ Unset \notin LogNumbers /\ Unset \notin Texts
    /\ MaxRevision \in Nat \ {0}

VARIABLES
    row,        \* the incidents table: current revision number, number, text, status
    revisions,  \* incident_revisions of each incident
    pc, op,     \* control point and command of each request
    seen,       \* the row each request loaded
    answered    \* what each request was answered

incidentVars == <<row, revisions, pc, op, seen, answered>>

Identity == LogNumbers \cup {Unset}
Reasons  == {"manual_save", "restored", "ai_result", "status_change"}
Absent   == [current |-> 0, number |-> Unset, text |-> Unset, status |-> "in_progress"]
Rows     == [current : Nat, number : Identity, text : Texts \cup {Unset},
             status : RecordsStatuses]
Revision == [n : Nat, number : Identity, text : Texts, base : Nat, reason : Reasons]
Saves    == [kind : {"save"}, incident : Incidents, at : Nat,
             number : Identity, text : Texts]
Restores == [kind : {"restore", "admin restore"}, incident : Incidents, at : Nat]
Replies  == {"none", "saved", "revision_conflict", "incident_number_conflict"}
NoCommand == [kind |-> "none"]

IncidentInit ==
    /\ row = [i \in Incidents |-> Absent]
    /\ revisions = [i \in Incidents |-> {}]
    /\ pc = [r \in Savers |-> "idle"]
    /\ op = [r \in Savers |-> NoCommand]
    /\ seen = [r \in Savers |-> Absent]
    /\ answered = [r \in Savers |-> "none"]

AnyRevision(i, n) == TRUE                    \* faulty: no unique constraint
\* uq_incident_revisions_parent_number
RevisionFree(i, n) == \A s \in revisions[i] : s.n # n

\* uq_incidents_incident_number
NumberFree(i, number) ==
    number = Unset \/ \A j \in Incidents \ {i} : row[j].number # number

\* Revision v is appended and promoted.
PromoteAs(i, v, status) ==
    /\ row' = [row EXCEPT ![i] = [current |-> v.n, number |-> v.number, text |-> v.text,
                                  status |-> status]]
    /\ revisions' = [revisions EXCEPT ![i] = @ \cup {v}]
Promote(i, v) == PromoteAs(i, v, row[i].status)

\* carry_forward_identity
CarryForward(known, number) == IF number = Unset THEN known ELSE number

AnswerSave(r, a) ==
    /\ answered' = [answered EXCEPT ![r] = a]
    /\ pc' = [pc EXCEPT ![r] = "done"]

-----------------------------------------------------------------------------
\* create_incident: revision 1.
Create(i, number, text) ==
    /\ row[i].current = 0
    /\ NumberFree(i, number)
    /\ Promote(i, [n |-> 1, number |-> number, text |-> text, base |-> 0,
                   reason |-> "manual_save"])
    /\ UNCHANGED <<pc, op, seen, answered>>

\* A save made from some revision the client read, or the restore of one,
\* reaches get_incident.
Load(r, c) ==
    /\ pc[r] = "idle"
    /\ c.at \in 1..row[c.incident].current /\ row[c.incident].current < MaxRevision
    /\ op' = [op EXCEPT ![r] = c]
    /\ seen' = [seen EXCEPT ![r] = row[c.incident]]
    /\ pc' = [pc EXCEPT ![r] = "write"]
    /\ UNCHANGED <<row, revisions, answered>>

\* A save whose base is not the revision it loaded; a restore has no base.
Moved(r) == op[r].kind = "save" /\ seen[r].current # op[r].at

NextSeen(r) == seen[r].current + 1

\* The revision the request would write, from the object it loaded.
Proposals(r) ==
    LET c == op[r] IN
    IF c.kind = "save"
    THEN {[n |-> NextSeen(r), number |-> CarryForward(seen[r].number, c.number),
           text |-> c.text, base |-> c.at, reason |-> "manual_save"]}
    ELSE {[n |-> NextSeen(r), number |-> s.number, text |-> s.text,
           base |-> c.at, reason |-> "restored"] :
             s \in {s \in revisions[c.incident] : s.n = c.at}}

\* save_incident_record, restore_incident_record: the lock, the checks, the
\* flush and the commit.
WriteRevision(r) ==
    /\ pc[r] = "write" /\ ~Moved(r)
    /\ \E v \in Proposals(r) :
         /\ RevisionFree(op[r].incident, v.n) /\ NumberFree(op[r].incident, v.number)
         /\ Promote(op[r].incident, v)
    /\ AnswerSave(r, "saved")
    /\ UNCHANGED <<op, seen>>

\* RevisionConflict, or the collision of the revision number (_write).
RefuseStale(r) ==
    /\ pc[r] = "write"
    /\ Moved(r) \/ ~RevisionFree(op[r].incident, NextSeen(r))
    /\ AnswerSave(r, "revision_conflict")
    /\ UNCHANGED <<row, revisions, op, seen>>

\* The collision of the incident number, which administrators are told of as
\* a conflict of revisions (admin_incidents._write).
RefuseNumber(r) ==
    /\ pc[r] = "write" /\ ~Moved(r)
    /\ \E v \in Proposals(r) :
         v.number # seen[r].number /\ ~NumberFree(op[r].incident, v.number)
    /\ AnswerSave(r, IF op[r].kind = "admin restore" THEN "revision_conflict"
                     ELSE "incident_number_conflict")
    /\ UNCHANGED <<row, revisions, op, seen>>

\* save_incident for a job: base check and number under the lock.
SaveResult(i, base, text) ==
    /\ base \in 1..row[i].current /\ base = row[i].current
    /\ row[i].current < MaxRevision
    /\ Promote(i, [n |-> row[i].current + 1, text |-> text, base |-> base,
                   number |-> CarryForward(row[i].number, Unset),
                   reason |-> "ai_result"])
    /\ UNCHANGED <<pc, op, seen, answered>>

\* _change_records_status: the incident is read under its lock, and what the
\* current revision says is said again.
ChangeStatus(i, base, status) ==
    /\ base \in 1..row[i].current /\ base = row[i].current
    /\ row[i].current < MaxRevision /\ row[i].status # status
    /\ \E s \in revisions[i] :
         /\ s.n = row[i].current
         /\ PromoteAs(i, [n |-> s.n + 1, number |-> s.number, text |-> s.text,
                          base |-> base, reason |-> "status_change"], status)
    /\ UNCHANGED <<pc, op, seen, answered>>

Step(r) == WriteRevision(r) \/ RefuseStale(r) \/ RefuseNumber(r)

IncidentNext ==
    \/ \E i \in Incidents, number \in Identity, text \in Texts :
            Create(i, number, text)
    \/ \E i \in Incidents, text \in Texts, base \in 1..MaxRevision :
            SaveResult(i, base, text)
    \/ \E i \in Incidents, base \in 1..MaxRevision, status \in RecordsStatuses :
            ChangeStatus(i, base, status)
    \/ \E r \in Savers : Step(r)
    \/ \E r \in Savers, i \in Incidents, at \in 1..MaxRevision :
        \/ \E kind \in {"restore", "admin restore"} :
              Load(r, [kind |-> kind, incident |-> i, at |-> at])
        \/ \E number \in Identity, text \in Texts :
              Load(r, [kind |-> "save", incident |-> i, at |-> at,
                       number |-> number, text |-> text])

IncidentSpec == IncidentInit /\ [][IncidentNext]_incidentVars

-----------------------------------------------------------------------------
(* Properties.                                                              *)

\* Rows, revisions, commands and replies have the shapes of the schema.
TypeOK ==
    /\ row \in [Incidents -> Rows]
    /\ revisions \in [Incidents -> SUBSET Revision]
    /\ pc \in [Savers -> {"idle", "write", "done"}]
    /\ op \in [Savers -> Saves \cup Restores \cup {NoCommand}]
    /\ seen \in [Savers -> Rows]
    /\ answered \in [Savers -> Replies]

\* A save, an AI result or a change of status follows its base: nothing was
\* written in between and is lost, although the base is compared with an object loaded before the
\* lock ("Concurrent saves and stale AI results cannot silently overwrite
\* newer work").
NothingOverwritten ==
    \A i \in Incidents : \A v, w \in revisions[i] :
        v.reason # "restored" /\ w # v /\ w.n > v.base => w.n > v.n

\* The row is its latest revision, number included: restoring that revision
\* later brings back what was in effect (carry_forward_identity).
RowIsLatestRevision ==
    \A i \in Incidents : row[i] # Absent =>
        \E v \in revisions[i] :
            /\ v.n = row[i].current /\ v.number = row[i].number
            /\ v.text = row[i].text
            /\ \A w \in revisions[i] : w.n <= v.n

\* Two incidents never share an official number, however saves, restores and
\* new incidents race.
NumbersUnique ==
    \A i, j \in Incidents : i # j /\ row[i].number # Unset =>
        row[i].number # row[j].number

\* A save or an AI result that does not mention the number keeps the one of
\* the revision it follows.
IdentityCarriedForward ==
    \A i \in Incidents : \A v, w \in revisions[i] :
        v.n + 1 = w.n /\ w.reason # "restored" /\ v.number # Unset => w.number # Unset

\* revision_conflict is answered to officers only when the incident changed after the
\* revision the client based its command on, or after the server loaded it.
ConflictIsReal ==
    \A r \in Savers : answered[r] = "revision_conflict" /\ op[r].kind # "admin restore" =>
        \E v \in revisions[op[r].incident] :
            \/ v.n > seen[r].current
            \/ op[r].kind = "save" /\ v.n > op[r].at

\* An official number, once an incident has it, stays.
NumberPersists ==
    [][\A i \in Incidents : row[i].number # Unset => row'[i].number # Unset]_row
=============================================================================
