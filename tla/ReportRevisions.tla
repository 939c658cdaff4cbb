--------------------------- MODULE ReportRevisions ---------------------------
(***************************************************************************)
(* The reports of one type of one incident: their revisions, ownership and *)
(* access (backend/reports/revisions.py, and the commands around it in     *)
(* backend/reports/persistence.py).                                        *)
(*                                                                         *)
(* A command runs in one transaction that locks its report and its         *)
(* idempotency record, so Run(c) is one step; a client that got no answer, *)
(* or wants to be sure, runs it again.  done[c] is the completed record of *)
(* c, dropped when it expires (module Idempotency has the details).        *)
(***************************************************************************)
EXTENDS Naturals

CONSTANTS
    Reports, Staff, Commands, Texts, Nobody,
    FirstOwner,     \* the owner a report begins with, or Nobody: no such row
    Preparer,       \* who prepared those reports
    Leavers,        \* bound: the staff that are ever deactivated
    Operations,     \* bound: the kinds of commands clients send
    MaxRevision     \* bound on revision numbers

ASSUME RevisionsAssumption ==
    /\ FirstOwner \in [Reports -> Staff \cup {Nobody}] /\ Preparer \in Staff
    /\ \A p, q \in Reports :
          p # q /\ FirstOwner[p] # Nobody => FirstOwner[p] # FirstOwner[q]
    /\ Nobody \notin Staff \cup Commands \cup Texts
    /\ Leavers \subseteq Staff
    /\ Operations \subseteq {"save", "recover", "status", "restore", "transfer"}
    /\ MaxRevision \in Nat \ {0}

VARIABLES
    report,     \* the reports table
    revisions,  \* report_revisions of each report
    access,     \* report_access: relationship, and whether it is live
    active,     \* active staff
    command,    \* what each client command asks for
    done,       \* the revision a live idempotency record stands for, or 0
    expired,    \* the record of the command has expired once
    answer      \* the last answer to each command

vars == <<report, revisions, access, active, command, done, expired, answer>>

Statuses   == {"in_progress", "completed", "archived"}
Unborn     == [current |-> 0, text |-> Nobody, status |-> "in_progress",
               owner |-> Nobody, preparer |-> Nobody]
Rows       == [current : Nat, text : Texts \cup {Nobody}, status : Statuses,
               owner : Staff \cup {Nobody}, preparer : Staff \cup {Nobody}]
Reasons    == {"manual_save", "admin_edit", "ai_result", "status_change",
               "restored", "recovery", "ownership_change"}
Checked    == {"manual_save", "admin_edit", "ai_result", "status_change"}
Revision   == [n : Nat, base : Nat, text : Texts, reason : Reasons,
               cmd : Commands \cup {Nobody}]
AccessRows == [rel : {"none", "owner", "preparer"}, live : BOOLEAN]
NoCommand  == [op |-> "none"]
Saves      == [op : {"save"}, report : Reports, actor : Staff,
               admin : BOOLEAN, base : Nat, text : Texts]
Recoveries == [op : {"recover"}, report : Reports, actor : Staff,
               admin : BOOLEAN, base : Nat, text : Texts]
Changes    == [op : {"status"}, report : Reports, actor : Staff,
               admin : BOOLEAN, base : Nat, status : Statuses]
Restores   == [op : {"restore"}, report : Reports, actor : Staff,
               admin : BOOLEAN, base : Nat]
Transfers  == [op : {"transfer"}, report : Reports, actor : Staff,
               admin : BOOLEAN, to : Staff, prep : Staff \cup {Nobody}]
Answers    == {"none", "done", "replayed", "not_found", "revision_conflict", "refused"}

\* The rows a report of owner o, prepared by s, starts with.
FreshAccess(o, s) ==
    [t \in Staff |-> [rel |-> IF t = o THEN "owner" ELSE IF t = s THEN "preparer"
                              ELSE "none",
                      live |-> t \in {o, s}]]
NoAccess == [t \in Staff |-> [rel |-> "none", live |-> FALSE]]

FirstRevision(t) == [n |-> 1, base |-> 0, text |-> t, reason |-> "ai_result", cmd |-> Nobody]

Init ==
    \E t \in Texts :
    /\ report = [p \in Reports |->
         IF FirstOwner[p] = Nobody THEN Unborn
         ELSE [current |-> 1, text |-> t, status |-> "in_progress",
               owner |-> FirstOwner[p], preparer |-> Preparer]]
    /\ revisions = [p \in Reports |->
         IF FirstOwner[p] = Nobody THEN {} ELSE {FirstRevision(t)}]
    /\ access = [p \in Reports |->
         IF FirstOwner[p] = Nobody THEN NoAccess
         ELSE FreshAccess(FirstOwner[p], Preparer)]
    /\ active = Staff
    /\ command = [c \in Commands |-> NoCommand]
    /\ done = [c \in Commands |-> 0]
    /\ expired = [c \in Commands |-> FALSE]
    /\ answer = [c \in Commands |-> "none"]

\* _next_revision_number: one more than the highest, recoveries included.
IsNext(p, n) ==
    /\ \A v \in revisions[p] : v.n < n
    /\ n = 1 \/ \E v \in revisions[p] : v.n + 1 = n

NeverMoved(p, base) == FALSE                  \* faulty
\* _check_base
Moved(p, base) == report[p].current # base

Live(p, s) == access[p][s].live

\* uq_reports_incident_type_owner
OwnerFree(p, s) == \A q \in Reports \ {p} : report[q].owner # s

-----------------------------------------------------------------------------
(* The operations.  Each appends a revision v of command c to report p.      *)

Append(p, v) ==
    /\ revisions' = [revisions EXCEPT ![p] = @ \cup {v}]
    /\ UNCHANGED report

Promote(p, v, status) ==
    /\ revisions' = [revisions EXCEPT ![p] = @ \cup {v}]
    /\ report' = [report EXCEPT ![p].current = v.n, ![p].text = v.text,
                                ![p].status = status]

\* save_report
Save(c, p, n) ==
    /\ command[c].op = "save" /\ ~Moved(p, command[c].base)
    /\ Promote(p, [n |-> n, base |-> command[c].base, text |-> command[c].text,
                   reason |-> IF command[c].admin THEN "admin_edit" ELSE "manual_save",
                   cmd |-> c], report[p].status)
    /\ UNCHANGED access

\* save_report_status
SaveStatus(c, p, n) ==
    /\ command[c].op = "status" /\ ~Moved(p, command[c].base)
    /\ Promote(p, [n |-> n, base |-> command[c].base, text |-> report[p].text,
                   reason |-> "status_change", cmd |-> c], command[c].status)
    /\ UNCHANGED access

\* restore_report: any revision, recoveries included, and no base check.
Restore(c, p, n) ==
    /\ command[c].op = "restore"
    /\ \E s \in revisions[p] :
         /\ s.n = command[c].base
         /\ Promote(p, [n |-> n, base |-> s.n, text |-> s.text,
                        reason |-> "restored", cmd |-> c], report[p].status)
    /\ UNCHANGED access

\* create_recovery_revision: appended, not promoted.
Recover(c, p, n) ==
    /\ command[c].op = "recover" /\ command[c].base <= report[p].current
    /\ \E s \in revisions[p] : s.n = command[c].base
    /\ Append(p, [n |-> n, base |-> command[c].base, text |-> command[c].text,
                  reason |-> "recovery", cmd |-> c])
    /\ UNCHANGED access

\* Faulty: the rows of the people who lose the report stay live.
GrantOnly(p, o, s) ==
    access' = [access EXCEPT ![p] = [t \in Staff |->
        IF t \in {o, s} THEN FreshAccess(o, s)[t] ELSE @[t]]]
\* Rows of owner o and preparer s are granted or reactivated, all others revoked.
Regrant(p, o, s) ==
    access' = [access EXCEPT ![p] = [t \in Staff |->
        IF t \in {o, s} THEN FreshAccess(o, s)[t]
        ELSE [@[t] EXCEPT !.live = FALSE]]]

\* transfer_report_ownership
Transfer(c, p, n) ==
    LET to == command[c].to
        prep == IF command[c].prep = Nobody THEN report[p].preparer ELSE command[c].prep
    IN
    /\ command[c].op = "transfer"
    /\ {to, prep} \subseteq active /\ OwnerFree(p, to)
    /\ Regrant(p, to, prep)
    /\ revisions' = [revisions EXCEPT ![p] = @ \cup
         {[n |-> n, base |-> report[p].current, text |-> report[p].text,
           reason |-> "ownership_change", cmd |-> c]}]
    /\ report' = [report EXCEPT ![p].current = n, ![p].owner = to, ![p].preparer = prep]

-----------------------------------------------------------------------------
(* Commands.                                                                *)

\* A client decides on a command, about a revision it has seen.
Issue(c, m) ==
    /\ command[c] = NoCommand /\ report[m.report].current > 0
    /\ "base" \in DOMAIN m =>
          /\ \E v \in revisions[m.report] : v.n = m.base
          /\ m.op # "restore" => m.base <= report[m.report].current
    /\ command' = [command EXCEPT ![c] = m]
    /\ UNCHANGED <<report, revisions, access, active, done, expired, answer>>

\* Employees need a live relationship; administrators do not (_lock_authorized_report).
Admitted(c) ==
    /\ command[c] # NoCommand
    /\ command[c].admin \/ Live(command[c].report, command[c].actor)

\* claim_idempotency comes before the operation.
Fresh(c) == done[c] = 0

ForgetKey(c, n) == UNCHANGED done                      \* faulty
\* complete_idempotency
CompleteKey(c, n) == done' = [done EXCEPT ![c] = n]

\* What employees can ask for, and what administrators can.
EmployeeCommand(c, p, n) ==
    /\ ~command[c].admin
    /\ Save(c, p, n) \/ SaveStatus(c, p, n) \/ Restore(c, p, n) \/ Recover(c, p, n)
AdminCommand(c, p, n) ==
    /\ command[c].admin
    /\ Save(c, p, n) \/ Restore(c, p, n) \/ Transfer(c, p, n)

\* A command that is carried out.
Run(c) ==
    LET p == command[c].report IN
    /\ Admitted(c) /\ Fresh(c)
    /\ \E n \in 1..MaxRevision :
        /\ IsNext(p, n)
        /\ EmployeeCommand(c, p, n) \/ AdminCommand(c, p, n)
        /\ CompleteKey(c, n)
    /\ answer' = [answer EXCEPT ![c] = "done"]
    /\ UNCHANGED <<active, command, expired>>

\* One whose record is still there.
Replay(c) ==
    /\ Admitted(c) /\ ~Fresh(c)
    /\ answer' = [answer EXCEPT ![c] = "replayed"]
    /\ UNCHANGED <<report, revisions, access, active, command, done, expired>>

\* A transfer to people who have left, and one to an owner who has such a report
\* already: the latter is only noticed by the unique index.
ToLeaver(m) ==
    LET prep == IF m.prep = Nobody THEN report[m.report].preparer ELSE m.prep
    IN  m.op = "transfer" /\ ~({m.to, prep} \subseteq active)
Collides(m) == m.op = "transfer" /\ ~ToLeaver(m) /\ ~OwnerFree(m.report, m.to)

\* The errors the operations raise, as they are answered: the index's error too
\* is told as a conflict.
Refusals(c) ==
    LET m == command[c] IN
    {a \in {"not_found", "revision_conflict", "refused"} :
        IF a = "not_found" THEN ~Admitted(c)
        ELSE /\ Admitted(c) /\ Fresh(c)
             /\ IF a = "refused" THEN ToLeaver(m)
                ELSE \/ m.op \in {"save", "status"} /\ Moved(m.report, m.base)
                     \/ Collides(m)}

\* One that is refused; its transaction rolls back.
Refuse(c) ==
    /\ command[c] # NoCommand
    /\ \E a \in Refusals(c) : answer' = [answer EXCEPT ![c] = a]
    /\ UNCHANGED <<report, revisions, access, active, command, done, expired>>

\* The record of a command passes its 24 hours.
Expire(c) ==
    /\ done[c] # 0
    /\ done' = [done EXCEPT ![c] = 0]
    /\ expired' = [expired EXCEPT ![c] = TRUE]
    /\ UNCHANGED <<report, revisions, access, active, command, answer>>

\* The result of an AI job for a report it still finds at its base, or for an
\* officer who has none yet.
SaveResult(p, t, n) ==
    /\ report[p].current > 0 /\ IsNext(p, n)
    /\ Promote(p, [n |-> n, base |-> report[p].current, text |-> t,
                   reason |-> "ai_result", cmd |-> Nobody], report[p].status)
    /\ UNCHANGED <<access, active, command, done, expired, answer>>

CreateReport(p, o, s, t) ==
    /\ report[p] = Unborn /\ OwnerFree(p, o) /\ {o, s} \subseteq active
    /\ report' = [report EXCEPT ![p] = [current |-> 1, text |-> t,
                    status |-> "in_progress", owner |-> o, preparer |-> s]]
    /\ revisions' = [revisions EXCEPT ![p] = {FirstRevision(t)}]
    /\ access' = [access EXCEPT ![p] = FreshAccess(o, s)]
    /\ UNCHANGED <<active, command, done, expired, answer>>

\* An administrator deactivates or reactivates a member of staff.
SetActive(s) ==
    /\ active' = IF s \in active THEN active \ {s} ELSE active \cup {s}
    /\ UNCHANGED <<report, revisions, access, command, done, expired, answer>>

\* The commands of p: the actor of an administrator's command does not matter.
CommandsOf(p) ==
    LET seen == 1..MaxRevision
        Asked == [op : {"save"}, report : {p}, actor : Staff, admin : BOOLEAN,
                  base : seen, text : Texts]
              \cup [op : {"recover"}, report : {p}, actor : Staff, admin : BOOLEAN,
                    base : seen, text : Texts]
              \cup [op : {"status"}, report : {p}, actor : Staff, admin : BOOLEAN,
                    base : seen, status : {"completed"}]
              \cup [op : {"restore"}, report : {p}, actor : Staff, admin : BOOLEAN,
                    base : seen]
              \cup [op : {"transfer"}, report : {p}, actor : Staff, admin : BOOLEAN,
                    to : Staff, prep : Staff \cup {Nobody}]
    IN
    {m \in Asked :
        /\ m.op \in {"recover", "status"} => ~m.admin
        /\ m.op = "transfer" => m.admin
        /\ m.admin => m.actor = Preparer}

Next ==
    \/ \E c \in Commands : Run(c) \/ Replay(c) \/ Refuse(c) \/ Expire(c)
    \/ \E c \in Commands, p \in Reports : \E m \in CommandsOf(p) :
         m.op \in Operations /\ Issue(c, m)
    \/ \E p \in Reports, t \in Texts, n \in 1..MaxRevision : SaveResult(p, t, n)
    \/ \E p \in Reports, o, s \in Staff, t \in Texts : CreateReport(p, o, s, t)
    \/ \E s \in Leavers : SetActive(s)

Spec == Init /\ [][Next]_vars

-----------------------------------------------------------------------------
(* Properties.                                                              *)

\* Rows, revisions, access rows and commands have the shapes of the schema.
TypeOK ==
    /\ report \in [Reports -> Rows]
    /\ revisions \in [Reports -> SUBSET Revision]
    /\ access \in [Reports -> [Staff -> AccessRows]]
    /\ active \subseteq Staff
    /\ command \in [Commands -> Saves \cup Recoveries \cup Changes \cup Restores
                              \cup Transfers \cup {NoCommand}]
    /\ done \in [Commands -> Nat]
    /\ expired \in [Commands -> BOOLEAN]
    /\ answer \in [Commands -> Answers]

\* A revision number names one revision, although recovery revisions take
\* numbers that never become current.
OneRevisionPerNumber ==
    \A p \in Reports : \A v, w \in revisions[p] : v.n = w.n => v = w

\* What a base-checked write replaces is its base: nothing that was promoted
\* in between is lost; only recoveries may lie in between (_check_base).
NothingOverwritten ==
    \A p \in Reports : \A v, w \in revisions[p] :
        v.reason \in Checked /\ w # v /\ w.n > v.base /\ w.reason # "recovery"
        => w.n > v.n

\* What readers see is the current revision, and a recovery never is it
\* ("without promoting it over current content").
CurrentIsARevision ==
    \A p \in Reports : report[p] # Unborn =>
        \E v \in revisions[p] :
            v.n = report[p].current /\ v.text = report[p].text /\ v.reason # "recovery"

\* Owner and preparer, and nobody else, have live access, through any sequence
\* of transfers back and forth (transfer_report_ownership reactivates rows).
AccessFollowsOwnership ==
    \A p \in Reports : report[p] # Unborn => \A s \in Staff :
        /\ Live(p, s) <=> s \in {report[p].owner, report[p].preparer}
        /\ Live(p, s) =>
             access[p][s].rel = IF s = report[p].owner THEN "owner" ELSE "preparer"

\* No two reports of the type belong to one officer, transfers and reports the
\* worker creates included.
OneReportPerOwner ==
    \A p, q \in Reports : p # q /\ report[p] # Unborn => report[p].owner # report[q].owner

\* However often a command is sent, it takes effect once while its record
\* lives; a base-checked command does so for ever.
OncePerCommand ==
    \A p, q \in Reports : \A v \in revisions[p], w \in revisions[q] :
        v.cmd # Nobody /\ v.cmd = w.cmd /\ <<p, v>> # <<q, w>> =>
            expired[v.cmd] /\ v.reason \notin Checked

\* A client is not told of a conflict about a command that was carried out:
\* its own write is not taken for somebody else's, until its record expires.
ConflictMeansNotWritten ==
    \A c \in Commands : answer[c] = "revision_conflict" /\ ~expired[c] =>
        \A p \in Reports : \A v \in revisions[p] : v.cmd # c
=============================================================================
