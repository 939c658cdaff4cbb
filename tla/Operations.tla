------------------------------ MODULE Operations ------------------------------
(***************************************************************************)
(* The operator's one-off jobs on the database                             *)
(* (backend/jobs/admin_bootstrap.py, backend/jobs/roster_import.py).       *)
(*                                                                         *)
(* Bootstrap: under an advisory lock held to the commit, create the first  *)
(* administrator, put the temporary PIN in Secret Manager as a new secret  *)
(* version, then commit.  Adding a version cannot be undone or repeated    *)
(* safely: its answer may be lost, and so may the answer of the commit.    *)
(*                                                                         *)
(* Roster import: plan against an unlocked read of the staff table, write  *)
(* the report, and apply the plan in a later transaction while the roster  *)
(* is also edited from the administration pages.                           *)
(*                                                                         *)
(* A staff row is a number, a name and a post (rank and shift).            *)
(***************************************************************************)
EXTENDS Naturals, FiniteSets

CONSTANTS
    Bootstraps,     \* executions of the bootstrap job
    Imports,        \* executions of the import job
    Plans,          \* [rows, corrections, apply, report] each import may be given
    StartStaff,     \* the staff table at first: [number, name, post] by id
    StaffIds, Numbers, Names, Posts,
    MaxPageEdits,
    NoStaff

\* the staff at first come from no import, and NoStaff is no row of the table
ASSUME OpsAssumption ==
    /\ NoStaff \notin Imports
    /\ StartStaff = [s \in StaffIds |-> StartStaff[s]]
    /\ \A s \in StaffIds : StartStaff[s] # NoStaff => StartStaff[s].by \notin Imports
    /\ \A src \in Plans : \A r \in src.rows, i \in Imports :
          NoStaff # [number |-> r.number, name |-> r.name, post |-> r.post, by |-> i]
    /\ NoStaff \notin [number : Numbers, name : Names, post : Posts, by : {NoStaff}]

VARIABLES
    boot,       \* [b \in Bootstraps |-> its progress and what it reported]
    opened,     \* bootstraps whose account is committed
    stored,     \* bootstraps whose PIN is a secret version
    staff,      \* [StaffIds -> row or NoStaff], each row with its last writer
    import,     \* [i \in Imports |-> its progress]
    reports,    \* report objects written
    pageEdits   \* edits made from the administration pages

bootVars == <<boot, opened, stored>>
rosterTableVars == <<staff, import, reports, pageEdits>>
opsVars == <<boot, opened, stored, staff, import, reports, pageEdits>>

NoImport == [at |-> "idle", source |-> NoStaff, plan |-> NoStaff, inserts |-> {}]

OpsInit ==
    /\ boot = [b \in Bootstraps |-> [at |-> "idle", says |-> "nothing"]]
    /\ opened = {} /\ stored = {}
    /\ staff = StartStaff
    /\ import = [i \in Imports |-> NoImport]
    /\ reports = {} /\ pageEdits = 0

-----------------------------------------------------------------------------
(* The bootstrap job                                                       *)

BootIs(b, at, says) == boot' = [boot EXCEPT ![b] = [at |-> at, says |-> says]]

\* a result is printed, unless the rollback or the close before it raises: main
\* then returns without a word
EndBootstrap(b, says) == BootIs(b, "done", says) \/ BootIs(b, "silent", "nothing")

\* pg_advisory_xact_lock: one bootstrap transaction at a time
LockFree == \A b \in Bootstraps : boot[b].at \notin {"pending", "added"}

\* bootstrap_first_admin: refused once any account exists
OpenBootstrap(b) ==
    /\ boot[b].at = "idle" /\ LockFree
    /\ IF opened = {} THEN BootIs(b, "pending", "nothing")
                      ELSE EndBootstrap(b, "bootstrap_refused")
    /\ UNCHANGED <<opened, stored>>

\* the staff member of the request is missing or inactive
RefuseBootstrap(b) ==
    /\ boot[b].at = "idle" /\ LockFree /\ EndBootstrap(b, "bootstrap_refused")
    /\ UNCHANGED <<opened, stored>>

\* Faulty: every client error counts as a refusal
SaysAny(answer) ==
    IF answer \in {"refused", "cancelled"} THEN "pin_version_add_failed"
    ELSE "pin_version_outcome_unknown_cleanup_required"

\* what is reported when add_version does not return a trusted name: only a
\* definite client error says that there is no version
SaysOf(answer) ==
    IF answer = "refused" THEN "pin_version_add_failed"
    ELSE "pin_version_outcome_unknown_cleanup_required"

\* "cancelled": Aborted, Cancelled and the like; "lost": no answer at all;
\* "odd": an answer whose name does not have the expected form
AddVersion(b) ==
    \E answer \in {"named", "refused", "cancelled", "lost", "odd"}, done \in BOOLEAN :
        /\ boot[b].at = "pending"
        /\ answer \in {"named", "odd"} => done
        /\ answer = "refused" => ~done
        /\ stored' = IF done THEN stored \cup {b} ELSE stored
        /\ IF answer = "named" THEN BootIs(b, "added", "nothing")
                               ELSE EndBootstrap(b, SaysOf(answer))
        /\ UNCHANGED opened

\* the commit succeeds, fails, or succeeds while its answer is lost
CommitBootstrap(b) ==
    \E done, answered \in BOOLEAN :
        /\ boot[b].at = "added"
        /\ opened' = IF done THEN opened \cup {b} ELSE opened
        /\ EndBootstrap(b, IF done /\ answered THEN "bootstrapped"
                           ELSE "orphan_pin_version_cleanup_required")
        /\ UNCHANGED stored

\* the container dies; no result is printed
KillBootstrap(b) ==
    /\ boot[b].at \in {"pending", "added"} /\ BootIs(b, "silent", "nothing")
    /\ UNCHANGED <<opened, stored>>

BootNext ==
    /\ \E b \in Bootstraps :
          OpenBootstrap(b) \/ RefuseBootstrap(b) \/ AddVersion(b) \/ CommitBootstrap(b)
          \/ KillBootstrap(b)
    /\ UNCHANGED rosterTableVars

-----------------------------------------------------------------------------
(* build_roster_plan                                                       *)

Known(table) == {s \in StaffIds : table[s] # NoStaff}
NumberedIn(table, n) == {s \in Known(table) : table[s].number = n}
NamedIn(table, n) == {s \in Known(table) : table[s].name = n}
Differs(row, r) == row.number # r.number \/ row.name # r.name \/ row.post # r.post

\* the row's person in the table: by approved correction, else by number
Person(table, c, r) ==
    IF r.number \in DOMAIN c THEN {c[r.number]} ELSE NumberedIn(table, r.number)

\* the findings that stop a row: a correction that points elsewhere, a name that
\* is on the roster under another number, a change nobody approved
Unclear(table, c, r) ==
    IF r.number \in DOMAIN c
    THEN \/ c[r.number] \notin Known(table)
         \/ NumberedIn(table, r.number) \notin {{}, {c[r.number]}}
    ELSE IF NumberedIn(table, r.number) = {} THEN NamedIn(table, r.name) # {}
    ELSE \E s \in NumberedIn(table, r.number) : Differs(table[s], r)

Findings(table, src) ==
    \/ \E r, q \in src.rows : r # q /\ r.number = q.number
    \/ \E r \in src.rows : Unclear(table, src.corrections, r)
    \/ ~(DOMAIN src.corrections \subseteq {r.number : r \in src.rows})

PlanOf(table, src) ==
    [inserts |-> {r \in src.rows : Person(table, src.corrections, r) = {}},
     updates |-> {r \in src.rows : \E s \in Person(table, src.corrections, r) :
                                      Differs(table[s], r)}]

-----------------------------------------------------------------------------
(* The import job                                                          *)

\* read the source and the staff table, and build the plan
PlanImport(i) ==
    \E src \in Plans :
        /\ import[i].at = "idle"
        /\ import' = [import EXCEPT ![i] =
              [at |-> IF Findings(staff, src) THEN "refused" ELSE "planned",
               source |-> src,
               plan |-> IF Findings(staff, src) THEN NoStaff ELSE PlanOf(staff, src),
               inserts |-> {}]]
        /\ UNCHANGED <<staff, reports, pageEdits>>

\* the report is written only where none is; without it nothing is applied
WriteReport(i) ==
    /\ import[i].at = "planned"
    /\ LET fresh == import[i].source.report \notin reports IN
       /\ reports' = reports \cup {import[i].source.report}
       /\ import' = [import EXCEPT ![i].at =
             IF ~fresh THEN "failed"
             ELSE IF import[i].source.apply THEN "reported" ELSE "validated"]
    /\ UNCHANGED <<staff, pageEdits>>

\* numbers another open transaction has inserted: the unique index waits for it
Held(i) == {r.number : r \in UNION {import[j].inserts : j \in Imports \ {i}}}

FailImport(i) ==
    /\ import[i].at \in {"reported", "inserted"}
    /\ import' = [import EXCEPT ![i].at = "failed", ![i].inserts = {}]
    /\ UNCHANGED <<staff, reports, pageEdits>>

\* Faulty: the rows are committed at once, the corrections after them
InsertCommitted(i) ==
    LET rows == import[i].plan.inserts IN
    /\ import[i].at = "reported"
    /\ \A r \in rows : NumberedIn(staff, r.number) = {}
    /\ \E new \in [rows -> StaffIds \ Known(staff)] :
          /\ \A r, q \in rows : new[r] = new[q] => r = q
          /\ staff' = [s \in StaffIds |->
                 IF \E r \in rows : new[r] = s
                 THEN LET r == CHOOSE r \in rows : new[r] = s IN
                      [number |-> r.number, name |-> r.name, post |-> r.post, by |-> i]
                 ELSE staff[s]]
    /\ import' = [import EXCEPT ![i].at = "inserted"]
    /\ UNCHANGED <<reports, pageEdits>>

\* import_roster: a row that has since appeared must be the same, and is not
\* inserted again; the others are inserted, not yet committed
InsertRows(i) ==
    LET rows == import[i].plan.inserts
        Here(r) == NumberedIn(staff, r.number) IN
    /\ import[i].at = "reported"
    /\ \A r \in rows : \A s \in Here(r) : ~Differs(staff[s], r)
    /\ \A r \in rows : r.number \notin Held(i)
    /\ import' = [import EXCEPT ![i].at = "inserted",
                                ![i].inserts = {r \in rows : Here(r) = {}}]
    /\ UNCHANGED <<staff, reports, pageEdits>>

\* the approved corrections, each on the row as it is now, and the commit
ApplyImport(i) ==
    LET imp == import[i]
        Target(r) == imp.source.corrections[r.number]
        Row(r) == [number |-> r.number, name |-> r.name, post |-> r.post, by |-> i]
        targets == {Target(r) : r \in imp.plan.updates}
        kept == Known(staff) \ targets
        written == imp.inserts \cup imp.plan.updates IN
    /\ imp.at = "inserted"
    /\ \A r \in written : \A s \in kept : staff[s].number # r.number
    /\ \A r \in written : r.number \notin Held(i)
    /\ \E new \in [imp.inserts -> StaffIds \ Known(staff)] :
          /\ \A r, q \in imp.inserts : new[r] = new[q] => r = q
          /\ staff' = [s \in StaffIds |->
                 IF \E r \in imp.plan.updates : Target(r) = s
                 THEN Row(CHOOSE r \in imp.plan.updates : Target(r) = s)
                 ELSE IF \E r \in imp.inserts : new[r] = s
                 THEN Row(CHOOSE r \in imp.inserts : new[r] = s)
                 ELSE staff[s]]
    /\ import' = [import EXCEPT ![i].at = "applied", ![i].inserts = {}]
    /\ UNCHANGED <<reports, pageEdits>>

\* create_staff and update_staff, each in its own transaction
EditStaff(s) ==
    \E n \in Numbers, name \in Names, post \in Posts :
        /\ pageEdits < MaxPageEdits
        /\ n \notin {r.number : r \in UNION {import[j].inserts : j \in Imports}}
        /\ NumberedIn(staff, n) \subseteq {s}
        /\ staff' = [staff EXCEPT ![s] =
              [number |-> n, name |-> name, post |-> post, by |-> NoStaff]]
        /\ pageEdits' = pageEdits + 1
        /\ UNCHANGED <<import, reports>>

ImportNext ==
    /\ \/ \E i \in Imports :
             PlanImport(i) \/ WriteReport(i) \/ InsertRows(i) \/ ApplyImport(i) \/ FailImport(i)
       \/ \E s \in StaffIds : EditStaff(s)
    /\ UNCHANGED bootVars

OpsNext == BootNext \/ ImportNext

OpsSpec == OpsInit /\ [][OpsNext]_opsVars

-----------------------------------------------------------------------------
(* Properties                                                              *)

\* A bootstrap that prints a result and left its PIN in Secret Manager without an
\* account says so: the operator is told to clean up, whatever the vault or the
\* database did with the calls.  (One that dies, or whose rollback raises, prints
\* nothing at all: then only the missing result tells.)  "bootstrapped" means that
\* both are there, and at most one administrator is ever made this way.
NoStrayPin ==
    /\ \A b \in Bootstraps :
          /\ boot[b].at = "done" /\ b \in stored \ opened
                => boot[b].says \in {"pin_version_outcome_unknown_cleanup_required",
                                     "orphan_pin_version_cleanup_required"}
          /\ boot[b].says = "bootstrapped" => b \in opened \cap stored
    /\ Cardinality(opened) <= 1

\* An import that has not been applied left no row behind, and one that has been
\* changed only the rows its approved corrections name and those it added under
\* the numbers of its source, however the roster was edited since it was planned.
ImportIsWhole ==
    \A s \in Known(staff) : staff[s].by \in Imports =>
        LET imp == import[staff[s].by] IN
        /\ imp.at = "applied"
        /\ \E r \in imp.source.rows : ~Differs(staff[s], r)
        /\ StartStaff[s] = NoStaff \/ \E n \in DOMAIN imp.source.corrections :
                                        imp.source.corrections[n] = s
=============================================================================
