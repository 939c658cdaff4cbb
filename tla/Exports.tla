------------------------------- MODULE Exports -------------------------------
(***************************************************************************)
(* Word exports of saved reports (backend/reports/export_service.py): one  *)
(* explicit revision (webapp/api_v1/reports.py, admin_reports.py), or a    *)
(* bounded archive of the revisions current at the request                 *)
(* (bulk_export_route).                                                    *)
(*                                                                         *)
(* An export is one transaction: claim the idempotency key, resolve the    *)
(* selection, generate each document, write an exports row per document,   *)
(* one audit event, and what the key stands for.  The archive's            *)
(* transaction is REPEATABLE READ; its search and its read of the current  *)
(* revisions are two statements.  The answer may be lost after the commit  *)
(* and the client sends the request again with the same key.               *)
(*                                                                         *)
(* A report's revision is its number and whether the filter finds it.      *)
(***************************************************************************)
EXTENDS Naturals, Sequences, FiniteSets

CONSTANTS
    ExportReports,  \* reports
    ExportRequests, \* export requests, a retry being one of its own
    Keys,           \* idempotency keys
    Asked,          \* what is asked under each key: [Keys -> [mode, reports, revision]]
    MaxDocuments,   \* BULK_EXPORT_MAX_DOCUMENTS
    MaxSaves,       \* bound on new revisions
    MaxExpiries,    \* bound on records that expire
    NoExport

\* a request names one revision, names reports, or searches for them; NoExport is
\* no record of an export
ASSUME ExportsAssumption ==
    /\ Asked \in [Keys -> [mode : {"one", "reports", "filters"},
                           reports : SUBSET ExportReports, revision : Nat]]
    /\ NoExport \notin [documents : SUBSET [report : ExportReports, revision : Nat],
                        failures : SUBSET [report : ExportReports, revision : Nat]]

VARIABLES
    moments,    \* the committed reports, after each save: the last is now
    exporting,  \* [ExportRequests -> the state of the transaction]
    exportRecord,   \* [Keys -> what the completed record names, or NoExport]
    rows,       \* [Keys -> exports rows, [report, revision], under its record]
    exported,   \* completed exports, in order: key and documents
    archives,   \* what was answered: key, documents, failures
    expiries

exportVars == <<moments, exporting, exportRecord, rows, exported, archives, expiries>>

NoRequest == [at |-> "idle", key |-> NoExport, moment |-> 0, seen |-> NoExport,
              replay |-> FALSE, todo |-> {}, found |-> {}, documents |-> {}, failures |-> {}]

ExportsInit ==
    /\ moments = << [r \in ExportReports |-> [revision |-> 1, matches |-> TRUE]] >>
    /\ exporting = [q \in ExportRequests |-> NoRequest]
    /\ exportRecord = [k \in Keys |-> NoExport] /\ rows = [k \in Keys |-> {}]
    /\ exported = <<>> /\ archives = {} /\ expiries = 0

Now == moments[Len(moments)]
Want(q) == Asked[exporting[q].key]
Bulk(q) == Want(q).mode # "one"
Current(at, r) == [report |-> r, revision |-> at[r].revision]

\* Faulty: the transaction is left at READ COMMITTED
ViewLatest(q) == Now

\* what a statement of the transaction sees: its snapshot, or the latest commits
View(q) == IF Bulk(q) THEN moments[exporting[q].moment] ELSE Now

Moves(q, r) == exporting' = [exporting EXCEPT ![q] = r]

-----------------------------------------------------------------------------
(* The request                                                             *)

\* the step-up is consumed; it is the first statement, which fixes the snapshot
BeginExport(q, k) ==
    /\ exporting[q].at = "idle"
    /\ Moves(q, [NoRequest EXCEPT !.at = "begun", !.key = k,
                            !.moment = Len(moments), !.seen = exportRecord[k]])
    /\ UNCHANGED <<moments, exportRecord, rows, exported, archives, expiries>>

\* an open transaction has written the key's record: the insert waits
Claimed(k) ==
    \E p \in ExportRequests :
        exporting[p].key = k /\ exporting[p].at \in {"claimed", "found", "made"}

Replays(q) == exportRecord[exporting[q].key] # NoExport

\* claim_idempotency.  A record that was committed after the snapshot cannot be
\* read by a REPEATABLE READ transaction: it fails to serialize.
ClaimExport(q) ==
    LET req == exporting[q]
        known == exportRecord[req.key] IN
    /\ req.at = "begun" /\ ~Claimed(req.key)
    /\ Bulk(q) /\ Replays(q) => known = req.seen
    /\ IF ~Replays(q)
       THEN Moves(q, [req EXCEPT !.at = "claimed", !.seen = NoExport])
       ELSE Moves(q, [req EXCEPT !.at = "found", !.replay = TRUE, !.seen = NoExport,
                                 !.todo = known.documents, !.failures = known.failures])
    /\ UNCHANGED <<moments, exportRecord, rows, exported, archives, expiries>>

\* the selection: the named revision, the named reports, or what the search finds
FindReports(q) ==
    LET req == exporting[q]
        hits == {r \in Want(q).reports : Want(q).mode = "filters" => View(q)[r].matches} IN
    /\ req.at = "claimed" /\ req.found = {} /\ hits # {}
    /\ Cardinality(hits) <= MaxDocuments
    /\ Moves(q, [req EXCEPT !.found = hits])
    /\ UNCHANGED <<moments, exportRecord, rows, exported, archives, expiries>>

\* _current_revisions, in a statement of its own
LoadRevisions(q) ==
    LET req == exporting[q] IN
    /\ req.at = "claimed" /\ req.found # {}
    /\ Moves(q, [req EXCEPT !.at = "found",
                            !.todo = {IF Bulk(q) THEN Current(View(q), r)
                                      ELSE [report |-> r, revision |-> Want(q).revision] :
                                         r \in req.found}])
    /\ UNCHANGED <<moments, exportRecord, rows, exported, archives, expiries>>

\* the exports row id is derived from the record and the revision
Colliding(q) == ~exporting[q].replay /\ exporting[q].todo \cap rows[exporting[q].key] # {}

\* every document is generated; in an archive one may fail, alone it fails all
MakeDocument(q) ==
    LET req == exporting[q] IN
    /\ req.at = "found" /\ ~Colliding(q)
    /\ \E failed \in SUBSET req.todo :
          /\ ~Bulk(q) => failed = {}
          /\ Moves(q, [req EXCEPT !.at = "made", !.todo = {}, !.documents = req.todo \ failed,
                                  !.failures = @ \cup failed])
    /\ UNCHANGED <<moments, exportRecord, rows, exported, archives, expiries>>

\* Faulty: a replay is recorded like the first export
RecordsAlways(q) == TRUE

Records(q) == ~exporting[q].replay

\* rows, audit event and reference are committed together; the answer may be lost
CommitExport(q) ==
    LET req == exporting[q]
        known == [documents |-> req.documents, failures |-> req.failures] IN
    /\ req.at = "made"
    /\ IF Records(q)
       THEN /\ exportRecord' = [exportRecord EXCEPT ![req.key] = known]
            /\ rows' = [rows EXCEPT ![req.key] = @ \cup req.documents]
            /\ exported' = Append(exported, [key |-> req.key, documents |-> req.documents,
                                             failures |-> req.failures])
       ELSE UNCHANGED <<exportRecord, rows, exported>>
    /\ \E answered \in BOOLEAN :
          archives' = IF answered
                      THEN archives \cup {[key |-> req.key, documents |-> req.documents]}
                      ELSE archives
    /\ Moves(q, [NoRequest EXCEPT !.at = "done"])
    /\ UNCHANGED <<moments, expiries>>

\* no match, too many, a serialization failure, a lost connection: rolled back
RefuseExport(q) ==
    /\ exporting[q].at \in {"begun", "claimed", "found", "made"}
    /\ Moves(q, [NoRequest EXCEPT !.at = "done"])
    /\ UNCHANGED <<moments, exportRecord, rows, exported, archives, expiries>>

\* after a day the record is claimed afresh, under the same record id
ExpireRecord(k) ==
    /\ expiries < MaxExpiries /\ exportRecord[k] # NoExport /\ ~Claimed(k)
    /\ exportRecord' = [exportRecord EXCEPT ![k] = NoExport]
    /\ expiries' = expiries + 1
    /\ UNCHANGED <<moments, exporting, rows, exported, archives>>

\* a report is saved meanwhile
ReviseReport(r) ==
    /\ Len(moments) <= MaxSaves
    /\ \E m \in BOOLEAN :
          moments' = Append(moments,
                            [Now EXCEPT ![r] = [revision |-> @.revision + 1, matches |-> m]])
    /\ UNCHANGED <<exporting, exportRecord, rows, exported, archives, expiries>>

ExportsNext ==
    \/ \E q \in ExportRequests :
          \/ \E k \in Keys : BeginExport(q, k)
          \/ ClaimExport(q) \/ FindReports(q) \/ LoadRevisions(q) \/ MakeDocument(q)
          \/ CommitExport(q) \/ RefuseExport(q)
    \/ \E k \in Keys : ExpireRecord(k)
    \/ \E r \in ExportReports : ReviseReport(r)

ExportsSpec == ExportsInit /\ [][ExportsNext]_exportVars

-----------------------------------------------------------------------------
(* Properties                                                              *)

Selection(k, at) ==
    {Current(at, r) : r \in {x \in Asked[k].reports : Asked[k].mode = "filters" => at[x].matches}}

\* An archive answers one point in time: there is one moment at which its
\* documents and failures were exactly the current revisions of what was
\* selected, however reports are saved while it is put together.
ArchiveIsOneMoment ==
    \A n \in DOMAIN exported :
        LET x == exported[n] IN
        Asked[x.key].mode # "one" =>
            \E m \in DOMAIN moments : x.documents \cup x.failures = Selection(x.key, moments[m])

\* Every exports row belongs to one completed, audited export and none was
\* written twice; a key has a second audited export only after its record
\* expired; and whatever is answered under a key, the first time or again, holds
\* only documents recorded for it.
RecordedOnce ==
    /\ \A n, m \in DOMAIN exported :
          n # m /\ exported[n].key = exported[m].key =>
              /\ expiries > 0
              /\ exported[n].documents \cap exported[m].documents = {}
    /\ \A k \in Keys : rows[k] = UNION {exported[n].documents : n \in {m \in DOMAIN exported :
                                                                        exported[m].key = k}}
    /\ \A a \in archives : a.documents \subseteq rows[a.key]
=============================================================================
