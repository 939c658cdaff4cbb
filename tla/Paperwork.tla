------------------------------ MODULE Paperwork ------------------------------
(***************************************************************************)
(* Operational paperwork, from the page that edits it to the database:     *)
(*   - the routes and services that create, save, restore, copy, derive    *)
(*     and print records (backend/paperwork/service.py, actions.py;        *)
(*     webapp/web_api/paperwork.py, admin_daily_paperwork.py);             *)
(*   - the browser editors that call them (frontend/web/src/features/      *)
(*     paperwork and administration/paperwork): CountSheetPage,            *)
(*     RosterEditor, and the other five daily forms, which behave alike.   *)
(*                                                                         *)
(* A call is one fetch of the page.  Its idempotency key is made for it    *)
(* (mutationKey, idempotencyKey), so a call stands for its key: the user's *)
(* retry is another call, and only the transport delivers one twice.  The  *)
(* service runs a call in one transaction.  Everything from its first row  *)
(* lock to its commit is one step; the daily routes first read a record    *)
(* without a lock (_record_for_kind), which is a step before that one, and *)
(* keep working on what they read then.                                    *)
(*                                                                         *)
(* The content of a record is the id of the text that was typed: every     *)
(* edit has a new one.  A date and shift is a day.  Idempotency records    *)
(* outlive every call (see Idempotency for their 24 hours).                *)
(***************************************************************************)
EXTENDS Naturals, FiniteSets

CONSTANTS
    Records,        \* ids of paperwork_records
    Days,           \* work dates (with their shift), naturals
    Yesterday,      \* a roster of an earlier day that exists from the start
    Pages,          \* open editor pages
    KindOf,         \* [Pages -> Kinds]: the editor
    DayOf,          \* [Pages -> Days]: the date it was opened for
    PersonOf,       \* [Pages -> people]
    Admins,         \* the people who are administrators
    Calls,          \* calls of the pages
    MaxTexts,       \* bound on the edits
    None

Kinds == {"count_sheet", "assignment_roster", "uniform_inspection"}

ASSUME PaperworkAssumption ==
    /\ Days \subseteq Nat /\ MaxTexts \in Nat
    /\ Yesterday \in Records /\ None \notin Records \cup Calls \cup Pages \cup Kinds
    /\ KindOf \in [Pages -> Kinds] /\ DayOf \in [Pages -> Days]

VARIABLES
    record,     \* paperwork_records, content by revision number
    revision,   \* paperwork_revisions, with the call and page that wrote
                \* each and the revision its author had before
    receipt,    \* audited output actions
    call,       \* calls in progress and their idempotency records
    page,       \* what each page holds and shows
    typed       \* the last text typed

vars == <<record, revision, receipt, call, page, typed>>

NoRecord == [kind |-> None]
Unused == [page |-> None]
Spent  == [page |-> None, op |-> None]      \* over, the key is not used again
NoRead == [number |-> 0, day |-> 0, text |-> 0, from |-> None]

Revision(r, n, d, t, seen, by, from) ==
    [record |-> r, number |-> n, day |-> d, text |-> t,
     seen |-> seen, by |-> by, from |-> from,
     page |-> IF by = None THEN None ELSE call[by].page]
RowOf(r, n) == CHOOSE x \in revision : x.record = r /\ x.number = n
Current(r)  == RowOf(r, record[r].number)
Exists(r)   == record[r] # NoRecord
Running(c)  == call[c] \notin {Unused, Spent}

Init ==
    /\ \E d \in Days, owner \in Admins :
          /\ \A e \in Days : d <= e
          /\ record = [r \in Records |->
                IF r = Yesterday
                THEN [kind |-> "assignment_roster", day |-> d, number |-> 1, owner |-> owner]
                ELSE NoRecord]
          /\ revision = {[record |-> Yesterday, number |-> 1, day |-> d, text |-> 0,
                        seen |-> 0, by |-> None, from |-> None, page |-> None]}
    /\ receipt = {}
    /\ call = [c \in Calls |-> Unused]
    /\ page = [p \in Pages |-> [record |-> None, number |-> 0, text |-> 0,
                  state |-> IF KindOf[p] = "count_sheet" THEN "saved" ELSE "unsaved"]]
    /\ typed = 0

\* can_read_paperwork, can_edit_paperwork
MayEdit(p, r) == PersonOf[p] \in Admins \/ record[r].owner = PersonOf[p]

-----------------------------------------------------------------------------
(* The service                                                             *)

\* uq_paperwork_revisions_record_number, uq_paperwork_records_daily_date_shift
UniqueKeys(r, kind, day, n) ==
    /\ \A x \in revision : ~(x.record = r /\ x.number = n)
    /\ kind # "count_sheet" =>
        \A q \in Records \ {r} : ~(Exists(q) /\ record[q].kind = kind /\ record[q].day = day)

Answer(c, answer, r, n) ==
    call' = [call EXCEPT ![c].phase = "answered", ![c].answer = answer,
                         ![c].got = r, ![c].number = n, ![c].read = NoRead]
Refuse(c, why) ==
    /\ Answer(c, why, None, 0)
    /\ UNCHANGED <<record, revision, receipt, page, typed>>

\* _view_from_reference: the record as it is now
AnswerReplay(c) ==
    /\ Answer(c, "ok", call[c].ref, record[call[c].ref].number)
    /\ UNCHANGED <<record, revision, receipt, page, typed>>

\* add the revision, complete the idempotency record, commit
Commit(c, r, kind, row) ==
    /\ revision' = revision \cup {row}
    /\ record' = [record EXCEPT ![r] =
          [kind |-> kind, day |-> row.day, number |-> row.number,
           owner |-> IF Exists(r) THEN record[r].owner ELSE PersonOf[call[c].page]]]
    /\ call' = [call EXCEPT ![c].phase = "answered", ![c].answer = "ok", ![c].ref = r,
                            ![c].got = r, ![c].number = row.number, ![c].read = NoRead]
    /\ UNCHANGED <<receipt, page, typed>>

\* Faulty: trusts If-Match, which the route only compares with the body.
SaveUnchecked(c) ==
    LET o == call[c]  r == call[c].record  n == record[r].number + 1 IN
    /\ Running(c) /\ o.phase = "sent" /\ o.op = "save"
    /\ Commit(c, r, record[r].kind, Revision(r, n, o.day, o.text, o.base, c, None))
\* save_paperwork_record of an existing record: the base is checked before
\* the key is claimed, so a second delivery is told of a conflict
Save(c) ==
    LET o == call[c]  r == call[c].record  n == record[r].number + 1 IN
    /\ Running(c) /\ o.phase = "sent" /\ o.op = "save"
    /\ IF ~MayEdit(o.page, r) THEN Refuse(c, "refused")
       ELSE IF record[r].number # o.base \/ ~UniqueKeys(r, record[r].kind, o.day, n)
       THEN Refuse(c, "conflict")
       ELSE Commit(c, r, record[r].kind, Revision(r, n, o.day, o.text, o.base, c, None))

\* Faulty: claims no key.
CreateAgain(c, kind, text, from) ==
    \/ \E r \in Records :
          /\ ~Exists(r) /\ UniqueKeys(r, kind, call[c].day, 1)
          /\ Commit(c, r, kind, Revision(r, 1, call[c].day, text, 0, c, from))
    \/ /\ \A r \in Records : ~Exists(r) => ~UniqueKeys(r, kind, call[c].day, 1)
       /\ Refuse(c, "conflict")
\* save_paperwork_record without a record: the claim, then the new row
SaveNew(c, kind, text, from) ==
    LET first == RowOf(call[c].ref, 1) IN
    IF call[c].ref # None
    THEN IF first.text = text /\ first.from = from
         THEN AnswerReplay(c)
         ELSE Refuse(c, "conflict")             \* another request digest
    ELSE \/ \E r \in Records :
               /\ ~Exists(r) /\ UniqueKeys(r, kind, call[c].day, 1)
               /\ Commit(c, r, kind, Revision(r, 1, call[c].day, text, 0, c, from))
         \/ /\ \A r \in Records : ~Exists(r) => ~UniqueKeys(r, kind, call[c].day, 1)
            /\ Refuse(c, "conflict")

\* create_route, create_daily_route
Create(c) ==
    /\ Running(c) /\ call[c].phase = "sent" /\ call[c].op = "create"
    /\ SaveNew(c, KindOf[call[c].page], call[c].text, None)

\* copy_previous_daily_record, up to its call of save_paperwork_record
ReadPrevious(c) ==
    LET kept(r) == Exists(r) /\ record[r].kind = "assignment_roster"
        earlier == {r \in Records : kept(r) /\ record[r].day < call[c].day} IN
    /\ Running(c) /\ call[c].phase = "sent" /\ call[c].op = "copy"
    /\ IF \/ earlier = {}
          \/ \E r \in Records : kept(r) /\ record[r].day = call[c].day
       THEN Refuse(c, "refused")                \* record_already_exists, not_found
       ELSE /\ \E r \in earlier :
                  /\ \A q \in earlier : record[q].day <= record[r].day
                  /\ call' = [call EXCEPT ![c].phase = "read",
                                          ![c].read = [NoRead EXCEPT !.text = Current(r).text]]
            /\ UNCHANGED <<record, revision, receipt, page, typed>>

SaveCopy(c) ==
    /\ Running(c) /\ call[c].phase = "read" /\ call[c].op = "copy"
    /\ SaveNew(c, "assignment_roster", call[c].read.text, None)

\* derive_uniform_route: the roster is read without a lock
ReadRoster(c) ==
    LET r == call[c].record IN
    /\ Running(c) /\ call[c].phase = "sent" /\ call[c].op = "derive"
    /\ call' = [call EXCEPT ![c].phase = "read",
          ![c].read = [NoRead EXCEPT !.text = Current(r).text, !.from = <<r, record[r].number>>]]
    /\ UNCHANGED <<record, revision, receipt, page, typed>>

\* Faulty: asks for the revision number when it saves.
SaveDerivedLate(c) ==
    LET r == call[c].read.from[1] IN
    /\ Running(c) /\ call[c].phase = "read" /\ call[c].op = "derive"
    /\ SaveNew(c, "uniform_inspection", call[c].read.text, <<r, record[r].number>>)
SaveDerived(c) ==
    /\ Running(c) /\ call[c].phase = "read" /\ call[c].op = "derive"
    /\ SaveNew(c, "uniform_inspection", call[c].read.text, call[c].read.from)

\* _record_for_kind of restore_daily_route and daily_action_route; the
\* locked SELECT that follows gives back this object as it was read
ReadRecord(c) ==
    LET r == call[c].record IN
    /\ Running(c) /\ call[c].phase = "sent" /\ call[c].op \in {"restore", "action"}
    /\ record[r].kind # "count_sheet"
    /\ call' = [call EXCEPT ![c].phase = "read", ![c].read.number = record[r].number]
    /\ UNCHANGED <<record, revision, receipt, page, typed>>

\* the revision number the handler works with
Known(c) ==
    IF call[c].phase = "read" THEN call[c].read.number ELSE record[call[c].record].number
Locked(c) ==
    \/ call[c].phase = "read"
    \/ call[c].phase = "sent" /\ record[call[c].record].kind = "count_sheet"

\* restore_paperwork_record, from restore_route and restore_daily_route
Restore(c) ==
    LET r == call[c].record  src == RowOf(call[c].record, call[c].base)  n == Known(c) + 1 IN
    /\ Running(c) /\ call[c].op = "restore" /\ Locked(c)
    /\ IF ~MayEdit(call[c].page, r) THEN Refuse(c, "refused")
       ELSE IF call[c].ref # None THEN AnswerReplay(c)
       ELSE IF ~UniqueKeys(r, record[r].kind, src.day, n) THEN Refuse(c, "conflict")
       ELSE Commit(c, r, record[r].kind,
                   Revision(r, n, src.day, src.text, Known(c), c, src.from))

\* record_paperwork_action, from action_route and daily_action_route
Act(c) ==
    LET r == call[c].record  n == Known(c) IN
    /\ Running(c) /\ call[c].op = "action" /\ Locked(c)
    /\ IF ~MayEdit(call[c].page, r) THEN Refuse(c, "refused")
       ELSE IF call[c].ref # None
       THEN Refuse(c, IF \E x \in receipt : x.by = c /\ x.number = n THEN "ok" ELSE "conflict")
       ELSE /\ receipt' = receipt \cup {[record |-> r, number |-> n, by |-> c]}
            /\ call' = [call EXCEPT ![c].phase = "answered", ![c].answer = "ok", ![c].ref = r,
                                    ![c].read = NoRead]
            /\ UNCHANGED <<record, revision, page, typed>>

\* session, CSRF, elevation, a dependency, a rollback
Reject(c) ==
    /\ Running(c) /\ call[c].phase \in {"sent", "read"}
    /\ Refuse(c, "refused")

\* the answer is lost below the page and the request delivered once more
Redeliver(c) ==
    /\ Running(c) /\ call[c].phase = "answered" /\ call[c].answer = "ok" /\ ~call[c].again
    /\ call' = [call EXCEPT ![c].phase = "sent", ![c].answer = "none", ![c].again = TRUE,
                            ![c].got = None, ![c].number = 0, ![c].read = NoRead]
    /\ UNCHANGED <<record, revision, receipt, page, typed>>

-----------------------------------------------------------------------------
(* The pages                                                               *)

Mine(p) == {c \in Calls : Running(c) /\ call[c].page = p}
Waits(c) == Running(c) /\ call[c].waits

Send(p, op, r, base, text) ==
    \E c \in Calls :
        /\ call[c] = Unused
        /\ call' = [call EXCEPT ![c] =
              [page |-> p, op |-> op, record |-> r, base |-> base, day |-> DayOf[p],
               text |-> text, read |-> NoRead, ref |-> None, phase |-> "sent",
               answer |-> "none", got |-> None, number |-> 0, again |-> FALSE,
               waits |-> TRUE, fresh |-> TRUE, mounted |-> TRUE]]

\* the draft of p changes: no call of p speaks of it any more
Draft(p, c) == Running(c) /\ call[c].page = p /\ call[c].waits
               /\ call[c].op \in {"save", "create"}
Stale(p, f) == [c \in Calls |-> IF Draft(p, c) /\ f[c] # Spent
                                THEN [f[c] EXCEPT !.fresh = FALSE] ELSE f[c]]
\* a keyed daily editor is mounted anew for another revision
Remount(p, f) == [c \in Calls |-> IF Draft(p, c) /\ f[c] # Spent
                                  THEN [f[c] EXCEPT !.mounted = FALSE] ELSE f[c]]

\* the pages of the lists open a record of their kind
Open(p, r) ==
    /\ Mine(p) = {} /\ page[p].record = None /\ page[p].text = 0
    /\ Exists(r) /\ record[r].kind = KindOf[p] /\ MayEdit(p, r)
    /\ page' = [page EXCEPT ![p] = [record |-> r, number |-> record[r].number,
                                    text |-> Current(r).text, state |-> "saved"]]
    /\ UNCHANGED <<record, revision, receipt, call, typed>>

Type(p) ==
    /\ typed < MaxTexts
    /\ typed' = typed + 1
    /\ page' = [page EXCEPT ![p].text = typed', ![p].state = "unsaved"]
    /\ call' = IF KindOf[p] = "assignment_roster" THEN Stale(p, call) ELSE call
    /\ UNCHANGED <<record, revision, receipt>>

\* the Save button, which only CountSheetPage disables while it saves, and
\* useDailyAutosave
SavePage(p) ==
    /\ KindOf[p] = "count_sheet" => page[p].state # "saving"
    /\ page[p].state # "saved"
    /\ Send(p, IF page[p].record = None THEN "create" ELSE "save",
            page[p].record, page[p].number, page[p].text)
    /\ page' = [page EXCEPT ![p].state = "saving"]
    /\ UNCHANGED <<record, revision, receipt, typed>>

\* copyPrevious, importRoster
Fill(p) ==
    /\ \/ KindOf[p] = "assignment_roster" /\ Send(p, "copy", None, 0, 0)
       \/ /\ KindOf[p] = "uniform_inspection"
          /\ \E r \in Records :
                /\ Exists(r) /\ record[r].kind = "assignment_roster"
                /\ Send(p, "derive", r, 0, 0)
    /\ UNCHANGED <<record, revision, receipt, page, typed>>

\* DailyRevisionPanel, restoreCountSheet; print, preview
FromPanel(p) ==
    /\ page[p].record # None
    /\ \/ \E x \in revision :
            x.record = page[p].record /\ Send(p, "restore", x.record, x.number, 0)
       \/ Send(p, "action", page[p].record, 0, 0)
    /\ UNCHANGED <<record, revision, receipt, page, typed>>

\* webApiRequest fails: what the save was waiting for may still happen
Lose(c) ==
    LET p == call[c].page IN
    /\ Waits(c)
    /\ call' = [call EXCEPT ![c].waits = FALSE, ![c].fresh = TRUE, ![c].mounted = TRUE]
    /\ page' = IF call[c].op \in {"save", "create"} /\ call[c].mounted
               THEN [page EXCEPT ![p].state =
                        IF KindOf[p] = "assignment_roster" /\ ~call[c].fresh
                        THEN "unsaved" ELSE "reconnecting"]
               ELSE page
    /\ UNCHANGED <<record, revision, receipt, typed>>

Show(r, n) == [record |-> r, number |-> n, text |-> RowOf(r, n).text, state |-> "saved"]

\* Faulty: takes the saved roster over whatever is on the page.
AcceptRosterAlways(c) ==
    LET p == call[c].page  r == call[c].got  n == call[c].number IN
    /\ page' = [page EXCEPT ![p] = Show(r, n)]
    /\ call' = Stale(p, [call EXCEPT ![c] = Spent])
\* Faulty: keeps what was typed meanwhile, but calls it saved.
AcceptRosterSaved(c) ==
    /\ page' = [page EXCEPT ![call[c].page].record = call[c].got,
                            ![call[c].page].number = call[c].number,
                            ![call[c].page].state = "saved"]
    /\ call' = [call EXCEPT ![c] = Spent]
\* RosterEditor: the saved roster replaces the draft only if that is still
\* the one that was sent; anything else the user asked for replaces it
AcceptRoster(c) ==
    LET p == call[c].page  r == call[c].got  n == call[c].number
        done == [call EXCEPT ![c] = Spent]  IN
    IF call[c].op \in {"save", "create"} /\ ~call[c].fresh
    THEN /\ page' = [page EXCEPT ![p].record = r, ![p].number = n, ![p].state = "unsaved"]
         /\ call' = done
    ELSE /\ page' = [page EXCEPT ![p] = Show(r, n)]
         /\ call' = Stale(p, done)

\* CountSheetPage and the daily forms: the saved record replaces the draft
AcceptForm(c) ==
    LET p == call[c].page IN
    /\ page' = [page EXCEPT ![p] = Show(call[c].got, call[c].number)]
    /\ call' = IF KindOf[p] = "count_sheet"
               THEN [call EXCEPT ![c] = Spent]
               ELSE Remount(p, [call EXCEPT ![c] = Spent])

\* a call that failed: only a save changes what the page says
AcceptFailure(c) ==
    LET p == call[c].page IN
    /\ call' = [call EXCEPT ![c] = Spent]
    /\ page' = IF call[c].op \in {"save", "create"} /\ call[c].mounted
               THEN [page EXCEPT ![p].state =
                        IF KindOf[p] = "assignment_roster" /\ ~call[c].fresh THEN "unsaved"
                        ELSE IF call[c].answer = "conflict" THEN "conflict" ELSE "failed"]
               ELSE page

Hear(c) ==
    /\ Waits(c) /\ call[c].phase = "answered"
    /\ IF call[c].answer # "ok" THEN AcceptFailure(c)
       ELSE IF call[c].op = "action" THEN call' = [call EXCEPT ![c] = Spent] /\ UNCHANGED page
       ELSE IF KindOf[call[c].page] = "assignment_roster" THEN AcceptRoster(c)
       ELSE AcceptForm(c)
    /\ UNCHANGED <<record, revision, receipt, typed>>

\* an answer nobody waits for
Drop(c) ==
    /\ Running(c) /\ ~call[c].waits /\ call[c].phase = "answered"
    /\ call' = [call EXCEPT ![c] = Spent]
    /\ UNCHANGED <<record, revision, receipt, page, typed>>

Next ==
    \/ \E c \in Calls :
          \/ Save(c) \/ Create(c) \/ Restore(c) \/ Act(c)
          \/ ReadPrevious(c) \/ SaveCopy(c) \/ ReadRoster(c) \/ SaveDerived(c) \/ ReadRecord(c)
          \/ Reject(c) \/ Redeliver(c) \/ Lose(c) \/ Hear(c) \/ Drop(c)
    \/ \E p \in Pages :
          \/ Type(p) \/ SavePage(p) \/ Fill(p) \/ FromPanel(p)
          \/ \E r \in Records : Open(p, r)

Spec == Init /\ [][Next]_vars

-----------------------------------------------------------------------------
(* Properties                                                              *)

\* The current row of a record is its newest revision, no number is used
\* twice or skipped, and each revision was written by somebody who had the
\* one before, also when the handler worked on an object read before the
\* lock or the call was delivered twice.
HistoryIsWhole ==
    \A r \in Records : Exists(r) =>
        LET mine == {x \in revision : x.record = r} IN
        /\ {x.number : x \in mine} = 1 .. record[r].number
        /\ Cardinality(mine) = record[r].number
        /\ Current(r).day = record[r].day
        /\ \A x \in mine : x.seen = x.number - 1

\* A call writes at most one revision and a call that was answered with a
\* record has written it, however often it was delivered.
OncePerCall ==
    /\ \A x, y \in revision : x.by = y.by /\ x.by # None => x = y
    /\ \A c \in Calls : Running(c) /\ call[c].answer = "ok" /\ call[c].op # "action" =>
          \E x \in revision : x.by = c /\ x.record = call[c].got /\ x.number <= call[c].number

\* An inspection names the roster revision its rows were taken from, though
\* the roster is read without a lock.
ProvenanceIsTrue ==
    \A x \in revision : x.from # None =>
        \E y \in revision : /\ y.record = x.from[1] /\ y.number = x.from[2]
                            /\ y.text = x.text

\* "Saved to server" is shown only over text that is the content of the
\* revision the page holds.
SavedIsSaved ==
    \A p \in Pages : page[p].state = "saved" /\ page[p].record # None =>
        \E x \in revision : /\ x.record = page[p].record /\ x.number = page[p].number
                            /\ x.text = page[p].text

\* What was typed into a roster and is in no revision yet is replaced only
\* by typing on or by a copy or restore the user asked for: a save that ends
\* while the user types leaves it alone.
TypedWorkKept ==
    [][\A p \in Pages :
          /\ KindOf[p] = "assignment_roster"
          /\ page[p].text # 0 /\ ~\E x \in revision : x.text = page[p].text
          /\ page'[p].text # page[p].text
          => \/ typed' = typed + 1
             \/ \E c \in Mine(p) : call[c].op \in {"copy", "restore"} /\ call'[c] = Spent]_vars
=============================================================================
