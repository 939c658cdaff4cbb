------------------------------- MODULE Listings -------------------------------
(***************************************************************************)
(* The paged lists: incidents, reports, revisions, paperwork, staff,       *)
(* accounts, sessions and audit events.  Every list is read page by page,  *)
(* each page a query of its own in a request of its own, while the rows    *)
(* are edited, shared and added.                                           *)
(*                                                                         *)
(* A page holds the next PageSize rows in the list's order, ties broken by *)
(* the row's id.  One row more is asked for to know whether there is a     *)
(* next page; the cursor names the last row of the page by its sort key    *)
(* and id, and is signed (webapp/api_v1/pagination.py).                    *)
(*                                                                         *)
(* A row's times are read when its request starts, so that a commit may    *)
(* carry an older time than rows that are already there.                   *)
(*                                                                         *)
(* The browser's /paperwork/daily is not one of them: it shows the latest  *)
(* 50 records and never gives a cursor, so the rest cannot be read on.     *)
(***************************************************************************)
EXTENDS Naturals, Sequences, FiniteSets

CONSTANTS
    Entries,        \* row ids, ordered
    Readers,        \* people
    Lists,          \* the lists that are read: a subset of those below
    Passes,         \* walks through a list, page after page
    PageSize,
    Times,          \* times a row may carry
    MaxEdits,       \* bound on the edits
    StartRows,      \* row contents at first
    NoList

\* one row of the listed table; the lists of revisions are ordered by the revision
\* number, which stands in the place of `created`
ListedRow == [there : BOOLEAN, created : Times, updated : Times,
              sharedWith : SUBSET Readers, author : Readers]

\* times and ids are compared, a page holds something, and NoList is no cursor
ASSUME ListingsAssumption ==
    /\ IsFiniteSet(Entries) /\ Entries \subseteq Nat /\ Times \subseteq Nat
    /\ PageSize \in Nat \ {0}
    /\ StartRows \subseteq [Entries -> ListedRow]
    /\ Lists \subseteq {"incidents", "all incidents", "reports", "paperwork",
                        "all paperwork", "staff", "audit v1", "revisions"}
    /\ NoList \notin Lists \cup [time : Times, id : Entries]

VARIABLES
    table,      \* [Entries -> [there, created, updated, sharedWith, author]]
    pass,       \* [Passes -> the client's walk]
    edits

listVars == <<table, pass, edits>>

Closed == [at |-> "closed", list |-> NoList, reader |-> NoList, cursor |-> NoList,
           shown |-> <<>>, due |-> {}, touched |-> {}]

ListingsInit ==
    /\ table \in StartRows
    /\ pass = [p \in Passes |-> Closed] /\ edits = 0

-----------------------------------------------------------------------------
(* Which rows a list has for a reader, and in which order                  *)

There == {i \in Entries : table[i].there}

\* incidents and reports reach those they are shared with
SharedRows(r) == {i \in There : r \in table[i].sharedWith}

\* an officer's own paperwork
OwnRows(r) == {i \in There : table[i].author = r}

\* an administrator's lists: incidents, report search, paperwork, staff, accounts,
\* audit
AllRows(r) == There

RowsOf(list, r) ==
    CASE list \in {"incidents", "reports"} -> SharedRows(r)
      [] list = "paperwork" -> OwnRows(r)
      [] list \in {"all incidents", "all paperwork", "staff", "audit v1", "revisions"} ->
            AllRows(r)

\* the latest changed first
NewestFirst(list) ==
    list \in {"incidents", "all incidents", "reports", "paperwork", "all paperwork"}

SortKey(list, i) ==
    [time |-> IF NewestFirst(list) THEN table[i].updated ELSE table[i].created, id |-> i]

\* ties in time are broken by the id, in the query and in the order alike
ComesAfter(list, a, b) ==
    IF NewestFirst(list)
    THEN a.time < b.time \/ (a.time = b.time /\ a.id < b.id)
    ELSE a.time > b.time \/ (a.time = b.time /\ a.id > b.id)

\* the query of one page: rows after the cursor
Remaining(p, list, r) ==
    {i \in RowsOf(list, r) :
        pass[p].cursor # NoList => ComesAfter(list, SortKey(list, i), pass[p].cursor)}

\* its first n rows, in order
FirstRows(list, rows, n) ==
    LET Rank(i) == Cardinality({j \in rows : ComesAfter(list, SortKey(list, i), SortKey(list, j))})
        size == IF Cardinality(rows) < n THEN Cardinality(rows) ELSE n IN
    [k \in 1 .. size |-> CHOOSE i \in rows : Rank(i) = k - 1]

-----------------------------------------------------------------------------
(* Reading                                                                 *)

\* Faulty: the cursor names the extra row
CursorOfExtra(list, got) == SortKey(list, got[Len(got)])

\* the last row of the page
CursorOf(list, got) == SortKey(list, got[PageSize])

\* the cursor's codec takes the keys created_at and id only; the older audit
\* route gives it occurred_at and event_id
CanEncode(list) == list # "audit v1"

\* one request: a page, and a cursor when there is more
ReadRows(p, list, r, due) ==
    LET got == FirstRows(list, Remaining(p, list, r), PageSize + 1)
        more == Len(got) > PageSize
        shown == IF more THEN SubSeq(got, 1, PageSize) ELSE got IN
    pass' = [pass EXCEPT ![p] =
        IF more /\ ~CanEncode(list)
        THEN [@ EXCEPT !.at = "failed", !.list = list, !.reader = r, !.due = due]
        ELSE [at |-> IF more THEN "reading" ELSE "done", list |-> list, reader |-> r,
              cursor |-> IF more THEN CursorOf(list, got) ELSE NoList,
              shown |-> @.shown \o shown, due |-> due, touched |-> @.touched]]

OpenList(p) ==
    \E list \in Lists, r \in Readers :
        /\ pass[p].at = "closed"
        /\ ReadRows(p, list, r, RowsOf(list, r))
        /\ UNCHANGED <<table, edits>>

NextPage(p) ==
    /\ pass[p].at = "reading"
    /\ ReadRows(p, pass[p].list, pass[p].reader, pass[p].due)
    /\ UNCHANGED <<table, edits>>

-----------------------------------------------------------------------------
(* Meanwhile                                                               *)

Edited(i, row) ==
    /\ edits < MaxEdits /\ edits' = edits + 1
    /\ table' = [table EXCEPT ![i] = row]
    /\ pass' = [p \in Passes |->
                   IF pass[p].at = "reading" THEN [pass[p] EXCEPT !.touched = @ \cup {i}]
                   ELSE pass[p]]

\* a save moves the row in the lists ordered by its last change
SaveRow(i) == \E t \in Times : table[i].there /\ Edited(i, [table[i] EXCEPT !.updated = t])

AddRow(i) ==
    \E t \in Times, r \in Readers :
        /\ ~table[i].there
        /\ Edited(i, [there |-> TRUE, created |-> t, updated |-> t,
                       sharedWith |-> {r}, author |-> r])

ShareRow(i) ==
    \E r \in Readers :
        /\ table[i].there
        /\ Edited(i, [table[i] EXCEPT !.sharedWith = IF r \in @ THEN @ \ {r} ELSE @ \cup {r}])

ListingsNext ==
    \/ \E p \in Passes : OpenList(p) \/ NextPage(p)
    \/ \E i \in Entries : SaveRow(i) \/ AddRow(i) \/ ShareRow(i)

ListingsSpec == ListingsInit /\ [][ListingsNext]_listVars

-----------------------------------------------------------------------------
(* Properties                                                              *)

\* Whoever reads a list to its end has been shown every row that was on it and
\* that nobody touched meanwhile exactly once, whatever happened to the others
\* between two pages; and nothing that was neither on the list nor touched.
UntouchedShownOnce ==
    \A p \in Passes : \A i \in Entries \ pass[p].touched :
        LET times == Cardinality({n \in DOMAIN pass[p].shown : pass[p].shown[n] = i}) IN
        /\ times <= 1
        /\ pass[p].at = "done" => (times = 1 <=> i \in pass[p].due)

\* What the plan of the report API says of GET /api/v1/admin/audit-events: it
\* supports an "opaque cursor and limit", so that a list longer than a page can
\* be read on.
PagesGoOn == \A p \in Passes : pass[p].at # "failed"
=============================================================================
