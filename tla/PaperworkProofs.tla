--------------------------- MODULE PaperworkProofs ---------------------------
(***************************************************************************)
(* Proofs about Paperwork for any number of records, pages and calls.      *)
(***************************************************************************)
EXTENDS Paperwork, FiniteSetTheorems, TLAPS

Ops     == {"save", "create", "copy", "derive", "restore", "action"}
Phases  == {"sent", "read", "answered"}
Answers == {"none", "ok", "refused", "conflict"}
States  == {"saved", "saving", "unsaved", "reconnecting", "conflict", "failed"}
Origins == {None} \cup (Records \X Nat)
Reads   == [number : Nat, day : Nat, text : Nat, from : Origins]
CallRows ==
    [page : Pages, op : Ops, record : Records \cup {None}, base : Nat, day : Days,
     text : Nat, read : Reads, ref : Records \cup {None}, phase : Phases,
     answer : Answers, got : Records \cup {None}, number : Nat, again : BOOLEAN,
     waits : BOOLEAN, fresh : BOOLEAN, mounted : BOOLEAN]
RecordRows ==
    [kind : Kinds, day : Days, number : Nat, owner : Admins \cup {PersonOf[p] : p \in Pages}]
RevisionRows ==
    [record : Records, number : Nat, day : Days, text : Nat, seen : Nat,
     by : Calls \cup {None}, from : Origins, page : Pages \cup {None}]
PageRows == [record : Records \cup {None}, number : Nat, text : Nat, state : States]

\* Every table, call and page holds the values its schema or type allows.
TypeOK ==
    /\ record \in [Records -> RecordRows \cup {NoRecord}]
    /\ revision \subseteq RevisionRows /\ IsFiniteSet(revision)
    /\ call \in [Calls -> CallRows \cup {Unused, Spent}]
    /\ page \in [Pages -> PageRows]
    /\ typed \in Nat

-----------------------------------------------------------------------------
(* The inductive invariant.  The revisions of a record are numbered without *)
(* gap or repetition; a call knows the revision it wrote, and nobody else   *)
(* knows of it; what a call has read is still in the history, though the    *)
(* record may have moved on; a page holds a revision, and a save that is    *)
(* still fresh carries the text of its page.                                *)

\* Some revision has the number n of the record r and satisfies the rest.
Row(r, n) == \E x \in revision : x.record = r /\ x.number = n
RowWithText(r, n, t) == \E x \in revision : x.record = r /\ x.number = n /\ x.text = t

RowsUnique ==
    \A x, y \in revision : x.record = y.record /\ x.number = y.number => x = y

RowTrue(x) ==
    /\ Exists(x.record)
    /\ 1 <= x.number /\ x.number <= record[x.record].number
    /\ x.number = record[x.record].number => x.day = record[x.record].day
    /\ x.seen = x.number - 1
    /\ x.from # None => RowWithText(x.from[1], x.from[2], x.text)

RowsWritten ==
    \A x \in revision : x.by # None =>
        /\ call[x.by] # Unused
        /\ \A y \in revision : y.by = x.by => y = x
        /\ Running(x.by) =>
             LET o == call[x.by] IN
             /\ o.ref = x.record
             /\ o.op = "save" => x.record = o.record /\ x.number = o.base + 1
             /\ o.op \in {"save", "create"} => x.text = o.text

NoGaps ==
    \A r \in Records : Exists(r) =>
        /\ 1 <= record[r].number
        /\ \A n \in 1 .. record[r].number : Row(r, n)

CallTrue(c) ==
    LET o == call[c] IN
    /\ o.op \in {"save", "derive", "restore", "action"} =>
         o.record \in Records /\ Exists(o.record)
    /\ o.op = "restore" => Row(o.record, o.base)
    /\ o.op = "derive" => KindOf[o.page] = "uniform_inspection"
    /\ o.phase = "read" /\ o.op \in {"restore", "action"} =>
         o.read.number <= record[o.record].number
    /\ o.phase # "read" => o.read = NoRead
    /\ o.phase = "read" /\ o.read.from # None =>
         RowWithText(o.read.from[1], o.read.from[2], o.read.text)
    /\ o.ref # None /\ o.op # "action" =>
         \E x \in revision : x.by = c /\ x.record = o.ref
    /\ o.answer = "ok" /\ o.op # "action" =>
         /\ \E x \in revision : x.by = c /\ x.record = o.got /\ x.number <= o.number
         /\ Row(o.got, o.number)

PageTrue(p) ==
    page[p].record # None =>
        /\ Exists(page[p].record)
        /\ page[p].state = "saved" =>
             RowWithText(page[p].record, page[p].number, page[p].text)

Fresh(c) ==
    LET o == call[c] IN
    KindOf[o.page] = "assignment_roster" /\ o.waits /\ o.fresh /\ o.op \in {"save", "create"}
        => o.text = page[o.page].text

History == RowsUnique /\ (\A x \in revision : RowTrue(x)) /\ NoGaps
CallsTrue == \A c \in Calls : Running(c) => CallTrue(c)
PagesTrue == \A p \in Pages : PageTrue(p)
FreshTrue == \A c \in Calls : Running(c) => Fresh(c)

IInv == TypeOK /\ History /\ RowsWritten /\ CallsTrue /\ PagesTrue /\ FreshTrue

-----------------------------------------------------------------------------
(* Lemmas about the tables.                                                 *)

\* A call that runs has a row, and so has a record that exists.
LEMMA Shapes ==
    /\ Unused # Spent
    /\ \A x \in CallRows : x # Unused /\ x # Spent
    /\ \A x \in RecordRows : x # NoRecord
    /\ TypeOK => /\ \A c \in Calls : Running(c) => call[c] \in CallRows
                 /\ \A r \in Records : Exists(r) => record[r] \in RecordRows
  <1>1. Unused # Spent
    <2>1. "op" \notin DOMAIN Unused /\ "op" \in DOMAIN Spent
      BY DEF Unused, Spent
    <2> QED BY <2>1
  <1>2. \A x \in CallRows : x # Unused /\ x # Spent
    <2> SUFFICES ASSUME NEW x \in CallRows PROVE x # Unused /\ x # Spent
      OBVIOUS
    <2>1. x.page \in Pages /\ Unused.page = None /\ Spent.page = None
      BY DEF CallRows, Unused, Spent
    <2> QED BY <2>1, PaperworkAssumption
  <1>3. \A x \in RecordRows : x # NoRecord
    <2> SUFFICES ASSUME NEW x \in RecordRows PROVE x # NoRecord
      OBVIOUS
    <2>1. x.kind \in Kinds /\ NoRecord.kind = None
      BY DEF RecordRows, NoRecord
    <2> QED BY <2>1, PaperworkAssumption
  <1> QED BY <1>1, <1>2, <1>3 DEF TypeOK, Running, Exists

\* The row of a number that is in the history is that row.
LEMMA RowOfIs ==
    ASSUME RowsUnique, NEW x \in revision
    PROVE  RowOf(x.record, x.number) = x
  BY DEF RowsUnique, RowOf

LEMMA RowOfThere ==
    ASSUME NEW r, NEW n, Row(r, n)
    PROVE  /\ RowOf(r, n) \in revision
           /\ RowOf(r, n).record = r /\ RowOf(r, n).number = n
  BY DEF Row, RowOf

\* A page sends a call that knows nothing yet.
LEMMA SentCalls ==
    ASSUME NEW p \in Pages, NEW op \in Ops, NEW r \in Records \cup {None}, NEW n \in Nat,
           NEW t \in Nat, Send(p, op, r, n, t)
    PROVE  \E c \in Calls, o \in CallRows :
              /\ call[c] = Unused /\ call' = [call EXCEPT ![c] = o]
              /\ o.page = p /\ o.op = op /\ o.record = r /\ o.base = n /\ o.text = t
              /\ o.phase = "sent" /\ o.answer = "none" /\ o.ref = None /\ o.read = NoRead
  <1>1. PICK c \in Calls :
          /\ call[c] = Unused
          /\ call' = [call EXCEPT ![c] =
                [page |-> p, op |-> op, record |-> r, base |-> n, day |-> DayOf[p],
                 text |-> t, read |-> NoRead, ref |-> None, phase |-> "sent",
                 answer |-> "none", got |-> None, number |-> 0, again |-> FALSE,
                 waits |-> TRUE, fresh |-> TRUE, mounted |-> TRUE]]
    BY DEF Send
  <1> DEFINE o == [page |-> p, op |-> op, record |-> r, base |-> n, day |-> DayOf[p],
                   text |-> t, read |-> NoRead, ref |-> None, phase |-> "sent",
                   answer |-> "none", got |-> None, number |-> 0, again |-> FALSE,
                   waits |-> TRUE, fresh |-> TRUE, mounted |-> TRUE]
  <1>2. NoRead \in Reads
    BY DEF NoRead, Reads, Origins
  <1>3. o \in CallRows
    BY <1>2, PaperworkAssumption DEF CallRows, Phases, Answers
  <1>4. /\ o.page = p /\ o.op = op /\ o.record = r /\ o.base = n /\ o.text = t
        /\ o.phase = "sent" /\ o.answer = "none" /\ o.ref = None /\ o.read = NoRead
    OBVIOUS
  <1>5. call' = [call EXCEPT ![c] = o]
    BY <1>1
  <1> HIDE DEF o
  <1> QED BY <1>1, <1>3, <1>4, <1>5

\* What the history holds stays in it.
LEMMA RowsStay ==
    ASSUME revision \subseteq revision'
    PROVE  /\ \A r, n : Row(r, n) => Row(r, n)'
           /\ \A r, n, t : RowWithText(r, n, t) => RowWithText(r, n, t)'
  BY DEF Row, RowWithText

-----------------------------------------------------------------------------
(* The service answers, reads and writes.                                   *)

\* A step leaves what c asked for and how its page waits for it.
SameRequest(c) ==
    /\ call[c] \in CallRows /\ call'[c] \in CallRows
    /\ call'[c].page = call[c].page /\ call'[c].op = call[c].op
    /\ call'[c].record = call[c].record /\ call'[c].base = call[c].base
    /\ call'[c].text = call[c].text
    /\ call'[c].waits = call[c].waits /\ call'[c].fresh = call[c].fresh
OnlyCall(c) ==
    /\ call' \in [Calls -> CallRows \cup {Unused, Spent}]
    /\ \A d \in Calls \ {c} : call'[d] = call[d]

\* A step that only changes what a call knows, to something true.
LEMMA CallChanges ==
    ASSUME IInv, NEW c \in Calls, OnlyCall(c), SameRequest(c),
           UNCHANGED <<record, revision, page, typed>>,
           \/ call'[c].ref = call[c].ref
           \/ call[c].op = "action" /\ call[c].ref = None,
           CallTrue(c)'
    PROVE  IInv'
  <1> USE DEF IInv
  <1>0. Running(c) /\ Running(c)'
    BY Shapes DEF SameRequest, Running
  <1>1. TypeOK'
    BY DEF TypeOK, OnlyCall
  <1>2. History'
    BY DEF History, RowsUnique, RowTrue, RowWithText, NoGaps, Row, Exists
  <1>3. RowsWritten'
    <2> SUFFICES ASSUME NEW x \in revision, x.by # None
                 PROVE  /\ call'[x.by] # Unused
                        /\ \A y \in revision : y.by = x.by => y = x
                        /\ Running(x.by)' =>
                             LET o == call'[x.by] IN
                             /\ o.ref = x.record
                             /\ o.op = "save" => x.record = o.record /\ x.number = o.base + 1
                             /\ o.op \in {"save", "create"} => x.text = o.text
      BY DEF RowsWritten
    <2>1. x.by \in Calls /\ x.record \in Records
      BY DEF TypeOK, RevisionRows
    <2>2. CASE x.by # c
      BY <2>1, <2>2 DEF OnlyCall, RowsWritten, Running
    <2>3. CASE x.by = c
      <3>1. call[c].ref = x.record /\ x.record # None
        BY <1>0, <2>1, <2>3, PaperworkAssumption DEF RowsWritten
      <3> QED BY <1>0, <2>3, <3>1, Shapes DEF SameRequest, RowsWritten
    <2> QED BY <2>2, <2>3
  <1>4. CallsTrue'
    <2> SUFFICES ASSUME NEW d \in Calls, Running(d)' PROVE CallTrue(d)'
      BY DEF CallsTrue
    <2>1. CASE d # c
      <3>1. call'[d] = call[d] /\ Running(d)
        BY <2>1 DEF OnlyCall, Running
      <3> QED BY <3>1 DEF CallsTrue, CallTrue, Row, RowWithText, Exists
    <2> QED BY <2>1
  <1>5. PagesTrue'
    BY DEF PagesTrue, PageTrue, RowWithText, Exists
  <1>6. FreshTrue'
    <2> SUFFICES ASSUME NEW d \in Calls, Running(d)' PROVE Fresh(d)'
      BY DEF FreshTrue
    <2>1. CASE d # c
      BY <2>1 DEF OnlyCall, Running, FreshTrue, Fresh
    <2>2. CASE d = c
      BY <1>0, <2>2 DEF SameRequest, FreshTrue, Fresh
    <2> QED BY <2>1, <2>2
  <1> QED BY <1>1, <1>2, <1>3, <1>4, <1>5, <1>6

\* An answer that is not the record the call asked for.
LEMMA Refuses ==
    ASSUME IInv, NEW c \in Calls, Running(c), NEW why \in Answers,
           why # "ok" \/ call[c].op = "action", Refuse(c, why)
    PROVE  IInv'
  <1>1. call[c] \in CallRows /\ NoRead \in Reads
    BY Shapes DEF IInv, NoRead, Reads, Origins
  <1>2. /\ OnlyCall(c) /\ SameRequest(c) /\ call'[c].ref = call[c].ref
        /\ call'[c].phase = "answered" /\ call'[c].answer = why /\ call'[c].read = NoRead
    BY <1>1
       DEF Refuse, Answer, OnlyCall, SameRequest, IInv, TypeOK, CallRows, Phases
  <1>3. UNCHANGED <<record, revision, page, typed>>
    BY DEF Refuse
  <1>4. CallTrue(c)'
    BY <1>2, <1>3, RowsStay DEF IInv, CallsTrue, CallTrue, SameRequest, Exists
  <1> QED BY <1>2, <1>3, <1>4, CallChanges

\* The record that a call wrote is given as it is now.
LEMMA Replays ==
    ASSUME IInv, NEW c \in Calls, Running(c), call[c].op # "action",
           call[c].ref # None, AnswerReplay(c)
    PROVE  IInv'
  <1>1. call[c] \in CallRows /\ NoRead \in Reads
    BY Shapes DEF IInv, NoRead, Reads, Origins
  <1> DEFINE r == call[c].ref
  <1>2. PICK x \in revision : x.by = c /\ x.record = r
    BY DEF IInv, CallsTrue, CallTrue
  <1>3. /\ r \in Records /\ Exists(r) /\ record[r].number \in Nat
        /\ x.number <= record[r].number /\ Row(r, record[r].number)
    <2>1. r \in Records /\ Exists(r) /\ x.number <= record[r].number
      BY <1>1, <1>2 DEF IInv, History, RowTrue, CallRows
    <2>2. record[r].number \in Nat
      BY <2>1, Shapes DEF IInv, RecordRows
    <2> QED BY <2>1, <2>2 DEF IInv, History, NoGaps
  <1>4. /\ OnlyCall(c) /\ SameRequest(c) /\ call'[c].ref = call[c].ref
        /\ call'[c].phase = "answered" /\ call'[c].got = r /\ call'[c].read = NoRead
        /\ call'[c].number = record[r].number
    BY <1>1, <1>3
       DEF AnswerReplay, Answer, OnlyCall, SameRequest, IInv, TypeOK, CallRows,
           Phases, Answers
  <1>5. UNCHANGED <<record, revision, page, typed>>
    BY DEF AnswerReplay
  <1>6. CallTrue(c)'
    BY <1>2, <1>3, <1>4, <1>5, RowsStay
       DEF IInv, CallsTrue, CallTrue, SameRequest, Exists
  <1> QED BY <1>4, <1>5, <1>6, CallChanges

\* The revision that c may add: the next one of its record, written by one
\* who had the one before, and the only one of this call.
Adds(c, r, row) ==
    /\ row.record = r /\ row.by = c
    /\ row.number = IF Exists(r) THEN record[r].number + 1 ELSE 1
    /\ row.seen = row.number - 1
    /\ row.from # None => RowWithText(row.from[1], row.from[2], row.text)
    /\ call[c].op # "action" /\ \A x \in revision : x.by # c
    /\ call[c].op = "save" => r = call[c].record /\ row.number = call[c].base + 1
    /\ call[c].op \in {"save", "create"} => row.text = call[c].text

\* Such a commit keeps the history whole.
LEMMA Commits ==
    ASSUME IInv, NEW c \in Calls, Running(c), NEW r \in Records, NEW kind \in Kinds,
           NEW row \in RevisionRows, Commit(c, r, kind, row), Adds(c, r, row)
    PROVE  IInv'
  <1> USE DEF IInv
  <1>0. /\ call[c] \in CallRows /\ NoRead \in Reads /\ PersonOf[call[c].page] \in {PersonOf[p] : p \in Pages}
        /\ row.number \in Nat /\ row.day \in Days
    BY Shapes DEF NoRead, Reads, Origins, CallRows, RevisionRows
  <1>1. /\ revision' = revision \cup {row}
        /\ UNCHANGED <<page, typed>>
        /\ \A q \in Records \ {r} : record'[q] = record[q]
        /\ record'[r].number = row.number /\ record'[r].day = row.day
    BY DEF Commit, TypeOK
  <1>2. record' \in [Records -> RecordRows \cup {NoRecord}] /\ record'[r] \in RecordRows
    <2>1. \A q \in Records : Exists(q) => record[q] \in RecordRows
      BY Shapes
    <2>2. (IF Exists(r) THEN record[r].owner ELSE PersonOf[call[c].page])
            \in Admins \cup {PersonOf[p] : p \in Pages}
      BY <1>0, <2>1 DEF RecordRows
    <2> DEFINE own == IF Exists(r) THEN record[r].owner ELSE PersonOf[call[c].page]
    <2> HIDE DEF own
    <2>3. [kind |-> kind, day |-> row.day, number |-> row.number, owner |-> own] \in RecordRows
      BY <1>0, <2>2 DEF RecordRows, own
    <2> QED BY <2>3 DEF Commit, TypeOK, own
  <1>3. Exists(r)' /\ \A q \in Records : Exists(q) => Exists(q)' /\ record[q].number <= record'[q].number
    <2>1. Exists(r)'
      BY <1>2, Shapes DEF Exists
    <2>2. Exists(r) => record[r].number \in Nat
      BY Shapes DEF RecordRows
    <2>3. Exists(r) => record[r].number <= record'[r].number
      BY <1>1, <2>2 DEF Adds
    <2>4. \A q \in Records : Exists(q) => record[q].number \in Nat
      BY Shapes DEF RecordRows
    <2> QED BY <1>1, <2>1, <2>3, <2>4 DEF Exists
  <1>4. /\ OnlyCall(c) /\ SameRequest(c)
        /\ call'[c].phase = "answered" /\ call'[c].answer = "ok" /\ call'[c].ref = r
        /\ call'[c].got = r /\ call'[c].number = row.number /\ call'[c].read = NoRead
    <2> DEFINE o == [call[c] EXCEPT !.phase = "answered", !.answer = "ok", !.ref = r,
                                    !.got = r, !.number = row.number, !.read = NoRead]
    <2>1. call' = [call EXCEPT ![c] = o]
      BY <1>0 DEF Commit, Adds, TypeOK
    <2>2. /\ o \in CallRows /\ o.page = call[c].page /\ o.op = call[c].op
          /\ o.record = call[c].record /\ o.base = call[c].base /\ o.text = call[c].text
          /\ o.waits = call[c].waits /\ o.fresh = call[c].fresh
          /\ o.phase = "answered" /\ o.answer = "ok" /\ o.ref = r
          /\ o.got = r /\ o.number = row.number /\ o.read = NoRead
      BY <1>0 DEF CallRows, Phases, Answers
    <2> HIDE DEF o
    <2> QED BY <1>0, <2>1, <2>2 DEF OnlyCall, SameRequest, TypeOK
  <1>5. TypeOK'
    <2>1. IsFiniteSet(revision')
      BY <1>1, FS_AddElement DEF TypeOK
    <2> QED BY <1>1, <1>2, <1>4, <2>1 DEF TypeOK, OnlyCall
  <1>6. \A x \in revision : x.record = r => Exists(r) /\ x.number < row.number /\ x.number <= record[r].number
    <2> SUFFICES ASSUME NEW x \in revision, x.record = r
                 PROVE  Exists(r) /\ x.number < row.number /\ x.number <= record[r].number
      OBVIOUS
    <2>1. Exists(r) /\ x.number <= record[r].number /\ x.number \in Nat
      BY DEF History, RowTrue, TypeOK, RevisionRows
    <2>2. record[r].number \in Nat
      BY <2>1, Shapes DEF RecordRows
    <2> QED BY <2>1, <2>2 DEF Adds
  <1>7. History'
    <2>1. RowsUnique'
      <3>1. \A x \in revision : x.record = r => x.number # row.number
        BY <1>0, <1>6 DEF TypeOK, RevisionRows
      <3> QED BY <1>1, <3>1 DEF RowsUnique, History, Adds
    <2>2. ASSUME NEW x \in revision PROVE RowTrue(x)'
      <3>1. x.record \in Records /\ x.number \in Nat /\ RowTrue(x)
        BY DEF TypeOK, RevisionRows, History
      <3>2. Exists(x.record)' /\ 1 <= x.number /\ x.number <= record'[x.record].number
        <4>1. CASE x.record = r
          BY <1>0, <1>1, <1>3, <1>6, <3>1, <4>1 DEF RowTrue
        <4>2. CASE x.record # r
          BY <1>1, <1>3, <3>1, <4>2 DEF RowTrue
        <4> QED BY <4>1, <4>2
      <3>3. x.number = record'[x.record].number => x.day = record'[x.record].day
        BY <1>0, <1>1, <1>6, <3>1 DEF RowTrue
      <3>4. x.from # None => RowWithText(x.from[1], x.from[2], x.text)'
        BY <1>1, <3>1, RowsStay DEF RowTrue
      <3> QED BY <3>1, <3>2, <3>3, <3>4 DEF RowTrue
    <2>3. RowTrue(row)'
      <3>1. 1 <= row.number /\ row.seen = row.number - 1
        <4>1. Exists(r) => record[r].number \in Nat
          BY Shapes DEF RecordRows
        <4> QED BY <4>1 DEF Adds
      <3>2. row.from # None => RowWithText(row.from[1], row.from[2], row.text)'
        BY <1>1, RowsStay DEF Adds
      <3> QED BY <1>0, <1>1, <1>3, <3>1, <3>2 DEF RowTrue, Adds
    <2>4. NoGaps'
      <3> SUFFICES ASSUME NEW q \in Records, Exists(q)'
                   PROVE  /\ 1 <= record'[q].number
                          /\ \A n \in 1 .. record'[q].number : Row(q, n)'
        BY DEF NoGaps
      <3>1. CASE q # r
        BY <1>1, <3>1, RowsStay DEF History, NoGaps, Exists
      <3>2. CASE q = r
        <4>1. Row(r, row.number)'
          BY <1>1 DEF Row, Adds
        <4>2. ASSUME NEW n \in 1 .. row.number, n # row.number PROVE Row(r, n)'
          <5>1. Exists(r) => record[r].number \in Nat
            BY Shapes DEF RecordRows
          <5>2. Exists(r) /\ n \in 1 .. record[r].number
            BY <1>0, <4>2, <5>1 DEF Adds
          <5> QED BY <1>1, <5>2, RowsStay DEF History, NoGaps
        <4>3. 1 <= row.number
          BY <1>1, <2>3 DEF RowTrue
        <4> QED BY <1>1, <3>2, <4>1, <4>2, <4>3
      <3> QED BY <3>1, <3>2
    <2> QED BY <1>1, <2>1, <2>2, <2>3, <2>4 DEF History
  <1>8. RowsWritten'
    <2> SUFFICES ASSUME NEW x \in revision', x.by # None
                 PROVE  /\ call'[x.by] # Unused
                        /\ \A y \in revision' : y.by = x.by => y = x
                        /\ Running(x.by)' =>
                             LET o == call'[x.by] IN
                             /\ o.ref = x.record
                             /\ o.op = "save" => x.record = o.record /\ x.number = o.base + 1
                             /\ o.op \in {"save", "create"} => x.text = o.text
      BY DEF RowsWritten
    <2>1. CASE x = row
      <3>1. call'[c] # Unused /\ \A y \in revision' : y.by = c => y = row
        BY <1>1, <1>4, Shapes DEF Adds, SameRequest
      <3> QED BY <1>4, <2>1, <3>1 DEF Adds, SameRequest
    <2>2. CASE x \in revision
      <3>1. x.by # c /\ x.by \in Calls
        BY <2>2 DEF Adds, TypeOK, RevisionRows
      <3>2. call'[x.by] = call[x.by]
        BY <1>4, <3>1 DEF OnlyCall
      <3>3. \A y \in revision' : y.by = x.by => y \in revision
        BY <1>1, <3>1 DEF Adds
      <3> QED BY <2>2, <3>2, <3>3 DEF RowsWritten, Running
    <2> QED BY <1>1, <2>1, <2>2
  <1>9. CallsTrue'
    <2> SUFFICES ASSUME NEW d \in Calls, Running(d)' PROVE CallTrue(d)'
      BY DEF CallsTrue
    <2>r. /\ \A q, n : Row(q, n) => Row(q, n)'
          /\ \A q, n, t : RowWithText(q, n, t) => RowWithText(q, n, t)'
      BY <1>1, RowsStay
    <2>1. CASE d # c
      <3>1. call'[d] = call[d] /\ Running(d)
        BY <1>4, <2>1 DEF OnlyCall, Running
      <3>2. CallTrue(d) /\ call[d] \in CallRows
        BY <3>1, Shapes DEF CallsTrue
      <3>3. call[d].phase = "read" /\ call[d].op \in {"restore", "action"} =>
              call[d].read.number <= record'[call[d].record].number
        <4> SUFFICES ASSUME call[d].phase = "read", call[d].op \in {"restore", "action"}
                     PROVE  call[d].read.number <= record'[call[d].record].number
          OBVIOUS
        <4>1. /\ call[d].record \in Records /\ Exists(call[d].record)
              /\ call[d].read.number <= record[call[d].record].number
              /\ call[d].read.number \in Nat
          BY <3>2 DEF CallTrue, CallRows, Reads
        <4>2. record[call[d].record].number \in Nat /\ record'[call[d].record].number \in Nat
          BY <1>2, <1>3, <4>1, Shapes DEF RecordRows, Exists
        <4> QED BY <1>3, <4>1, <4>2
      <3> QED BY <1>1, <1>3, <2>r, <3>1, <3>2, <3>3 DEF CallTrue
    <2>2. CASE d = c
      <3>1. CallTrue(c)
        BY DEF CallsTrue
      <3>2. row \in revision' /\ row.by = c /\ row.record = r /\ row.number <= call'[c].number
        BY <1>0, <1>1, <1>4 DEF Adds
      <3>3. Row(r, row.number)'
        BY <1>1 DEF Row, Adds
      <3> QED BY <1>3, <1>4, <2>2, <2>r, <3>1, <3>2, <3>3 DEF CallTrue, SameRequest
    <2> QED BY <2>1, <2>2
  <1>10. PagesTrue'
    <2>1. \A p \in Pages : page[p].record \in Records \cup {None}
      BY DEF TypeOK, PageRows
    <2>2. \A q, n, t : RowWithText(q, n, t) => RowWithText(q, n, t)'
      BY <1>1, RowsStay
    <2> QED BY <1>1, <1>3, <2>1, <2>2, PaperworkAssumption DEF PagesTrue, PageTrue
  <1>11. FreshTrue'
    <2> SUFFICES ASSUME NEW d \in Calls, Running(d)' PROVE Fresh(d)'
      BY DEF FreshTrue
    <2>1. CASE d # c
      BY <1>1, <1>4, <2>1 DEF OnlyCall, Running, FreshTrue, Fresh
    <2>2. CASE d = c
      BY <1>1, <1>4, <2>2 DEF SameRequest, FreshTrue, Fresh
    <2> QED BY <2>1, <2>2
  <1> QED BY <1>5, <1>7, <1>8, <1>9, <1>10, <1>11

-----------------------------------------------------------------------------
(* The handlers.                                                            *)

\* A row made by Revision is a row of the table.
LEMMA RevisionRow ==
    ASSUME TypeOK, NEW c \in Calls, Running(c), NEW r \in Records, NEW n \in Nat,
           NEW d \in Days, NEW t \in Nat, NEW seen \in Nat, NEW from \in Origins
    PROVE  /\ Revision(r, n, d, t, seen, c, from) \in RevisionRows
           /\ Revision(r, n, d, t, seen, c, from).record = r
           /\ Revision(r, n, d, t, seen, c, from).number = n
           /\ Revision(r, n, d, t, seen, c, from).day = d
           /\ Revision(r, n, d, t, seen, c, from).text = t
           /\ Revision(r, n, d, t, seen, c, from).seen = seen
           /\ Revision(r, n, d, t, seen, c, from).by = c
           /\ Revision(r, n, d, t, seen, c, from).from = from
  <1>1. call[c].page \in Pages
    BY Shapes DEF CallRows
  <1> QED BY <1>1, PaperworkAssumption DEF Revision, RevisionRows

\* A call that has written a revision knows its record.
LEMMA Unwritten ==
    ASSUME IInv, NEW c \in Calls, Running(c), call[c].ref = None
    PROVE  \A x \in revision : x.by # c
  BY PaperworkAssumption DEF IInv, TypeOK, RevisionRows, RowsWritten

LEMMA Numbers ==
    ASSUME IInv, NEW r \in Records, Exists(r)
    PROVE  /\ record[r] \in RecordRows /\ record[r].number \in Nat /\ 1 <= record[r].number
           /\ record[r].kind \in Kinds /\ Row(r, record[r].number)
           /\ Current(r) \in RevisionRows /\ Current(r) \in revision
           /\ Current(r).record = r /\ Current(r).number = record[r].number
  <1>1. record[r] \in RecordRows /\ record[r].number \in Nat /\ record[r].kind \in Kinds
    BY Shapes DEF IInv, RecordRows
  <1>2. 1 <= record[r].number /\ Row(r, record[r].number)
    BY <1>1 DEF IInv, History, NoGaps
  <1> QED BY <1>1, <1>2, RowOfThere DEF IInv, TypeOK, Current

\* A save of the revision its page holds.
LEMMA SaveKeeps == ASSUME IInv, NEW c \in Calls, Save(c) PROVE IInv'
  <1> DEFINE r == call[c].record
             n == record[r].number + 1
             row == Revision(r, n, call[c].day, call[c].text, call[c].base, c, None)
  <1>1. /\ Running(c) /\ call[c].op = "save" /\ call[c] \in CallRows
        /\ r \in Records /\ Exists(r)
    BY Shapes DEF Save, IInv, CallsTrue, CallTrue
  <1>2. CASE Refuse(c, "refused") \/ Refuse(c, "conflict")
    BY <1>1, <1>2, Refuses DEF Answers
  <1>3. CASE record[r].number = call[c].base /\ UniqueKeys(r, record[r].kind, call[c].day, n)
             /\ Commit(c, r, record[r].kind, row)
    <2>1. record[r].number \in Nat /\ record[r].kind \in Kinds /\ n \in Nat
      BY <1>1, Numbers
    <2>2. call[c].base \in Nat /\ call[c].day \in Days /\ call[c].text \in Nat /\ None \in Origins
      BY <1>1 DEF CallRows, Origins
    <2>3. /\ row \in RevisionRows
          /\ row.record = r /\ row.number = n /\ row.text = call[c].text
          /\ row.seen = call[c].base /\ row.by = c /\ row.from = None
      <3> DEFINE d == call[c].day
                 t == call[c].text
                 seen == call[c].base
      <3>1. row = Revision(r, n, d, t, seen, c, None)
        OBVIOUS
      <3>2. TypeOK /\ Running(c) /\ r \in Records /\ n \in Nat /\ d \in Days /\ t \in Nat
            /\ seen \in Nat /\ None \in Origins
        BY <1>1, <2>1, <2>2 DEF IInv
      <3> HIDE DEF n, r, d, t, seen, row
      <3>3. /\ row \in RevisionRows /\ row.record = r /\ row.number = n /\ row.text = t
            /\ row.seen = seen /\ row.by = c /\ row.from = None
        BY <3>1, <3>2, RevisionRow
      <3> QED BY <3>3 DEF t, seen
    <2>4. \A x \in revision : x.by # c
      <3> SUFFICES ASSUME NEW x \in revision, x.by = c PROVE FALSE
        OBVIOUS
      <3>1. x.record = r /\ x.number = call[c].base + 1
        BY <1>1, PaperworkAssumption DEF IInv, RowsWritten
      <3> QED BY <1>3, <3>1 DEF UniqueKeys
    <2> HIDE DEF row
    <2>5. Adds(c, r, row)
      BY <1>1, <1>3, <2>1, <2>2, <2>3, <2>4 DEF Adds
    <2> QED BY <1>1, <1>3, <2>1, <2>3, <2>5, Commits
  <1> QED BY <1>1, <1>2, <1>3 DEF Save

\* A call that makes a new record.
LEMMA SaveNewKeeps ==
    ASSUME IInv, NEW c \in Calls, Running(c), call[c].op \in {"create", "copy", "derive"},
           NEW kind \in Kinds, NEW text \in Nat, NEW from \in Origins,
           from # None => RowWithText(from[1], from[2], text),
           call[c].op = "create" => text = call[c].text,
           SaveNew(c, kind, text, from)
    PROVE  IInv'
  <1>1. CASE call[c].ref # None
    BY <1>1, Refuses, Replays DEF SaveNew, Answers
  <1>2. CASE call[c].ref = None /\ Refuse(c, "conflict")
    BY <1>2, Refuses DEF Answers
  <1>3. CASE call[c].ref = None /\
             \E r \in Records :
               /\ ~Exists(r)
               /\ Commit(c, r, kind, Revision(r, 1, call[c].day, text, 0, c, from))
    <2>1. PICK r \in Records :
               /\ ~Exists(r)
               /\ Commit(c, r, kind, Revision(r, 1, call[c].day, text, 0, c, from))
      BY <1>3
    <2> DEFINE row == Revision(r, 1, call[c].day, text, 0, c, from)
    <2>2. call[c].day \in Days
      BY Shapes DEF IInv, CallRows
    <2>3. /\ row \in RevisionRows
          /\ row.record = r /\ row.number = 1 /\ row.text = text
          /\ row.seen = 0 /\ row.by = c /\ row.from = from
      BY <2>2, RevisionRow DEF IInv
    <2>4. \A x \in revision : x.by # c
      BY <1>3, Unwritten
    <2> HIDE DEF row
    <2>5. Commit(c, r, kind, row)
      BY <2>1 DEF row
    <2> QED BY <2>1, <2>3, <2>4, <2>5, Commits DEF Adds
  <1> QED BY <1>1, <1>2, <1>3 DEF SaveNew

\* A page's new record, and the copy of the roster of an earlier day.
LEMMA CreateKeeps == ASSUME IInv, NEW c \in Calls, Create(c) \/ SaveCopy(c) PROVE IInv'
  <1>1. Running(c) /\ call[c] \in CallRows
    BY Shapes DEF Create, SaveCopy, IInv
  <1>2. /\ KindOf[call[c].page] \in Kinds /\ "assignment_roster" \in Kinds
        /\ call[c].text \in Nat /\ call[c].read.text \in Nat /\ None \in Origins
    BY <1>1, PaperworkAssumption DEF CallRows, Reads, Origins, Kinds
  <1>3. CASE Create(c)
    BY <1>1, <1>2, <1>3, SaveNewKeeps DEF Create
  <1>4. CASE SaveCopy(c)
    BY <1>1, <1>2, <1>4, SaveNewKeeps DEF SaveCopy
  <1> QED BY <1>3, <1>4

\* An inspection of a roster that was read before.
LEMMA SaveDerivedKeeps == ASSUME IInv, NEW c \in Calls, SaveDerived(c) PROVE IInv'
  <1>1. /\ Running(c) /\ call[c] \in CallRows /\ call[c].phase = "read" /\ call[c].op = "derive"
        /\ SaveNew(c, "uniform_inspection", call[c].read.text, call[c].read.from)
    BY Shapes DEF SaveDerived, IInv
  <1>2. "uniform_inspection" \in Kinds /\ call[c].read.text \in Nat /\ call[c].read.from \in Origins
    BY <1>1 DEF CallRows, Reads, Kinds
  <1>3. call[c].read.from # None =>
          RowWithText(call[c].read.from[1], call[c].read.from[2], call[c].read.text)
    BY <1>1 DEF IInv, CallsTrue, CallTrue
  <1> QED BY <1>1, <1>2, <1>3, SaveNewKeeps

\* What a handler reads before its transaction is in the history.
LEMMA ReadKeeps ==
    ASSUME IInv, NEW c \in Calls, Running(c), NEW x \in Reads,
           call' = [call EXCEPT ![c].phase = "read", ![c].read = x],
           UNCHANGED <<record, revision, page, typed>>,
           call[c].op \in {"restore", "action"} => x.number <= record[call[c].record].number,
           x.from # None => RowWithText(x.from[1], x.from[2], x.text)
    PROVE  IInv'
  <1>1. call[c] \in CallRows
    BY Shapes DEF IInv
  <1>2. /\ OnlyCall(c) /\ SameRequest(c) /\ call'[c].ref = call[c].ref
        /\ call'[c].phase = "read" /\ call'[c].read = x /\ call'[c].answer = call[c].answer
        /\ call'[c].got = call[c].got /\ call'[c].number = call[c].number
    BY <1>1 DEF OnlyCall, SameRequest, IInv, TypeOK, CallRows, Phases
  <1>3. CallTrue(c)'
    <2>1. CallTrue(c)
      BY DEF IInv, CallsTrue
    <2>2. /\ \A r, n : Row(r, n) => Row(r, n)'
          /\ \A r, n, t : RowWithText(r, n, t) => RowWithText(r, n, t)'
      BY RowsStay
    <2> QED BY <1>2, <2>1, <2>2 DEF CallTrue, SameRequest, Exists
  <1> QED BY <1>2, <1>3, CallChanges

\* copy_previous_daily_record, derive_uniform_route and _record_for_kind read.
LEMMA HandlersReadKeeps ==
    ASSUME IInv, NEW c \in Calls, ReadPrevious(c) \/ ReadRoster(c) \/ ReadRecord(c)
    PROVE  IInv'
  <1>1. Running(c) /\ call[c] \in CallRows
    BY Shapes DEF ReadPrevious, ReadRoster, ReadRecord, IInv
  <1>2. CASE ReadPrevious(c) /\ ~Refuse(c, "refused")
    <2>1. PICK r \in Records :
             /\ Exists(r)
             /\ call' = [call EXCEPT ![c].phase = "read",
                                     ![c].read = [NoRead EXCEPT !.text = Current(r).text]]
      BY <1>2 DEF ReadPrevious
    <2>2. UNCHANGED <<record, revision, page, typed>> /\ call[c].op = "copy"
      BY <1>2 DEF ReadPrevious
    <2> DEFINE x == [NoRead EXCEPT !.text = Current(r).text]
    <2>3. x \in Reads /\ x.from = None
      BY <2>1, Numbers DEF NoRead, Reads, Origins, RevisionRows
    <2>4. call' = [call EXCEPT ![c].phase = "read", ![c].read = x]
      BY <2>1
    <2> HIDE DEF x
    <2> QED BY <1>1, <2>2, <2>3, <2>4, ReadKeeps
  <1>3. CASE ReadRoster(c)
    <2> DEFINE r == call[c].record
               x == [NoRead EXCEPT !.text = Current(r).text, !.from = <<r, record[r].number>>]
    <2>1. r \in Records /\ Exists(r) /\ call[c].op = "derive"
      BY <1>1, <1>3 DEF ReadRoster, IInv, CallsTrue, CallTrue
    <2>2. /\ record[r].number \in Nat /\ Current(r).text \in Nat
          /\ RowWithText(r, record[r].number, Current(r).text)
      BY <2>1, Numbers DEF RevisionRows, RowWithText
    <2>3. /\ x \in Reads /\ x.text = Current(r).text
          /\ x.from[1] = r /\ x.from[2] = record[r].number
      BY <2>1, <2>2 DEF NoRead, Reads, Origins
    <2>4. /\ call' = [call EXCEPT ![c].phase = "read", ![c].read = x]
          /\ UNCHANGED <<record, revision, page, typed>>
      BY <1>3 DEF ReadRoster
    <2> HIDE DEF x
    <2> QED BY <1>1, <2>1, <2>2, <2>3, <2>4, ReadKeeps
  <1>4. CASE ReadRecord(c)
    <2> DEFINE r == call[c].record
               x == [call[c].read EXCEPT !.number = record[r].number]
    <2>1. /\ r \in Records /\ Exists(r) /\ call[c].op \in {"restore", "action"}
          /\ call[c].phase = "sent"
      BY <1>1, <1>4 DEF ReadRecord, IInv, CallsTrue, CallTrue
    <2>2. record[r].number \in Nat
      BY <2>1, Numbers
    <2>3. x \in Reads /\ x.number = record[r].number /\ x.from = call[c].read.from
      BY <1>1, <2>2 DEF CallRows, Reads
    <2>4. /\ call' = [call EXCEPT ![c].phase = "read", ![c].read = x]
          /\ UNCHANGED <<record, revision, page, typed>>
      BY <1>4 DEF ReadRecord
    <2>5. call[c].read.from = None
      BY <1>1, <2>1 DEF IInv, CallsTrue, CallTrue, NoRead
    <2>6. x.number <= record[call[c].record].number
      BY <2>2, <2>3
    <2> HIDE DEF x, r
    <2> QED BY <1>1, <2>3, <2>4, <2>5, <2>6, ReadKeeps
  <1> QED BY <1>1, <1>2, <1>3, <1>4, Refuses DEF Answers

\* A restore writes the revision after the one it knew, or finds it there.
LEMMA RestoreKeeps == ASSUME IInv, NEW c \in Calls, Restore(c) PROVE IInv'
  <1> DEFINE r == call[c].record
             src == RowOf(call[c].record, call[c].base)
             n == Known(c) + 1
             row == Revision(r, n, src.day, src.text, Known(c), c, src.from)
  <1>1. /\ Running(c) /\ call[c].op = "restore" /\ call[c] \in CallRows /\ Locked(c)
        /\ r \in Records /\ Exists(r) /\ Row(r, call[c].base)
    BY Shapes DEF Restore, IInv, CallsTrue, CallTrue
  <1>2. CASE Refuse(c, "refused") \/ Refuse(c, "conflict")
    BY <1>1, <1>2, Refuses DEF Answers
  <1>3. CASE call[c].ref # None /\ AnswerReplay(c)
    BY <1>1, <1>3, Replays
  <1>4. CASE /\ call[c].ref = None /\ UniqueKeys(r, record[r].kind, src.day, n)
             /\ Commit(c, r, record[r].kind, row)
    <2>1. record[r].number \in Nat /\ record[r].kind \in Kinds
      BY <1>1, Numbers
    <2>2. Known(c) \in Nat /\ Known(c) <= record[r].number
      <3>1. CASE call[c].phase = "read"
        BY <1>1, <3>1, <2>1 DEF Known, IInv, CallsTrue, CallTrue, CallRows, Reads
      <3>2. CASE call[c].phase # "read"
        BY <2>1, <3>2 DEF Known
      <3> QED BY <3>1, <3>2
    <2>3. n = record[r].number + 1
      <3>1. \A m \in 1 .. record[r].number : Row(r, m)
        BY <1>1 DEF IInv, History, NoGaps
      <3>2. ~Row(r, n)
        BY <1>4 DEF UniqueKeys, Row
      <3> QED BY <2>1, <2>2, <3>1, <3>2
    <2>4. /\ src \in revision /\ src \in RevisionRows
          /\ src.from # None => RowWithText(src.from[1], src.from[2], src.text)
      BY <1>1, RowOfThere DEF IInv, TypeOK, History, RowTrue
    <2>5. src.day \in Days /\ src.text \in Nat /\ src.from \in Origins /\ n \in Nat
      BY <2>1, <2>3, <2>4 DEF RevisionRows
    <2>6. /\ row \in RevisionRows /\ row.record = r /\ row.number = n /\ row.text = src.text
          /\ row.seen = Known(c) /\ row.by = c /\ row.from = src.from
      <3> DEFINE d == src.day
                 t == src.text
                 f == src.from
                 seen == Known(c)
      <3>1. row = Revision(r, n, d, t, seen, c, f)
        OBVIOUS
      <3>2. TypeOK /\ Running(c) /\ r \in Records /\ n \in Nat /\ d \in Days /\ t \in Nat
            /\ seen \in Nat /\ f \in Origins
        BY <1>1, <2>1, <2>2, <2>5 DEF IInv
      <3> HIDE DEF r, n, d, t, f, seen, row
      <3>3. /\ row \in RevisionRows /\ row.record = r /\ row.number = n /\ row.text = t
            /\ row.seen = seen /\ row.by = c /\ row.from = f
        BY <3>1, <3>2, RevisionRow
      <3> QED BY <3>3 DEF t, f, seen
    <2>7. \A x \in revision : x.by # c
      BY <1>1, <1>4, Unwritten
    <2> HIDE DEF row
    <2>8. Adds(c, r, row)
      <3> HIDE DEF src
      <3> QED BY <1>1, <2>1, <2>2, <2>3, <2>4, <2>6, <2>7 DEF Adds
    <2> QED BY <1>1, <1>4, <2>1, <2>6, <2>8, Commits
  <1> QED BY <1>2, <1>3, <1>4 DEF Restore

\* An action leaves a receipt and no revision.
LEMMA ActKeeps == ASSUME IInv, NEW c \in Calls, Act(c) PROVE IInv'
  <1>1. Running(c) /\ call[c].op = "action" /\ call[c] \in CallRows /\ NoRead \in Reads
    BY Shapes DEF Act, IInv, NoRead, Reads, Origins
  <1>2. CASE \E why \in Answers : Refuse(c, why)
    BY <1>1, <1>2, Refuses
  <1>3. CASE ~\E why \in Answers : Refuse(c, why)
    <2>1. call[c].record \in Records /\ Exists(call[c].record)
      BY <1>1 DEF IInv, CallsTrue, CallTrue
    <2>2. /\ call' = [call EXCEPT ![c].phase = "answered", ![c].answer = "ok",
                                  ![c].ref = call[c].record, ![c].read = NoRead]
          /\ call[c].ref = None /\ UNCHANGED <<record, revision, page, typed>>
      BY <1>3 DEF Act, Answers
    <2>3. /\ OnlyCall(c) /\ SameRequest(c)
          /\ call'[c].phase = "answered" /\ call'[c].read = NoRead
      <3> DEFINE o == [call[c] EXCEPT !.phase = "answered", !.answer = "ok",
                                      !.ref = call[c].record, !.read = NoRead]
      <3>1. call' = [call EXCEPT ![c] = o]
        BY <2>2 DEF IInv, TypeOK
      <3>2. /\ o \in CallRows /\ o.page = call[c].page /\ o.op = call[c].op
            /\ o.record = call[c].record /\ o.base = call[c].base /\ o.text = call[c].text
            /\ o.waits = call[c].waits /\ o.fresh = call[c].fresh
            /\ o.phase = "answered" /\ o.read = NoRead
        BY <1>1, <2>1 DEF CallRows, Phases, Answers
      <3> HIDE DEF o
      <3> QED BY <1>1, <3>1, <3>2 DEF OnlyCall, SameRequest, IInv, TypeOK
    <2>4. CallTrue(c)'
      BY <1>1, <2>1, <2>2, <2>3 DEF CallTrue, SameRequest, Exists
    <2> QED BY <1>1, <2>2, <2>3, <2>4, CallChanges
  <1> QED BY <1>2, <1>3

\* A delivery that failed, and one that is repeated.
LEMMA DeliveryKeeps == ASSUME IInv, NEW c \in Calls, Reject(c) \/ Redeliver(c) PROVE IInv'
  <1>1. Running(c) /\ call[c] \in CallRows /\ NoRead \in Reads
    BY Shapes DEF Reject, Redeliver, IInv, NoRead, Reads, Origins
  <1>2. CASE Reject(c)
    BY <1>1, <1>2, Refuses DEF Reject, Answers
  <1>3. CASE Redeliver(c)
    <2>1. UNCHANGED <<record, revision, page, typed>>
      BY <1>3 DEF Redeliver
    <2>2. /\ OnlyCall(c) /\ SameRequest(c) /\ call'[c].ref = call[c].ref
          /\ call'[c].phase = "sent" /\ call'[c].read = NoRead /\ call'[c].answer = "none"
      BY <1>1, <1>3
         DEF Redeliver, OnlyCall, SameRequest, IInv, TypeOK, CallRows, Phases, Answers
    <2>3. /\ \A r, n : Row(r, n) => Row(r, n)'
          /\ \A r, n, t : RowWithText(r, n, t) => RowWithText(r, n, t)'
      BY <2>1, RowsStay
    <2>4. CallTrue(c)'
      BY <1>1, <2>1, <2>2, <2>3 DEF CallTrue, SameRequest, IInv, CallsTrue, Exists
    <2> QED BY <2>1, <2>2, <2>4, CallChanges
  <1> QED BY <1>2, <1>3

-----------------------------------------------------------------------------
(* The pages.                                                               *)

\* What a page does to the calls: it sends one, hears or drops one, and marks
\* those that no longer speak of its draft.
Marked(c) ==
    /\ Running(c) /\ call'[c] \in CallRows
    /\ call'[c].page = call[c].page /\ call'[c].op = call[c].op
    /\ call'[c].record = call[c].record /\ call'[c].base = call[c].base
    /\ call'[c].text = call[c].text /\ call'[c].read = call[c].read
    /\ call'[c].ref = call[c].ref /\ call'[c].phase = call[c].phase
    /\ call'[c].answer = call[c].answer
    /\ call'[c].got = call[c].got /\ call'[c].number = call[c].number
Over(c) == Running(c) /\ call'[c] = Spent
Sent(c) ==
    /\ call[c] = Unused /\ call'[c] \in CallRows
    /\ call'[c].phase = "sent" /\ call'[c].answer = "none"
    /\ call'[c].read = NoRead /\ call'[c].ref = None
    /\ call'[c].op \in {"save", "derive", "restore", "action"} =>
         call'[c].record \in Records /\ Exists(call'[c].record)
    /\ call'[c].op = "restore" => Row(call'[c].record, call'[c].base)
    /\ call'[c].op = "derive" => KindOf[call'[c].page] = "uniform_inspection"

\* Such a step keeps the invariant if what the page shows is still true.
LEMMA PageChanges ==
    ASSUME IInv, UNCHANGED <<record, revision>>, TypeOK',
           \A c \in Calls : call'[c] = call[c] \/ Marked(c) \/ Over(c) \/ Sent(c),
           PagesTrue', FreshTrue'
    PROVE  IInv'
  <1>1. History'
    BY DEF IInv, History, RowsUnique, RowTrue, RowWithText, NoGaps, Row, Exists
  <1>2. \A c \in Calls : call[c] = Unused => ~\E x \in revision : x.by = c
    BY PaperworkAssumption DEF IInv, RowsWritten
  <1>3. RowsWritten'
    <2> SUFFICES ASSUME NEW x \in revision, x.by # None
                 PROVE  /\ call'[x.by] # Unused
                        /\ \A y \in revision : y.by = x.by => y = x
                        /\ Running(x.by)' =>
                             LET o == call'[x.by] IN
                             /\ o.ref = x.record
                             /\ o.op = "save" => x.record = o.record /\ x.number = o.base + 1
                             /\ o.op \in {"save", "create"} => x.text = o.text
      BY DEF RowsWritten
    <2>1. x.by \in Calls /\ call[x.by] # Unused
      BY <1>2 DEF IInv, TypeOK, RevisionRows
    <2>2. CASE call'[x.by] = call[x.by]
      BY <2>2 DEF IInv, RowsWritten, Running
    <2>3. CASE Marked(x.by)
      BY <2>3, Shapes DEF IInv, RowsWritten, Marked
    <2>4. CASE Over(x.by)
      BY <2>4, Shapes DEF IInv, RowsWritten, Over, Running
    <2> QED BY <2>1, <2>2, <2>3, <2>4 DEF Sent
  <1>4. CallsTrue'
    <2> SUFFICES ASSUME NEW c \in Calls, Running(c)' PROVE CallTrue(c)'
      BY DEF CallsTrue
    <2>r. /\ \A r, n : Row(r, n) => Row(r, n)'
          /\ \A r, n, t : RowWithText(r, n, t) => RowWithText(r, n, t)'
      BY RowsStay
    <2>1. CASE call'[c] = call[c]
      BY <2>1, <2>r DEF IInv, CallsTrue, CallTrue, Running, Exists
    <2>2. CASE Marked(c)
      BY <2>2, <2>r DEF IInv, CallsTrue, CallTrue, Marked, Exists
    <2>3. CASE Sent(c)
      BY <2>3, <2>r DEF CallTrue, Sent, Exists
    <2> QED BY <2>1, <2>2, <2>3 DEF Over, Running
  <1> QED BY <1>1, <1>3, <1>4 DEF IInv

\* The calls of f are those of now but for some that ended.
Ending(f) ==
    /\ f \in [Calls -> CallRows \cup {Unused, Spent}]
    /\ \A c \in Calls : f[c] = call[c] \/ (f[c] = Spent /\ Running(c))

\* The calls that carry the draft of p become stale, no others change.
StaleOnly(p, f) ==
    /\ call' \in [Calls -> CallRows \cup {Unused, Spent}]
    /\ \A c \in Calls :
         \/ call'[c] = f[c] /\ (f[c] = Spent \/ ~Draft(p, c))
         \/ /\ Marked(c) /\ call[c].page = p /\ f[c] = call[c]
            /\ call'[c].waits = call[c].waits /\ call'[c].fresh = FALSE

\* A draft that changed makes the calls that carried it stale, no other.
LEMMA StaleMarks ==
    ASSUME TypeOK, NEW p, NEW f, Ending(f), call' = Stale(p, f)
    PROVE  StaleOnly(p, f)
  <1>1. ASSUME NEW c \in Calls, Draft(p, c), f[c] # Spent
        PROVE  /\ call'[c] \in CallRows /\ Marked(c) /\ f[c] = call[c]
               /\ call[c].page = p /\ call'[c].waits = call[c].waits
               /\ call'[c].fresh = FALSE
    <2>1. call[c] \in CallRows /\ f[c] = call[c] /\ Running(c) /\ call[c].page = p
      BY <1>1, Shapes DEF Draft, Ending
    <2>2. call'[c] = [call[c] EXCEPT !.fresh = FALSE]
      BY <1>1, <2>1 DEF Stale
    <2> QED BY <2>1, <2>2 DEF CallRows, Marked
  <1>2. ASSUME NEW c \in Calls, ~(Draft(p, c) /\ f[c] # Spent) PROVE call'[c] = f[c]
    BY <1>2 DEF Stale
  <1>3. call' \in [Calls -> CallRows \cup {Unused, Spent}]
    BY <1>1, <1>2 DEF Stale, Ending
  <1> QED BY <1>1, <1>2, <1>3 DEF StaleOnly

\* An editor mounted anew no longer listens to its calls.
RemountOnly(p, f) ==
    /\ call' \in [Calls -> CallRows \cup {Unused, Spent}]
    /\ \A c \in Calls : call'[c] = f[c] \/ (Marked(c) /\ call[c].page = p /\ f[c] = call[c])

\* Mounting a daily form anew changes nothing else.
LEMMA RemountMarks ==
    ASSUME TypeOK, NEW p, NEW f, Ending(f), call' = Remount(p, f)
    PROVE  RemountOnly(p, f)
  <1>1. ASSUME NEW c \in Calls, Draft(p, c), f[c] # Spent
        PROVE  call'[c] \in CallRows /\ Marked(c) /\ f[c] = call[c] /\ call[c].page = p
    <2>1. call[c] \in CallRows /\ f[c] = call[c] /\ Running(c) /\ call[c].page = p
      BY <1>1, Shapes DEF Draft, Ending
    <2>2. call'[c] = [call[c] EXCEPT !.mounted = FALSE]
      BY <1>1, <2>1 DEF Remount
    <2> QED BY <2>1, <2>2 DEF CallRows, Marked
  <1>2. ASSUME NEW c \in Calls, ~(Draft(p, c) /\ f[c] # Spent) PROVE call'[c] = f[c]
    BY <1>2 DEF Remount
  <1>3. call' \in [Calls -> CallRows \cup {Unused, Spent}]
    BY <1>1, <1>2 DEF Remount, Ending
  <1> QED BY <1>1, <1>2, <1>3 DEF RemountOnly

\* Opening, typing, saving, filling and asking the revision panel.
LEMMA PageActionsKeep ==
    ASSUME IInv, NEW p \in Pages,
           \/ \E r \in Records : Open(p, r)
           \/ Type(p) \/ SavePage(p) \/ Fill(p) \/ FromPanel(p)
    PROVE  IInv'
  <1> USE DEF IInv
  <1>0. page[p] \in PageRows /\ page[p].record \in Records \cup {None}
    BY DEF TypeOK, PageRows
  <1>1. CASE \E r \in Records : Open(p, r)
    <2>1. PICK r \in Records : Open(p, r)
      BY <1>1
    <2>2. /\ Exists(r) /\ Mine(p) = {}
          /\ page' = [page EXCEPT ![p] = [record |-> r, number |-> record[r].number,
                                          text |-> Current(r).text, state |-> "saved"]]
          /\ UNCHANGED <<record, revision, call, typed>>
      BY <2>1 DEF Open
    <2>3. /\ record[r].number \in Nat /\ Current(r).text \in Nat
          /\ RowWithText(r, record[r].number, Current(r).text)
      BY <2>2, Numbers DEF RevisionRows, RowWithText
    <2>4. TypeOK'
      BY <2>2, <2>3 DEF TypeOK, PageRows, States
    <2>5. PagesTrue'
      BY <2>2, <2>3 DEF PagesTrue, PageTrue, RowWithText, Exists, TypeOK
    <2>6. FreshTrue'
      BY <2>2, Shapes DEF FreshTrue, Fresh, Running, Mine, TypeOK
    <2> QED BY <2>2, <2>4, <2>5, <2>6, PageChanges
  <1>2. CASE Type(p)
    <2>1. /\ page' = [page EXCEPT ![p].text = typed', ![p].state = "unsaved"]
          /\ typed' = typed + 1 /\ UNCHANGED <<record, revision>>
          /\ call' = IF KindOf[p] = "assignment_roster" THEN Stale(p, call) ELSE call
      BY <1>2 DEF Type
    <2>2. /\ call' \in [Calls -> CallRows \cup {Unused, Spent}]
          /\ \A c \in Calls :
               \/ call'[c] = call[c] /\ (KindOf[p] = "assignment_roster" =>
                                           call[c] = Spent \/ ~Draft(p, c))
               \/ Marked(c) /\ call[c].page = p /\ call'[c].fresh = FALSE
      <3>1. CASE KindOf[p] = "assignment_roster"
        <4>1. TypeOK /\ Ending(call) /\ call' = Stale(p, call)
          BY <2>1, <3>1 DEF Ending, TypeOK
        <4>2. StaleOnly(p, call)
          BY <4>1, StaleMarks
        <4> QED BY <4>2 DEF StaleOnly
      <3>2. CASE KindOf[p] # "assignment_roster"
        BY <2>1, <3>2 DEF TypeOK
      <3> QED BY <3>1, <3>2
    <2>3. TypeOK'
      <3>1. typed' \in Nat
        BY <2>1 DEF TypeOK
      <3>2. [page[p] EXCEPT !.text = typed', !.state = "unsaved"] \in PageRows
        BY <1>0, <3>1 DEF PageRows, States
      <3>3. page' \in [Pages -> PageRows]
        BY <2>1, <3>2 DEF TypeOK
      <3> QED BY <2>1, <2>2, <3>1, <3>3 DEF TypeOK
    <2>4. PagesTrue'
      BY <2>1 DEF PagesTrue, PageTrue, RowWithText, Exists, TypeOK, PageRows
    <2>5. FreshTrue'
      <3> SUFFICES ASSUME NEW c \in Calls, Running(c)' PROVE Fresh(c)'
        BY DEF FreshTrue
      <3>1. CASE Marked(c) /\ call[c].page = p /\ call'[c].fresh = FALSE
        BY <3>1 DEF Fresh
      <3>2. CASE call'[c] = call[c] /\ call[c].page # p
        BY <2>1, <3>2, Shapes DEF FreshTrue, Fresh, Running, TypeOK, CallRows
      <3>3. CASE call'[c] = call[c] /\ call[c].page = p
        BY <2>2, <3>3, Shapes DEF Fresh, Running, Draft, TypeOK, CallRows, Marked
      <3> QED BY <2>2, <3>1, <3>2, <3>3
    <2> QED BY <2>1, <2>2, <2>3, <2>4, <2>5, PageChanges
  <1>3. CASE \E op \in Ops, r \in Records \cup {None}, n \in Nat, t \in Nat :
               /\ Send(p, op, r, n, t) /\ UNCHANGED <<record, revision, typed>>
               /\ page' = page \/ page' = [page EXCEPT ![p].state = "saving"]
               /\ op \in {"save", "derive", "restore", "action"} => r \in Records /\ Exists(r)
               /\ op = "restore" => Row(r, n)
               /\ op = "derive" => KindOf[p] = "uniform_inspection"
               /\ op \in {"save", "create"} => t = page[p].text
    <2>1. PICK op \in Ops, r \in Records \cup {None}, n \in Nat, t \in Nat :
               /\ Send(p, op, r, n, t) /\ UNCHANGED <<record, revision, typed>>
               /\ page' = page \/ page' = [page EXCEPT ![p].state = "saving"]
               /\ op \in {"save", "derive", "restore", "action"} => r \in Records /\ Exists(r)
               /\ op = "restore" => Row(r, n)
               /\ op = "derive" => KindOf[p] = "uniform_inspection"
               /\ op \in {"save", "create"} => t = page[p].text
      BY <1>3
    <2>2. PICK c \in Calls, o \in CallRows :
              /\ call[c] = Unused /\ call' = [call EXCEPT ![c] = o]
              /\ o.page = p /\ o.op = op /\ o.record = r /\ o.base = n /\ o.text = t
              /\ o.phase = "sent" /\ o.answer = "none" /\ o.ref = None /\ o.read = NoRead
      BY <2>1, SentCalls
    <2>3. Sent(c) /\ call'[c] = o /\ \A d \in Calls \ {c} : call'[d] = call[d]
      BY <2>1, <2>2 DEF Sent, TypeOK
    <2>4. \A q \in Pages :
             /\ page'[q].text = page[q].text /\ page'[q].record = page[q].record
             /\ page'[q].number = page[q].number
             /\ page'[q].state = page[q].state \/ page'[q].state = "saving"
      BY <2>1 DEF TypeOK, PageRows
    <2>5. TypeOK'
      BY <2>1, <2>2 DEF TypeOK, PageRows, States
    <2>6. PagesTrue'
      BY <2>1, <2>4 DEF PagesTrue, PageTrue, RowWithText, Exists
    <2>7. FreshTrue'
      <3> SUFFICES ASSUME NEW d \in Calls, Running(d)' PROVE Fresh(d)'
        BY DEF FreshTrue
      <3>1. CASE d = c
        BY <2>1, <2>2, <2>3, <2>4, <3>1 DEF Fresh
      <3>2. CASE d # c
        <4>1. call'[d] = call[d] /\ Running(d) /\ call[d].page \in Pages
          BY <2>3, <3>2, Shapes DEF Running, CallRows
        <4> QED BY <2>4, <4>1 DEF FreshTrue, Fresh
      <3> QED BY <3>1, <3>2
    <2> QED BY <2>1, <2>3, <2>5, <2>6, <2>7, PageChanges
  <1>4. CASE SavePage(p)
    <2>1. CASE page[p].record = None
      BY <1>0, <1>3, <1>4, <2>1 DEF SavePage, Ops, PageRows
    <2>2. CASE page[p].record # None
      <3>1. page[p].record \in Records /\ Exists(page[p].record)
        BY <1>0, <2>2 DEF PagesTrue, PageTrue
      <3> QED BY <1>0, <1>3, <1>4, <2>2, <3>1 DEF SavePage, Ops, PageRows
    <2> QED BY <2>1, <2>2
  <1>5. CASE Fill(p)
    BY <1>3, <1>5 DEF Fill, Ops
  <1>6. CASE FromPanel(p)
    <2>1. page[p].record \in Records /\ Exists(page[p].record)
      BY <1>0, <1>6 DEF FromPanel, PagesTrue, PageTrue
    <2>2. CASE Send(p, "action", page[p].record, 0, 0)
      BY <1>3, <1>6, <2>1, <2>2 DEF FromPanel, Ops
    <2>3. ASSUME NEW x \in revision, x.record = page[p].record,
                 Send(p, "restore", x.record, x.number, 0)
          PROVE  IInv'
      <3>1. x.number \in Nat /\ Row(x.record, x.number)
        BY DEF TypeOK, RevisionRows, Row
      <3> QED BY <1>3, <1>6, <2>1, <2>3, <3>1 DEF FromPanel, Ops
    <2> QED BY <1>6, <2>2, <2>3 DEF FromPanel
  <1> QED BY <1>1, <1>2, <1>4, <1>5, <1>6

\* A row that an answer speaks of is shown as it is.
LEMMA Shown ==
    ASSUME TypeOK, NEW r \in Records, NEW n, Row(r, n)
    PROVE  /\ Show(r, n) \in PageRows
           /\ Show(r, n).record = r /\ Show(r, n).number = n /\ Show(r, n).state = "saved"
           /\ RowWithText(r, n, Show(r, n).text)
  <1>1. RowOf(r, n) \in revision /\ RowOf(r, n).record = r /\ RowOf(r, n).number = n
    BY RowOfThere
  <1>2. RowOf(r, n).text \in Nat /\ n \in Nat
    BY <1>1 DEF TypeOK, RevisionRows
  <1> QED BY <1>1, <1>2 DEF Show, PageRows, States, RowWithText

\* A call that is over leaves the others as they are.
LEMMA CallsEnd ==
    ASSUME IInv, NEW c \in Calls, Running(c)
    PROVE  LET f == [call EXCEPT ![c] = Spent] IN
           /\ f \in [Calls -> CallRows \cup {Unused, Spent}]
           /\ f[c] = Spent /\ \A d \in Calls \ {c} : f[d] = call[d]
           /\ \A d \in Calls : f[d] = call[d] \/ (f[d] = Spent /\ Running(d))
  BY DEF IInv, TypeOK

\* The rest of a step that ends c and shows something true on its page.
LEMMA EndsOnPage ==
    ASSUME IInv, NEW c \in Calls, Running(c), NEW y \in PageRows,
           UNCHANGED <<record, revision, typed>>,
           page' = [page EXCEPT ![call[c].page] = y],
           y.record # None =>
             Exists(y.record) /\ (y.state = "saved" => RowWithText(y.record, y.number, y.text)),
           call' \in [Calls -> CallRows \cup {Unused, Spent}], call'[c] = Spent,
           \A d \in Calls \ {c} :
              \/ call'[d] = call[d]
              \/ Marked(d) /\ call'[d].waits = call[d].waits /\ call'[d].fresh = FALSE
              \/ Marked(d) /\ KindOf[call[d].page] # "assignment_roster",
           KindOf[call[c].page] = "assignment_roster" /\ y.text # page[call[c].page].text =>
              \A d \in Calls : Draft(call[c].page, d) /\ d # c => call'[d].fresh = FALSE
    PROVE  IInv'
  <1> DEFINE p == call[c].page
  <1>0. call[c] \in CallRows /\ p \in Pages
    BY Shapes DEF IInv, CallRows
  <1>1. TypeOK'
    BY <1>0 DEF IInv, TypeOK
  <1>2. PagesTrue'
    <2> SUFFICES ASSUME NEW q \in Pages PROVE PageTrue(q)'
      BY DEF PagesTrue
    <2>1. CASE q = p
      BY <1>0, <2>1 DEF PageTrue, RowWithText, Exists, IInv, TypeOK
    <2>2. CASE q # p
      BY <1>0, <2>2 DEF PagesTrue, PageTrue, RowWithText, Exists, IInv, TypeOK
    <2> QED BY <2>1, <2>2
  <1>3. FreshTrue'
    <2> SUFFICES ASSUME NEW d \in Calls, Running(d)', KindOf[call'[d].page] = "assignment_roster",
                        call'[d].waits, call'[d].fresh, call'[d].op \in {"save", "create"}
                 PROVE  call'[d].text = page'[call'[d].page].text
      BY DEF FreshTrue, Fresh
    <2>1. d # c
      BY DEF Running
    <2>2. call'[d] = call[d] /\ Running(d)
      BY <2>1 DEF Marked, Running
    <2>3. call[d].text = page[call[d].page].text /\ call[d].page \in Pages
      BY <2>2, Shapes DEF IInv, FreshTrue, Fresh, CallRows
    <2>4. CASE call[d].page # p
      BY <1>0, <2>2, <2>3, <2>4 DEF IInv, TypeOK
    <2>5. CASE call[d].page = p
      <3>1. Draft(p, d) /\ KindOf[p] = "assignment_roster"
        BY <2>2, <2>5 DEF Draft
      <3>2. y.text = page[p].text
        BY <2>1, <3>1
      <3> QED BY <1>0, <2>2, <2>3, <2>5, <3>2 DEF IInv, TypeOK
    <2> QED BY <2>4, <2>5
  <1>4. \A d \in Calls : call'[d] = call[d] \/ Marked(d) \/ Over(d) \/ Sent(d)
    BY DEF Over
  <1> QED BY <1>1, <1>2, <1>3, <1>4, PageChanges

\* A page hears the answer of its call.
LEMMA HearKeeps == ASSUME IInv, NEW c \in Calls, Hear(c) PROVE IInv'
  <1> DEFINE p == call[c].page
             r == call[c].got
             n == call[c].number
             f == [call EXCEPT ![c] = Spent]
  <1>0. /\ Running(c) /\ call[c] \in CallRows /\ p \in Pages /\ page[p] \in PageRows
        /\ UNCHANGED <<record, revision, typed>>
    BY Shapes DEF Hear, Waits, IInv, TypeOK, CallRows
  <1>1. /\ f \in [Calls -> CallRows \cup {Unused, Spent}]
        /\ f[c] = Spent /\ \A d \in Calls \ {c} : f[d] = call[d]
        /\ \A d \in Calls : f[d] = call[d] \/ (f[d] = Spent /\ Running(d))
    BY <1>0, CallsEnd
  <1>2. PageTrue(p)
    BY <1>0 DEF IInv, PagesTrue
  <1>3. CASE call[c].answer # "ok" /\ AcceptFailure(c)
    <2> DEFINE y == page'[p]
    <2>1. /\ y \in PageRows /\ page' = [page EXCEPT ![p] = y]
          /\ y.record = page[p].record /\ y.number = page[p].number /\ y.text = page[p].text
          /\ y.state = "saved" => page[p].state = "saved"
      BY <1>0, <1>3 DEF AcceptFailure, PageRows, States, IInv, TypeOK
    <2>2. call' = f
      BY <1>3 DEF AcceptFailure
    <2> HIDE DEF y, f
    <2> QED BY <1>0, <1>1, <1>2, <2>1, <2>2, EndsOnPage DEF PageTrue
  <1>4. CASE call[c].op = "action" /\ call' = f /\ UNCHANGED page
    <2>1. page' = [page EXCEPT ![p] = page[p]]
      BY <1>0, <1>4 DEF IInv, TypeOK
    <2> HIDE DEF f
    <2> QED BY <1>0, <1>1, <1>2, <1>4, <2>1, EndsOnPage DEF PageTrue
  <1>5. ASSUME call[c].answer = "ok", call[c].op # "action"
        PROVE  r \in Records /\ Exists(r) /\ Row(r, n) /\ n \in Nat
    <2>1. PICK x \in revision : x.by = c /\ x.record = r
      BY <1>0, <1>5 DEF IInv, CallsTrue, CallTrue
    <2>2. x.record \in Records /\ Exists(x.record)
      BY DEF IInv, TypeOK, RevisionRows, History, RowTrue
    <2> QED BY <1>0, <1>5, <2>1, <2>2 DEF IInv, CallsTrue, CallTrue, CallRows
  <1>6. ASSUME call[c].answer = "ok", call[c].op # "action"
        PROVE  /\ Show(r, n) \in PageRows
               /\ Show(r, n).record = r /\ Show(r, n).number = n
               /\ RowWithText(r, n, Show(r, n).text)
    BY <1>5, <1>6, Shown DEF IInv
  <1>7. CASE call[c].answer = "ok" /\ call[c].op # "action" /\ AcceptRoster(c)
    <2>1. CASE /\ page' = [page EXCEPT ![p].record = r, ![p].number = n, ![p].state = "unsaved"]
               /\ call' = f
      <3> DEFINE y == [page[p] EXCEPT !.record = r, !.number = n, !.state = "unsaved"]
      <3>1. /\ y \in PageRows /\ y.record = r /\ y.state # "saved" /\ y.text = page[p].text
            /\ page' = [page EXCEPT ![p] = y]
        BY <1>0, <1>5, <1>7, <2>1 DEF PageRows, States, IInv, TypeOK
      <3> HIDE DEF y, f, r, n
      <3> QED BY <1>0, <1>1, <1>5, <1>7, <2>1, <3>1, EndsOnPage
    <2>2. CASE page' = [page EXCEPT ![p] = Show(r, n)] /\ call' = Stale(p, f)
      <3>1. /\ call' \in [Calls -> CallRows \cup {Unused, Spent}]
            /\ \A d \in Calls :
                 \/ call'[d] = f[d] /\ (f[d] = Spent \/ ~Draft(p, d))
                 \/ /\ Marked(d) /\ call[d].page = p /\ f[d] = call[d]
                    /\ call'[d].waits = call[d].waits /\ call'[d].fresh = FALSE
        <4>1. TypeOK /\ Ending(f)
          BY <1>1 DEF Ending, IInv
        <4> HIDE DEF f
        <4>2. StaleOnly(p, f)
          BY <2>2, <4>1, StaleMarks
        <4> QED BY <4>2 DEF StaleOnly
      <3>2. call'[c] = Spent
        BY <1>0, <1>1, <3>1 DEF Running
      <3>3. \A d \in Calls \ {c} :
              \/ call'[d] = call[d] /\ ~Draft(p, d)
              \/ Marked(d) /\ call'[d].waits = call[d].waits /\ call'[d].fresh = FALSE
        <4>1. call[c] # Spent /\ \A d \in Calls \ {c} : f[d] = Spent => ~Draft(p, d)
          BY <1>0, <1>1 DEF Draft, Running
        <4> HIDE DEF f
        <4> QED BY <1>1, <3>1, <4>1
      <3>4. \A d \in Calls : Draft(p, d) /\ d # c => call'[d].fresh = FALSE
        BY <3>3
      <3> DEFINE y == Show(r, n)
      <3>5. /\ y \in PageRows /\ page' = [page EXCEPT ![p] = y]
            /\ y.record \in Records /\ Exists(y.record)
            /\ RowWithText(y.record, y.number, y.text)
        BY <1>5, <1>6, <1>7, <2>2
      <3> HIDE DEF y
      <3> QED BY <1>0, <3>1, <3>2, <3>3, <3>4, <3>5, EndsOnPage
    <2> QED BY <1>7, <2>1, <2>2 DEF AcceptRoster
  <1>8. CASE /\ call[c].answer = "ok" /\ call[c].op # "action" /\ AcceptForm(c)
             /\ KindOf[p] # "assignment_roster"
    <2>1. /\ call' \in [Calls -> CallRows \cup {Unused, Spent}]
          /\ \A d \in Calls :
               call'[d] = f[d] \/ (Marked(d) /\ call[d].page = p /\ f[d] = call[d])
      <3>1. call' = f \/ call' = Remount(p, f)
        BY <1>8 DEF AcceptForm
      <3>2. TypeOK /\ Ending(f)
        BY <1>1 DEF Ending, IInv
      <3>3. CASE call' = f
        BY <1>1, <3>3
      <3>4. CASE call' = Remount(p, f)
        <4>1. RemountOnly(p, f)
          BY <3>2, <3>4, RemountMarks
        <4> QED BY <4>1 DEF RemountOnly
      <3> QED BY <3>1, <3>3, <3>4
    <2>2. call'[c] = Spent
      BY <1>0, <1>1, <2>1 DEF Running
    <2>3. \A d \in Calls \ {c} :
            call'[d] = call[d] \/ (Marked(d) /\ KindOf[call[d].page] # "assignment_roster")
      BY <1>1, <1>8, <2>1
    <2> DEFINE y == Show(r, n)
    <2>4. /\ y \in PageRows /\ page' = [page EXCEPT ![p] = y]
          /\ y.record \in Records /\ Exists(y.record)
          /\ RowWithText(y.record, y.number, y.text)
      BY <1>5, <1>6, <1>8 DEF AcceptForm
    <2> HIDE DEF y
    <2> QED BY <1>0, <1>8, <2>1, <2>2, <2>3, <2>4, EndsOnPage
  <1> QED BY <1>3, <1>4, <1>7, <1>8 DEF Hear

\* A page loses the answer, or nobody waits for it.
LEMMA LoseKeeps == ASSUME IInv, NEW c \in Calls, Lose(c) \/ Drop(c) PROVE IInv'
  <1>0. /\ Running(c) /\ call[c] \in CallRows /\ call[c].page \in Pages
        /\ UNCHANGED <<record, revision, typed>>
        /\ call \in [Calls -> CallRows \cup {Unused, Spent}] /\ page \in [Pages -> PageRows]
    BY Shapes DEF Lose, Drop, Waits, IInv, TypeOK, CallRows
  <1>1. /\ \A d \in Calls \ {c} : call'[d] = call[d]
        /\ Over(c) \/ (Marked(c) /\ ~call'[c].waits)
        /\ call' \in [Calls -> CallRows \cup {Unused, Spent}]
    <2>1. CASE Drop(c)
      BY <1>0, <2>1 DEF Drop, Over
    <2>2. CASE Lose(c)
      <3> DEFINE o == [call[c] EXCEPT !.waits = FALSE, !.fresh = TRUE, !.mounted = TRUE]
      <3>1. call' = [call EXCEPT ![c] = o]
        BY <1>0, <2>2 DEF Lose
      <3>2. /\ o \in CallRows /\ ~o.waits
            /\ o.page = call[c].page /\ o.op = call[c].op /\ o.record = call[c].record
            /\ o.base = call[c].base /\ o.text = call[c].text /\ o.read = call[c].read
            /\ o.ref = call[c].ref /\ o.phase = call[c].phase /\ o.answer = call[c].answer
            /\ o.got = call[c].got /\ o.number = call[c].number
        BY <1>0 DEF CallRows
      <3> HIDE DEF o
      <3> QED BY <1>0, <3>1, <3>2 DEF Marked
    <2> QED BY <2>1, <2>2
  <1>2. /\ page' \in [Pages -> PageRows]
        /\ \A p \in Pages :
             /\ page'[p].record = page[p].record /\ page'[p].number = page[p].number
             /\ page'[p].text = page[p].text
             /\ page'[p].state = "saved" => page[p].state = "saved"
    <2>1. CASE page' = page
      BY <1>0, <2>1
    <2>2. ASSUME NEW st \in States \ {"saved"}, page' = [page EXCEPT ![call[c].page].state = st]
          PROVE  /\ page' \in [Pages -> PageRows]
                 /\ \A p \in Pages :
                      /\ page'[p].record = page[p].record /\ page'[p].number = page[p].number
                      /\ page'[p].text = page[p].text
                      /\ page'[p].state = "saved" => page[p].state = "saved"
      BY <1>0, <2>2 DEF PageRows
    <2>3. CASE Lose(c)
      BY <2>1, <2>2, <2>3 DEF Lose, States
    <2>4. CASE Drop(c)
      BY <2>1, <2>4 DEF Drop
    <2> QED BY <2>3, <2>4
  <1>4. TypeOK'
    BY <1>0, <1>1, <1>2 DEF IInv, TypeOK
  <1>5. PagesTrue'
    BY <1>0, <1>2 DEF IInv, PagesTrue, PageTrue, RowWithText, Exists
  <1>6. FreshTrue'
    <2> SUFFICES ASSUME NEW d \in Calls, Running(d)' PROVE Fresh(d)'
      BY DEF FreshTrue
    <2>1. CASE d = c
      BY <1>1, <2>1 DEF Over, Running, Fresh
    <2>2. CASE d # c
      <3>1. call'[d] = call[d] /\ Running(d) /\ call[d].page \in Pages
        BY <1>1, <2>2, Shapes DEF Running, CallRows, IInv
      <3> QED BY <1>2, <3>1 DEF IInv, FreshTrue, Fresh
    <2> QED BY <2>1, <2>2
  <1> QED BY <1>0, <1>1, <1>4, <1>5, <1>6, PageChanges

-----------------------------------------------------------------------------
\* At first there is one roster of an earlier day and no call.
LEMMA InitIInv == Init => IInv
  <1> SUFFICES ASSUME Init PROVE IInv
    OBVIOUS
  <1>1. PICK d \in Days, owner \in Admins :
          /\ record = [r \in Records |->
                IF r = Yesterday
                THEN [kind |-> "assignment_roster", day |-> d, number |-> 1, owner |-> owner]
                ELSE NoRecord]
          /\ revision = {[record |-> Yesterday, number |-> 1, day |-> d, text |-> 0,
                        seen |-> 0, by |-> None, from |-> None, page |-> None]}
    BY DEF Init
  <1> DEFINE first == [kind |-> "assignment_roster", day |-> d, number |-> 1, owner |-> owner]
             row == [record |-> Yesterday, number |-> 1, day |-> d, text |-> 0,
                     seen |-> 0, by |-> None, from |-> None, page |-> None]
  <1>2. /\ first \in RecordRows /\ first.number = 1 /\ first.day = d
        /\ row \in RevisionRows /\ row.record = Yesterday /\ row.number = 1
        /\ row.day = d /\ row.seen = 0 /\ row.by = None /\ row.from = None
    BY PaperworkAssumption DEF RecordRows, RevisionRows, Kinds, Origins
  <1>3. revision = {row} /\ record = [r \in Records |-> IF r = Yesterday THEN first ELSE NoRecord]
    BY <1>1
  <1> HIDE DEF first, row
  <1>4. /\ call = [c \in Calls |-> Unused] /\ typed = 0
        /\ page = [p \in Pages |-> [record |-> None, number |-> 0, text |-> 0,
                    state |-> IF KindOf[p] = "count_sheet" THEN "saved" ELSE "unsaved"]]
    BY DEF Init
  <1>5. TypeOK
    <2>1. IsFiniteSet(revision)
      BY <1>3, FS_Singleton
    <2>2. page \in [Pages -> PageRows]
      BY <1>4 DEF PageRows, States
    <2> QED BY <1>2, <1>3, <1>4, <2>1, <2>2 DEF TypeOK
  <1>6. \A r \in Records : Exists(r) <=> r = Yesterday
    BY <1>2, <1>3, Shapes DEF Exists
  <1>7. History
    BY <1>2, <1>3, <1>6, PaperworkAssumption
       DEF History, RowsUnique, RowTrue, NoGaps, Row
  <1>8. RowsWritten /\ CallsTrue /\ FreshTrue
    BY <1>2, <1>3, <1>4 DEF RowsWritten, CallsTrue, FreshTrue, Running
  <1>9. PagesTrue
    BY <1>4 DEF PagesTrue, PageTrue
  <1> QED BY <1>5, <1>7, <1>8, <1>9 DEF IInv

\* Every step of the service and of the pages keeps the invariant.
LEMMA NextIInv == IInv /\ [Next]_vars => IInv'
  <1> SUFFICES ASSUME IInv, [Next]_vars PROVE IInv'
    OBVIOUS
  <1>1. CASE UNCHANGED vars
    BY <1>1
       DEF vars, IInv, TypeOK, History, RowsUnique, RowTrue, RowWithText, NoGaps,
           Row,
                RowsWritten, CallsTrue, CallTrue, PagesTrue, PageTrue, FreshTrue, Fresh,
                Exists, Running
  <1>2. ASSUME NEW c \in Calls,
               \/ Save(c) \/ Create(c) \/ Restore(c) \/ Act(c)
               \/ ReadPrevious(c) \/ SaveCopy(c) \/ ReadRoster(c) \/ SaveDerived(c)
               \/ ReadRecord(c) \/ Reject(c) \/ Redeliver(c)
        PROVE  IInv'
    BY <1>2, SaveKeeps, CreateKeeps, RestoreKeeps, ActKeeps, HandlersReadKeeps,
       SaveDerivedKeeps, DeliveryKeeps
  <1>3. ASSUME NEW c \in Calls, Lose(c) \/ Hear(c) \/ Drop(c) PROVE IInv'
    BY <1>3, LoseKeeps, HearKeeps
  <1>4. ASSUME NEW p \in Pages,
               \/ Type(p) \/ SavePage(p) \/ Fill(p) \/ FromPanel(p)
               \/ \E r \in Records : Open(p, r)
        PROVE  IInv'
    BY <1>4, PageActionsKeep
  <1> QED BY <1>1, <1>2, <1>3, <1>4 DEF Next

\* Records, revisions, calls and pages hold the values their types allow.
THEOREM TypeCorrect == Spec => []TypeOK
  <1>1. IInv => TypeOK
    BY DEF IInv
  <1> QED BY <1>1, InitIInv, NextIInv, PTL DEF Spec

-----------------------------------------------------------------------------
(* What follows from the invariant.                                         *)

\* The revisions of a record are numbered from one, without gap or repetition,
\* and each was written by somebody who had the one before.
THEOREM HistoriesAreWhole == Spec => []HistoryIsWhole
  <1>1. ASSUME IInv PROVE HistoryIsWhole
    <2> SUFFICES ASSUME NEW r \in Records, Exists(r)
                 PROVE  LET mine == {x \in revision : x.record = r} IN
                        /\ {x.number : x \in mine} = 1 .. record[r].number
                        /\ Cardinality(mine) = record[r].number
                        /\ Current(r).day = record[r].day
                        /\ \A x \in mine : x.seen = x.number - 1
      BY DEF HistoryIsWhole
    <2> DEFINE mine == {x \in revision : x.record = r}
               last == record[r].number
               f == [x \in mine |-> x.number]
    <2>1. /\ last \in Nat /\ Current(r) \in revision
          /\ Current(r).record = r /\ Current(r).number = last
      BY <1>1, Numbers
    <2>2. \A x \in mine : /\ RowTrue(x) /\ x.number \in 1 .. last
      BY <1>1, <2>1 DEF IInv, TypeOK, RevisionRows, History, RowTrue
    <2>3. \A n \in 1 .. last : \E x \in mine : x.number = n
      BY <1>1 DEF IInv, History, NoGaps, Row
    <2>4. {x.number : x \in mine} = 1 .. last
      BY <2>2, <2>3
    <2>5. Cardinality(mine) = last
      <3>1. IsFiniteSet(mine)
        BY <1>1, FS_Subset DEF IInv, TypeOK
      <3>2. f \in Bijection(mine, 1 .. last)
        <4>1. f \in [mine -> 1 .. last]
          BY <2>2
        <4>2. \A x, y \in mine : f[x] = f[y] => x = y
          BY <1>1 DEF IInv, History, RowsUnique
        <4>3. \A n \in 1 .. last : \E x \in mine : f[x] = n
          BY <2>3
        <4> HIDE DEF f, mine, last
        <4> QED BY <4>1, <4>2, <4>3 DEF Bijection, Injection, Surjection, IsInjective
      <3>3. Cardinality(mine) = Cardinality(1 .. last)
        BY <3>1, <3>2, FS_Bijection DEF ExistsBijection
      <3>4. 1 \in Int /\ last \in Int
        BY <2>1
      <3> HIDE DEF mine, last
      <3>5. Cardinality(1 .. last) = IF 1 > last THEN 0 ELSE last - 1 + 1
        BY <3>4, FS_Interval
      <3> QED BY <2>1, <3>3, <3>5
    <2>6. Current(r).day = record[r].day
      BY <2>1, <2>2 DEF RowTrue
    <2>7. \A x \in mine : x.seen = x.number - 1
      BY <2>2 DEF RowTrue
    <2> QED BY <2>4, <2>5, <2>6, <2>7
  <1> QED BY <1>1, InitIInv, NextIInv, PTL DEF Spec

\* A call writes at most one revision, and one that was answered with a record
\* has written it, however often it was delivered.
THEOREM CallsWriteOnce == Spec => []OncePerCall
  <1>1. ASSUME IInv PROVE OncePerCall
    <2>1. \A x, y \in revision : x.by = y.by /\ x.by # None => x = y
      BY <1>1 DEF IInv, RowsWritten
    <2>2. \A c \in Calls : Running(c) /\ call[c].answer = "ok" /\ call[c].op # "action" =>
            \E x \in revision : x.by = c /\ x.record = call[c].got /\ x.number <= call[c].number
      BY <1>1 DEF IInv, CallsTrue, CallTrue
    <2> QED BY <2>1, <2>2 DEF OncePerCall
  <1> QED BY <1>1, InitIInv, NextIInv, PTL DEF Spec

\* An inspection names a roster revision that has the rows it was made from.
THEOREM ProvenanceHolds == Spec => []ProvenanceIsTrue
  <1>1. IInv => ProvenanceIsTrue
    BY DEF IInv, History, RowTrue, RowWithText, ProvenanceIsTrue
  <1> QED BY <1>1, InitIInv, NextIInv, PTL DEF Spec

\* A page that says its draft is saved shows a revision as it was written.
THEOREM SavedPagesAreSaved == Spec => []SavedIsSaved
  <1>1. IInv => SavedIsSaved
    BY DEF IInv, PagesTrue, PageTrue, RowWithText, SavedIsSaved
  <1> QED BY <1>1, InitIInv, NextIInv, PTL DEF Spec

\* Typed work is only replaced by typing on, a copy or a restore: an answer
\* takes the page over only if the page still shows what its call has sent,
\* and that is then in a revision.
THEOREM TypedWorkIsKept == Spec => TypedWorkKept
  <1> DEFINE Kept ==
        \A p \in Pages :
          /\ KindOf[p] = "assignment_roster"
          /\ page[p].text # 0 /\ ~\E x \in revision : x.text = page[p].text
          /\ page'[p].text # page[p].text
          => \/ typed' = typed + 1
             \/ \E c \in Mine(p) : call[c].op \in {"copy", "restore"} /\ call'[c] = Spent
  <1>1. ASSUME IInv, [Next]_vars PROVE [Kept]_vars
    <2> SUFFICES ASSUME NEW p \in Pages, KindOf[p] = "assignment_roster", page[p].text # 0,
                        ~\E x \in revision : x.text = page[p].text,
                        page'[p].text # page[p].text, Next
                 PROVE  \/ typed' = typed + 1
                        \/ \E c \in Mine(p) : call[c].op \in {"copy", "restore"} /\ call'[c] = Spent
      BY <1>1
    <2>0. page \in [Pages -> PageRows]
      BY <1>1 DEF IInv, TypeOK
    <2>1. ASSUME NEW c \in Calls,
                 \/ Save(c) \/ Create(c) \/ Restore(c) \/ Act(c)
                 \/ ReadPrevious(c) \/ SaveCopy(c) \/ ReadRoster(c) \/ SaveDerived(c)
                 \/ ReadRecord(c) \/ Reject(c) \/ Redeliver(c) \/ Drop(c)
          PROVE  UNCHANGED page
      BY <2>1
         DEF Save, Create, Restore, Act, ReadPrevious, SaveCopy, ReadRoster, SaveDerived,
             ReadRecord, Reject, Redeliver, Drop, SaveNew, Refuse, AnswerReplay, Commit
    <2>2. ASSUME NEW c \in Calls, Lose(c) PROVE page'[p].text = page[p].text
      BY <2>0, <2>2 DEF Lose, PageRows
    <2>3. ASSUME NEW q \in Pages, NEW r \in Records, Open(q, r)
          PROVE  page'[p].text = page[p].text
      BY <2>0, <2>3 DEF Open, PageRows
    <2>4. ASSUME NEW q \in Pages, SavePage(q) \/ Fill(q) \/ FromPanel(q)
          PROVE  page'[p].text = page[p].text
      BY <2>0, <2>4 DEF SavePage, Fill, FromPanel, PageRows
    <2>5. ASSUME NEW c \in Calls, Hear(c)
          PROVE  \E d \in Mine(p) : call[d].op \in {"copy", "restore"} /\ call'[d] = Spent
      <3>1. Running(c) /\ call[c] \in CallRows /\ call[c].waits
        BY <1>1, <2>5, Shapes DEF Hear, Waits, IInv
      <3>2. call[c].page \in Pages /\ call[c].op \in Ops
        BY <3>1 DEF CallRows
      <3>3. call[c].page = p
        BY <2>0, <2>5, <3>2
           DEF Hear, AcceptFailure, AcceptRoster, AcceptForm, PageRows
      <3>4. AcceptRoster(c) /\ call[c].answer = "ok" /\ call[c].op # "action"
        BY <2>0, <2>5, <3>3 DEF Hear, AcceptFailure, PageRows
      <3>5. ~(call[c].op \in {"save", "create"} /\ ~call[c].fresh)
        BY <2>0, <3>3, <3>4 DEF AcceptRoster, PageRows
      <3>6. call[c].op \notin {"save", "create"}
        <4> SUFFICES ASSUME call[c].op \in {"save", "create"} PROVE FALSE
          OBVIOUS
        <4>1. call[c].text = page[p].text
          BY <1>1, <3>1, <3>3, <3>5 DEF IInv, FreshTrue, Fresh
        <4>2. PICK x \in revision : x.by = c
          BY <1>1, <3>1, <3>4 DEF IInv, CallsTrue, CallTrue
        <4>3. x.text = call[c].text
          BY <1>1, <3>1, <4>2, PaperworkAssumption DEF IInv, RowsWritten
        <4> QED BY <4>1, <4>3
      <3>7. call[c].op # "derive"
        BY <1>1, <3>1, <3>3 DEF IInv, CallsTrue, CallTrue
      <3>8. call[c].op \in {"copy", "restore"}
        BY <3>2, <3>4, <3>6, <3>7 DEF Ops
      <3>9. call'[c] = Spent
        BY <1>1, <3>4, <3>5, <3>6 DEF AcceptRoster, Stale, IInv, TypeOK
      <3> QED BY <3>1, <3>3, <3>8, <3>9 DEF Mine
    <2>6. ASSUME NEW q \in Pages, Type(q) PROVE typed' = typed + 1
      BY <2>6 DEF Type
    <2> QED BY <2>1, <2>2, <2>3, <2>4, <2>5, <2>6 DEF Next
  <1> QED BY <1>1, InitIInv, NextIInv, PTL DEF Spec, TypedWorkKept
=============================================================================
