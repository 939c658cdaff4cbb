------------------------ MODULE ReportRevisionsProofs ------------------------
(***************************************************************************)
(* Proofs about ReportRevisions for any number of reports, staff, commands *)
(* and revisions.                                                          *)
(*                                                                         *)
(* Everything that happens to a report appends one revision (Appends); the *)
(* properties of the history are proved from that alone (AppendKeeps).     *)
(* Commands leave marks on their revisions (Marks): a base-checked command *)
(* cannot run twice because its own first revision moved the report past   *)
(* its base, the others because of their idempotency record.               *)
(***************************************************************************)
EXTENDS ReportRevisions, TLAPS

\* Recoveries aside, no revision is newer than the current one.
NotBeyond ==
    \A p \in Reports : \A v \in revisions[p] :
        v.reason # "recovery" => v.n <= report[p].current

\* A report that does not exist has no revisions.
Born ==
    \A p \in Reports :
        \/ report[p] = Unborn /\ revisions[p] = {}
        \/ report[p].current >= 1

History == /\ OneRevisionPerNumber /\ NothingOverwritten /\ CurrentIsARevision
           /\ NotBeyond /\ Born

\* v is the next revision of p: the new current one, or a recovery.
Appends(p, v) ==
    /\ v \in Revision /\ v.n >= 1
    /\ \A w \in revisions[p] : w.n < v.n
    /\ revisions' = [revisions EXCEPT ![p] = @ \cup {v}]
    /\ \A q \in Reports \ {p} : report'[q] = report[q]
    /\ \/ /\ v.reason # "recovery"
          /\ report'[p].current = v.n /\ report'[p].text = v.text
          /\ v.reason \in Checked => v.base = report[p].current
       \/ /\ v.reason = "recovery"
          /\ report'[p] = report[p] /\ report[p].current >= 1

\* Appending a revision keeps what is said about the history of a report.
LEMMA AppendKeeps ==
  ASSUME TypeOK, History, NEW p \in Reports, NEW v, Appends(p, v)
  PROVE  History'
  <1> USE DEF History
  <1>1. /\ revisions'[p] = revisions[p] \cup {v}
        /\ \A q \in Reports \ {p} : revisions'[q] = revisions[q] /\ report'[q] = report[q]
    BY DEF Appends, TypeOK
  <1>2. /\ report[p].current \in Nat /\ v.n \in Nat /\ v.base \in Nat
        /\ \A w \in revisions[p] : w.n \in Nat /\ w.base \in Nat /\ w.n < v.n
    BY DEF Appends, TypeOK, Rows, Revision
  <1>3. CASE /\ v.reason # "recovery"
             /\ report'[p].current = v.n /\ report'[p].text = v.text
             /\ v.reason \in Checked => v.base = report[p].current
    <2>1. OneRevisionPerNumber'
      BY <1>1, <1>2 DEF OneRevisionPerNumber
    <2>2. NotBeyond'
      BY <1>1, <1>2, <1>3 DEF NotBeyond
    <2>3. Born'
      BY <1>1, <1>3 DEF Born, Appends
    <2>4. CurrentIsARevision'
      BY <1>1, <1>3 DEF CurrentIsARevision
    <2>5. NothingOverwritten'
      <3>1. ASSUME NEW x \in revisions'[p], NEW w \in revisions'[p], w # x,
                   x.reason \in Checked, w.n > x.base, w.reason # "recovery"
            PROVE  w.n > x.n
        <4>1. CASE x = v
          BY <1>1, <1>2, <1>3, <3>1, <4>1 DEF NotBeyond
        <4>2. CASE x # v /\ w = v
          BY <1>1, <1>2, <4>2
        <4>3. CASE x # v /\ w # v
          BY <1>1, <3>1, <4>3 DEF NothingOverwritten
        <4> QED BY <4>1, <4>2, <4>3
      <3> QED BY <1>1, <3>1 DEF NothingOverwritten
    <2> QED BY <2>1, <2>2, <2>3, <2>4, <2>5
  <1>4. CASE v.reason = "recovery" /\ report'[p] = report[p] /\ report[p].current >= 1
    <2>1. OneRevisionPerNumber' /\ NotBeyond' /\ Born' /\ CurrentIsARevision'
      BY <1>1, <1>2, <1>4
         DEF OneRevisionPerNumber, NotBeyond, Born, CurrentIsARevision
    <2>2. v.reason \notin Checked
      BY <1>4 DEF Checked
    <2>3. NothingOverwritten'
      BY <1>1, <1>4, <2>2 DEF NothingOverwritten
    <2> QED BY <2>1, <2>3
  <1> QED BY <1>3, <1>4 DEF Appends

-----------------------------------------------------------------------------
\* Ownership and access.
People == AccessFollowsOwnership /\ OneReportPerOwner

\* A step that changes neither owners nor access.
LEMMA SameOwners ==
  ASSUME People, UNCHANGED access,
         \A p \in Reports : /\ report'[p].owner = report[p].owner
                            /\ report'[p].preparer = report[p].preparer
                            /\ report'[p] # Unborn => report[p] # Unborn
  PROVE  People'
  BY DEF People, AccessFollowsOwnership, OneReportPerOwner, Live

\* Owner o and preparer s get live rows of report p; nobody else has any.
GivesAccess(p, o, s) ==
    /\ \A q \in Reports \ {p} : access'[q] = access[q]
    /\ \A t \in Staff :
         /\ access'[p][t].live <=> t \in {o, s}
         /\ access'[p][t].live =>
              access'[p][t].rel = IF t = o THEN "owner" ELSE "preparer"

\* A step that gives report p, and its access rows, to a new pair.
LEMMA NewPair ==
  ASSUME People, NEW p \in Reports, NEW o, NEW s,
         OwnerFree(p, o), GivesAccess(p, o, s),
         report'[p].owner = o /\ report'[p].preparer = s,
         \A q \in Reports \ {p} : report'[q] = report[q]
  PROVE  People'
  <1>1. AccessFollowsOwnership'
    <2> SUFFICES ASSUME NEW q \in Reports, report'[q] # Unborn, NEW t \in Staff
                 PROVE  /\ access'[q][t].live <=> t \in {report'[q].owner, report'[q].preparer}
                        /\ access'[q][t].live => access'[q][t].rel =
                             IF t = report'[q].owner THEN "owner" ELSE "preparer"
      BY DEF AccessFollowsOwnership, Live, Unborn
    <2>1. CASE q = p
      BY <2>1 DEF GivesAccess
    <2>2. CASE q # p
      BY <2>2 DEF GivesAccess, People, AccessFollowsOwnership, Live
    <2> QED BY <2>1, <2>2
  <1>2. OneReportPerOwner'
    <2> SUFFICES ASSUME NEW q \in Reports, NEW r \in Reports, q # r, report'[q] # Unborn
                 PROVE  report'[q].owner # report'[r].owner
      BY DEF OneReportPerOwner, Unborn
    <2>1. CASE q = p \/ r = p
      BY <2>1 DEF OwnerFree
    <2>2. CASE q # p /\ r # p
      BY <2>2 DEF People, OneReportPerOwner
    <2> QED BY <2>1, <2>2
  <1> QED BY <1>1, <1>2 DEF People

\* Regrant does so: it rewrites two rows and revokes the others.
LEMMA RegrantGives ==
  ASSUME access \in [Reports -> [Staff -> AccessRows]],
         NEW p \in Reports, NEW o \in Staff, NEW s \in Staff, Regrant(p, o, s)
  PROVE  access' \in [Reports -> [Staff -> AccessRows]] /\ GivesAccess(p, o, s)
  <1> DEFINE row(t) == IF t \in {o, s} THEN FreshAccess(o, s)[t]
                       ELSE [access[p][t] EXCEPT !.live = FALSE]
  <1>1. access' = [access EXCEPT ![p] = [t \in Staff |-> row(t)]]
    BY DEF Regrant
  <1>2. ASSUME NEW t \in Staff
        PROVE  /\ row(t) \in AccessRows
               /\ row(t).live <=> t \in {o, s}
               /\ row(t).live => row(t).rel = IF t = o THEN "owner" ELSE "preparer"
    <2>1. access[p][t] \in AccessRows
      OBVIOUS
    <2>2. CASE t \in {o, s}
      BY <2>2 DEF FreshAccess, AccessRows
    <2>3. CASE t \notin {o, s}
      BY <2>1, <2>3 DEF AccessRows
    <2> QED BY <2>2, <2>3
  <1> HIDE DEF row
  <1> QED BY <1>1, <1>2 DEF GivesAccess

\* The rows a new report starts with: live for its owner and its preparer.
LEMMA FreshRow ==
  ASSUME NEW o, NEW s, NEW t \in Staff
  PROVE  /\ FreshAccess(o, s)[t] \in AccessRows
         /\ FreshAccess(o, s)[t].live <=> t \in {o, s}
         /\ FreshAccess(o, s)[t].live =>
              FreshAccess(o, s)[t].rel = IF t = o THEN "owner" ELSE "preparer"
  <1> DEFINE row == [rel |-> IF t = o THEN "owner" ELSE IF t = s THEN "preparer"
                             ELSE "none",
                     live |-> t \in {o, s}]
  <1>1. /\ row \in AccessRows
        /\ row.live <=> t \in {o, s}
        /\ row.live => row.rel = IF t = o THEN "owner" ELSE "preparer"
    <2>1. CASE t \in {o, s}
      BY <2>1 DEF AccessRows
    <2>2. CASE t \notin {o, s}
      <3>1. t # o /\ t # s
        BY <2>2
      <3>2. ~ row.live
        BY <2>2, <3>1
      <3>3. row \in AccessRows
        BY <3>1 DEF AccessRows
      <3> QED BY <2>2, <3>2, <3>3
    <2> QED BY <2>1, <2>2
  <1>2. FreshAccess(o, s)[t] = row
    BY DEF FreshAccess
  <1> HIDE DEF row
  <1> QED BY <1>1, <1>2

\* They are all the access there is to the report.
LEMMA FreshGives ==
  ASSUME access \in [Reports -> [Staff -> AccessRows]],
         NEW p \in Reports, NEW o \in Staff, NEW s \in Staff,
         access' = [access EXCEPT ![p] = FreshAccess(o, s)]
  PROVE  access' \in [Reports -> [Staff -> AccessRows]] /\ GivesAccess(p, o, s)
  <1>1. FreshAccess(o, s) \in [Staff -> AccessRows]
    BY FreshRow DEF FreshAccess
  <1> QED BY <1>1, FreshRow DEF GivesAccess

\* transfer_report_ownership hands access to the new pair, and to nobody else.
LEMMA TransferKeepsPeople ==
  ASSUME TypeOK, People, NEW c \in Commands, NEW p \in Reports, NEW n \in Nat,
         Transfer(c, p, n)
  PROVE  People' /\ access' \in [Reports -> [Staff -> AccessRows]]
  <1> DEFINE to == command[c].to
             prep == IF command[c].prep = Nobody THEN report[p].preparer ELSE command[c].prep
  <1>0. /\ active \subseteq Staff /\ report \in [Reports -> Rows]
        /\ access \in [Reports -> [Staff -> AccessRows]]
    BY DEF TypeOK
  <1>1. /\ {to, prep} \subseteq active /\ OwnerFree(p, to) /\ Regrant(p, to, prep)
        /\ report' = [report EXCEPT ![p].current = n, ![p].owner = to, ![p].preparer = prep]
    BY DEF Transfer
  <1> HIDE DEF to, prep
  <1>2. /\ report'[p].owner = to /\ report'[p].preparer = prep
        /\ \A q \in Reports \ {p} : report'[q] = report[q]
    BY <1>0, <1>1 DEF Rows
  <1>3. to \in Staff /\ prep \in Staff
    BY <1>0, <1>1
  <1>4. access' \in [Reports -> [Staff -> AccessRows]] /\ GivesAccess(p, to, prep)
    BY <1>0, <1>1, <1>3, RegrantGives
  <1>5. People'
    BY <1>1, <1>2, <1>4, NewPair
  <1> QED BY <1>4, <1>5

\* _new_report_shell gives an officer a first report of the type.
LEMMA CreateKeepsPeople ==
  ASSUME TypeOK, People, NEW p \in Reports, NEW o \in Staff, NEW s \in Staff,
         NEW t \in Texts, CreateReport(p, o, s, t)
  PROVE  People' /\ access' \in [Reports -> [Staff -> AccessRows]]
  <1>1. /\ report'[p].owner = o /\ report'[p].preparer = s
        /\ \A q \in Reports \ {p} : report'[q] = report[q]
    BY DEF CreateReport, TypeOK
  <1>2. OwnerFree(p, o)
    BY DEF CreateReport
  <1>3. access' \in [Reports -> [Staff -> AccessRows]] /\ GivesAccess(p, o, s)
    <2>1. /\ access \in [Reports -> [Staff -> AccessRows]]
          /\ access' = [access EXCEPT ![p] = FreshAccess(o, s)]
      BY DEF CreateReport, TypeOK
    <2> QED BY <2>1, FreshGives
  <1>4. People'
    BY <1>1, <1>2, <1>3, NewPair
  <1> QED BY <1>3, <1>4

-----------------------------------------------------------------------------
\* The tables, as TypeOK has them.
Tables == report \in [Reports -> Rows] /\ revisions \in [Reports -> SUBSET Revision]

\* Commands are about reports that exist.
CommandsBorn ==
    \A c \in Commands : command[c] # NoCommand =>
        command[c].report \in Reports /\ report[command[c].report].current >= 1

\* What an operation of command c writes into p.
Writes(c, p, v) ==
    /\ Appends(p, v) /\ v.cmd = c
    /\ v.reason \in Checked <=> command[c].op \in {"save", "status"}
    /\ v.reason \in Checked => v.base = command[c].base /\ v.n > v.base

\* A command has the fields its operation reads.
LEMMA CommandFields ==
  ASSUME TypeOK, NEW c \in Commands
  PROVE  /\ command[c].op = "save" => command[c].base \in Nat /\ command[c].text \in Texts
         /\ command[c].op = "recover" => command[c].base \in Nat /\ command[c].text \in Texts
         /\ command[c].op = "status" => command[c].base \in Nat /\ command[c].status \in Statuses
  <1>1. command[c] \in Saves \cup Recoveries \cup Changes \cup Restores \cup Transfers
                       \cup {NoCommand}
    BY DEF TypeOK
  <1>2. CASE command[c] \in Saves
    BY <1>2 DEF Saves
  <1>3. CASE command[c] \in Recoveries
    BY <1>3 DEF Recoveries
  <1>4. CASE command[c] \in Changes
    BY <1>4 DEF Changes
  <1>5. CASE command[c] \in Restores
    BY <1>5 DEF Restores
  <1>6. CASE command[c] \in Transfers
    BY <1>6 DEF Transfers
  <1>7. CASE command[c] = NoCommand
    BY <1>7 DEF NoCommand
  <1> QED BY <1>1, <1>2, <1>3, <1>4, <1>5, <1>6, <1>7

\* The number an operation takes is new.
LEMMA NextNumber ==
  ASSUME NEW p \in Reports, NEW n, IsNext(p, n)
  PROVE  \A w \in revisions[p] : w.n < n
  BY DEF IsNext

\* Promoting the next revision appends it, and leaves owners alone.
LEMMA PromoteGives ==
  ASSUME Tables, NEW p \in Reports, NEW v \in Revision, NEW s \in Statuses,
         IsNext(p, v.n), v.n >= 1, report[p].current >= 1, Promote(p, v, s),
         v.reason # "recovery", v.reason \in Checked => v.base = report[p].current
  PROVE  /\ Appends(p, v) /\ Tables'
         /\ \A q \in Reports : /\ report'[q].owner = report[q].owner
                               /\ report'[q].preparer = report[q].preparer
                               /\ report'[q] # Unborn => report[q] # Unborn
  <1>1. report' = [report EXCEPT ![p].current = v.n, ![p].text = v.text, ![p].status = s]
    BY DEF Promote
  <1>2. revisions' = [revisions EXCEPT ![p] = @ \cup {v}]
    BY DEF Promote
  <1>3. v.n \in Nat /\ v.text \in Texts /\ report[p] \in Rows
    BY DEF Tables, Revision
  <1>4. /\ report'[p].current = v.n /\ report'[p].text = v.text
        /\ report'[p].owner = report[p].owner /\ report'[p].preparer = report[p].preparer
        /\ \A q \in Reports \ {p} : report'[q] = report[q]
    BY <1>1, <1>3 DEF Tables, Rows
  <1>5. report' \in [Reports -> Rows]
    BY <1>1, <1>3 DEF Tables, Rows
  <1>6. revisions' \in [Reports -> SUBSET Revision]
    BY <1>2 DEF Tables
  <1>7. report[p] # Unborn
    BY DEF Unborn
  <1>8. Appends(p, v)
    BY <1>2, <1>4, NextNumber DEF Appends
  <1> QED BY <1>4, <1>5, <1>6, <1>7, <1>8 DEF Tables

\* What a command that runs does to its report, by operation.
LEMMA OperationWrites ==
  ASSUME TypeOK, History, People, NEW c \in Commands, NEW p \in Reports,
         report[p].current >= 1, NEW n \in 1..MaxRevision, IsNext(p, n),
         \/ Save(c, p, n) \/ SaveStatus(c, p, n) \/ Restore(c, p, n)
         \/ Recover(c, p, n) \/ Transfer(c, p, n)
  PROVE  /\ \E v : Writes(c, p, v) /\ v.n = n
         /\ Tables' /\ People' /\ access' \in [Reports -> [Staff -> AccessRows]]
  <1>1. Tables /\ access \in [Reports -> [Staff -> AccessRows]]
    BY DEF TypeOK, Tables
  <1>2. /\ report[p] \in Rows /\ report[p].current \in Nat /\ report[p].status \in Statuses
        /\ n \in Nat /\ n >= 1
    BY <1>1, RevisionsAssumption DEF Tables, Rows
  <1>3. report[p].text \in Texts /\ n > report[p].current
    <2>1. PICK w \in revisions[p] : w.n = report[p].current /\ w.text = report[p].text
      BY DEF History, CurrentIsARevision, Unborn
    <2> QED BY <1>1, <2>1, NextNumber DEF Tables, Revision
  <1>4. CASE Save(c, p, n)
    <2> DEFINE v == [n |-> n, base |-> command[c].base, text |-> command[c].text,
                     reason |-> IF command[c].admin THEN "admin_edit" ELSE "manual_save",
                     cmd |-> c]
    <2>1. /\ command[c].op = "save" /\ command[c].base = report[p].current
          /\ Promote(p, v, report[p].status) /\ UNCHANGED access
      BY <1>4 DEF Save, Moved
    <2>2. /\ v \in Revision /\ v.n = n /\ v.base = report[p].current /\ v.cmd = c
          /\ v.reason # "recovery" /\ v.reason \in Checked
      BY <1>2, <2>1, CommandFields DEF Revision, Reasons, Checked
    <2> HIDE DEF v
    <2> QED BY <1>1, <1>2, <1>3, <2>1, <2>2, PromoteGives, SameOwners DEF Writes
  <1>5. CASE SaveStatus(c, p, n)
    <2> DEFINE v == [n |-> n, base |-> command[c].base, text |-> report[p].text,
                     reason |-> "status_change", cmd |-> c]
    <2>1. /\ command[c].op = "status" /\ command[c].base = report[p].current
          /\ Promote(p, v, command[c].status) /\ UNCHANGED access
      BY <1>5 DEF SaveStatus, Moved
    <2>2. /\ v \in Revision /\ v.n = n /\ v.base = report[p].current /\ v.cmd = c
          /\ v.reason # "recovery" /\ v.reason \in Checked
      BY <1>2, <1>3, <2>1, CommandFields DEF Revision, Reasons, Checked
    <2>3. command[c].status \in Statuses
      BY <2>1, CommandFields
    <2> HIDE DEF v
    <2> QED BY <1>1, <1>2, <1>3, <2>1, <2>2, <2>3, PromoteGives, SameOwners DEF Writes
  <1>6. CASE Restore(c, p, n)
    <2>1. command[c].op = "restore" /\ UNCHANGED access
      BY <1>6 DEF Restore
    <2>2. PICK s \in revisions[p] :
            Promote(p, [n |-> n, base |-> s.n, text |-> s.text,
                        reason |-> "restored", cmd |-> c], report[p].status)
      BY <1>6 DEF Restore
    <2> DEFINE v == [n |-> n, base |-> s.n, text |-> s.text,
                     reason |-> "restored", cmd |-> c]
    <2>3. /\ v \in Revision /\ v.n = n /\ v.cmd = c
          /\ v.reason # "recovery" /\ v.reason \notin Checked
      BY <1>1, <1>2 DEF Tables, Revision, Reasons, Checked
    <2>4. Promote(p, v, report[p].status)
      BY <2>2
    <2> HIDE DEF v
    <2> QED BY <1>1, <1>2, <1>3, <2>1, <2>3, <2>4, PromoteGives, SameOwners DEF Writes
  <1>7. CASE Recover(c, p, n)
    <2> DEFINE v == [n |-> n, base |-> command[c].base, text |-> command[c].text,
                     reason |-> "recovery", cmd |-> c]
    <2>1. command[c].op = "recover" /\ Append(p, v) /\ UNCHANGED access
      BY <1>7 DEF Recover
    <2>2. /\ v \in Revision /\ v.n = n /\ v.cmd = c
          /\ v.reason = "recovery" /\ v.reason \notin Checked
      BY <1>2, <2>1, CommandFields DEF Revision, Reasons, Checked
    <2> HIDE DEF v
    <2>3. revisions' = [revisions EXCEPT ![p] = @ \cup {v}] /\ UNCHANGED <<report, access>>
      BY <2>1 DEF Append
    <2>4. Appends(p, v) /\ Tables'
      BY <1>1, <1>2, <2>2, <2>3, NextNumber DEF Appends, Tables
    <2>5. People'
      BY <2>3, SameOwners
    <2> QED BY <1>1, <2>1, <2>2, <2>3, <2>4, <2>5 DEF Writes
  <1>8. CASE Transfer(c, p, n)
    <2> DEFINE v == [n |-> n, base |-> report[p].current, text |-> report[p].text,
                     reason |-> "ownership_change", cmd |-> c]
               to == command[c].to
               prep == IF command[c].prep = Nobody THEN report[p].preparer
                       ELSE command[c].prep
    <2>1. /\ command[c].op = "transfer" /\ {to, prep} \subseteq active
          /\ revisions' = [revisions EXCEPT ![p] = @ \cup {v}]
          /\ report' = [report EXCEPT ![p].current = n, ![p].owner = to, ![p].preparer = prep]
      BY <1>8 DEF Transfer
    <2>2. /\ v \in Revision /\ v.n = n /\ v.text = report[p].text /\ v.cmd = c
          /\ v.reason # "recovery" /\ v.reason \notin Checked
      BY <1>2, <1>3 DEF Revision, Reasons, Checked
    <2> HIDE DEF v, to, prep
    <2>3. to \in Staff /\ prep \in Staff
      BY <2>1 DEF TypeOK
    <2>4. /\ report'[p].current = n /\ report'[p].text = report[p].text
          /\ \A q \in Reports \ {p} : report'[q] = report[q]
          /\ report' \in [Reports -> Rows]
      BY <1>1, <1>2, <2>1, <2>3 DEF Tables, Rows
    <2>5. Appends(p, v)
      BY <1>2, <2>1, <2>2, <2>4, NextNumber DEF Appends
    <2>6. Tables'
      BY <1>1, <2>1, <2>2, <2>4 DEF Tables
    <2>7. People' /\ access' \in [Reports -> [Staff -> AccessRows]]
      BY <1>2, <1>8, TransferKeepsPeople
    <2> QED BY <2>1, <2>2, <2>5, <2>6, <2>7 DEF Writes
  <1> QED BY <1>4, <1>5, <1>6, <1>7, <1>8

-----------------------------------------------------------------------------
\* A revision of a command says what the command asked for, and the command
\* has a live record or has had one.
Marks ==
    \A q \in Reports : \A v \in revisions[q] : v.cmd # Nobody =>
        /\ command[v.cmd] # NoCommand /\ command[v.cmd].report = q
        /\ done[v.cmd] # 0 \/ expired[v.cmd]
        /\ v.reason \in Checked <=> command[v.cmd].op \in {"save", "status"}
        /\ v.reason \in Checked => v.base = command[v.cmd].base /\ v.n > v.base

\* Until its record expires, a command has one revision.
OnceWhileKept ==
    \A q \in Reports : \A v, w \in revisions[q] :
        v.cmd # Nobody /\ v.cmd = w.cmd /\ v # w => expired[v.cmd]

CommandsKept == CommandsBorn /\ Marks /\ OnceWhileKept /\ ConflictMeansNotWritten

IInv == TypeOK /\ History /\ People /\ CommandsKept

\* Appending keeps existing reports in existence.
LEMMA AppendsGives ==
  ASSUME TypeOK, NEW p \in Reports, NEW v, Appends(p, v)
  PROVE  /\ v.n \in Nat /\ v.cmd \in Commands \cup {Nobody}
         /\ revisions'[p] = revisions[p] \cup {v}
         /\ \A q \in Reports \ {p} : revisions'[q] = revisions[q]
         /\ \A q \in Reports : report[q].current >= 1 => report'[q].current >= 1
  BY DEF Appends, TypeOK, Revision

\* A revision without a command changes nothing about the commands.
LEMMA OwnRevisionKeepsCommands ==
  ASSUME TypeOK, CommandsKept, NEW p \in Reports, NEW v, Appends(p, v),
         v.cmd = Nobody, UNCHANGED <<command, done, expired, answer>>
  PROVE  CommandsKept'
  <1> USE AppendsGives, RevisionsAssumption DEF CommandsKept
  <1>1. CommandsBorn'
    BY DEF CommandsBorn
  <1>2. Marks'
    BY DEF Marks
  <1>3. OnceWhileKept'
    BY DEF OnceWhileKept
  <1>4. ConflictMeansNotWritten'
    BY DEF ConflictMeansNotWritten
  <1> QED BY <1>1, <1>2, <1>3, <1>4

\* claim_idempotency and complete_idempotency around an operation: a command
\* that still has a record does not run, and one that ran has a record.
LEMMA RunKeepsCommands ==
  ASSUME TypeOK, CommandsKept, NEW c \in Commands, command[c] # NoCommand,
         done[c] = 0, NEW v, Writes(c, command[c].report, v),
         done' = [done EXCEPT ![c] = v.n], answer' = [answer EXCEPT ![c] = "done"],
         UNCHANGED <<command, expired>>
  PROVE  CommandsKept'
  <1> DEFINE p == command[c].report
  <1> USE RevisionsAssumption DEF CommandsKept
  <1>1. p \in Reports /\ Appends(p, v) /\ v.cmd = c /\ v.n >= 1 /\ c # Nobody
    BY DEF CommandsBorn, Writes, Appends
  <1>2. /\ v.n \in Nat
        /\ revisions'[p] = revisions[p] \cup {v}
        /\ \A q \in Reports \ {p} : revisions'[q] = revisions[q]
        /\ \A q \in Reports : report[q].current >= 1 => report'[q].current >= 1
    BY <1>1, AppendsGives
  <1>3. /\ done'[c] # 0 /\ answer'[c] = "done"
        /\ \A d \in Commands \ {c} : done'[d] = done[d] /\ answer'[d] = answer[d]
    BY <1>1, <1>2 DEF TypeOK
  <1>4. \A q \in Reports : \A w \in revisions[q] : w.cmd \in Commands \cup {Nobody}
    BY DEF TypeOK, Revision
  <1>5. CommandsBorn'
    BY <1>2 DEF CommandsBorn
  <1>6. Marks'
    <2>1. ASSUME NEW q \in Reports, NEW w \in revisions'[q], w.cmd # Nobody
          PROVE  /\ command[w.cmd] # NoCommand /\ command[w.cmd].report = q
                 /\ done'[w.cmd] # 0 \/ expired[w.cmd]
                 /\ w.reason \in Checked <=> command[w.cmd].op \in {"save", "status"}
                 /\ w.reason \in Checked => w.base = command[w.cmd].base /\ w.n > w.base
      <3>1. CASE w \in revisions[q]
        <4>1. w.cmd \in Commands
          BY <1>4, <2>1, <3>1
        <4>2. done[w.cmd] # 0 => done'[w.cmd] # 0
          BY <1>3, <4>1
        <4> QED BY <2>1, <3>1, <4>2 DEF Marks
      <3>2. CASE w \notin revisions[q]
        <4>1. q = p /\ w = v
          BY <1>2, <2>1, <3>2
        <4> QED BY <1>1, <1>3, <4>1 DEF Writes
      <3> QED BY <3>1, <3>2
    <2> QED BY <2>1 DEF Marks
  <1>7. OnceWhileKept'
    BY <1>1, <1>2, <1>4 DEF OnceWhileKept, Marks
  <1>8. ConflictMeansNotWritten'
    BY <1>1, <1>2, <1>3 DEF ConflictMeansNotWritten
  <1> QED BY <1>5, <1>6, <1>7, <1>8

-----------------------------------------------------------------------------
\* Reports begin with one revision, and nobody has sent a command.
LEMMA InitIInv == Init => IInv
  <1> SUFFICES ASSUME Init PROVE IInv
    OBVIOUS
  <1> USE RevisionsAssumption
  <1>1. PICK t \in Texts :
          /\ report = [p \in Reports |->
               IF FirstOwner[p] = Nobody THEN Unborn
               ELSE [current |-> 1, text |-> t, status |-> "in_progress",
                     owner |-> FirstOwner[p], preparer |-> Preparer]]
          /\ revisions = [p \in Reports |->
               IF FirstOwner[p] = Nobody THEN {} ELSE {FirstRevision(t)}]
          /\ access = [p \in Reports |->
               IF FirstOwner[p] = Nobody THEN NoAccess
               ELSE FreshAccess(FirstOwner[p], Preparer)]
    BY DEF Init
  <1>2. /\ active = Staff /\ command = [c \in Commands |-> NoCommand]
        /\ done = [c \in Commands |-> 0] /\ expired = [c \in Commands |-> FALSE]
        /\ answer = [c \in Commands |-> "none"]
    BY DEF Init
  <1>3. FirstRevision(t) \in Revision /\ FirstRevision(t).cmd = Nobody
    BY DEF FirstRevision, Revision, Reasons
  <1>4. ASSUME NEW p \in Reports, FirstOwner[p] # Nobody, NEW u \in Staff
        PROVE  /\ access[p][u] \in AccessRows
               /\ access[p][u].live <=> u \in {FirstOwner[p], Preparer}
               /\ access[p][u].live => access[p][u].rel =
                    IF u = FirstOwner[p] THEN "owner" ELSE "preparer"
    <2>1. access[p] = FreshAccess(FirstOwner[p], Preparer)
      BY <1>1, <1>4
    <2> QED BY <2>1, FreshRow
  <1>5. TypeOK
    <2>1. report \in [Reports -> Rows]
      BY <1>1 DEF Unborn, Rows, Statuses
    <2>2. revisions \in [Reports -> SUBSET Revision]
      BY <1>1, <1>3
    <2>3. access \in [Reports -> [Staff -> AccessRows]]
      <3>1. ASSUME NEW p \in Reports PROVE access[p] \in [Staff -> AccessRows]
        <4>1. CASE FirstOwner[p] = Nobody
          BY <1>1, <4>1 DEF NoAccess, AccessRows
        <4>2. CASE FirstOwner[p] # Nobody
          <5>1. access[p] = FreshAccess(FirstOwner[p], Preparer)
            BY <1>1, <4>2
          <5> QED BY <1>4, <4>2, <5>1 DEF FreshAccess
        <4> QED BY <4>1, <4>2
      <3> QED BY <1>1, <3>1
    <2> QED BY <1>2, <2>1, <2>2, <2>3 DEF TypeOK, NoCommand, Answers
  <1>6. History
    <2>1. OneRevisionPerNumber /\ NothingOverwritten
      BY <1>1 DEF OneRevisionPerNumber, NothingOverwritten
    <2>2. ASSUME NEW p \in Reports, FirstOwner[p] # Nobody
          PROVE  /\ revisions[p] = {FirstRevision(t)}
                 /\ report[p].current = 1 /\ report[p].text = t
      BY <1>1, <2>2
    <2>3. ASSUME NEW p \in Reports, FirstOwner[p] = Nobody
          PROVE  report[p] = Unborn /\ revisions[p] = {}
      BY <1>1, <2>3
    <2>4. /\ FirstRevision(t).n = 1 /\ FirstRevision(t).text = t
          /\ FirstRevision(t).reason # "recovery"
      BY DEF FirstRevision
    <2>5. CurrentIsARevision /\ NotBeyond /\ Born
      BY <2>2, <2>3, <2>4 DEF CurrentIsARevision, NotBeyond, Born
    <2> QED BY <2>1, <2>5 DEF History
  <1>7. AccessFollowsOwnership
    <2> SUFFICES ASSUME NEW p \in Reports, report[p] # Unborn, NEW u \in Staff
                 PROVE  /\ access[p][u].live <=> u \in {report[p].owner, report[p].preparer}
                        /\ access[p][u].live => access[p][u].rel =
                             IF u = report[p].owner THEN "owner" ELSE "preparer"
      BY DEF AccessFollowsOwnership, Live
    <2>1. /\ FirstOwner[p] # Nobody
          /\ report[p].owner = FirstOwner[p] /\ report[p].preparer = Preparer
      BY <1>1
    <2> QED BY <1>4, <2>1
  <1>8. OneReportPerOwner
    BY <1>1 DEF OneReportPerOwner, Unborn
  <1>9. CommandsKept
    BY <1>1, <1>2, <1>3 DEF CommandsKept, CommandsBorn, Marks, OnceWhileKept,
                            ConflictMeansNotWritten
  <1> QED BY <1>5, <1>6, <1>7, <1>8, <1>9 DEF IInv, People

\* A command that runs appends one revision and completes its record.
LEMMA RunKeeps ==
  ASSUME IInv, NEW c \in Commands, Run(c)
  PROVE  IInv'
  <1> DEFINE p == command[c].report
  <1>1. command[c] # NoCommand /\ done[c] = 0
    BY DEF Run, Admitted, Fresh
  <1>2. p \in Reports /\ report[p].current >= 1
    BY <1>1 DEF IInv, CommandsKept, CommandsBorn
  <1>3. PICK n \in 1..MaxRevision :
          /\ IsNext(p, n)
          /\ \/ Save(c, p, n) \/ SaveStatus(c, p, n) \/ Restore(c, p, n)
             \/ Recover(c, p, n) \/ Transfer(c, p, n)
          /\ CompleteKey(c, n)
    BY DEF Run, EmployeeCommand, AdminCommand
  <1>4. answer' = [answer EXCEPT ![c] = "done"] /\ UNCHANGED <<active, command, expired>>
    BY DEF Run
  <1>5. /\ \E v : Writes(c, p, v) /\ v.n = n
        /\ Tables' /\ People' /\ access' \in [Reports -> [Staff -> AccessRows]]
    BY <1>2, <1>3, OperationWrites DEF IInv
  <1>6. PICK v : Writes(c, p, v) /\ v.n = n
    BY <1>5
  <1>7. done' = [done EXCEPT ![c] = v.n]
    BY <1>3, <1>6 DEF CompleteKey
  <1>8. History'
    BY <1>2, <1>6, AppendKeeps DEF IInv, Writes
  <1>9. CommandsKept'
    BY <1>1, <1>4, <1>6, <1>7, RunKeepsCommands DEF IInv
  <1>10. TypeOK'
    <2>1. done' \in [Commands -> Nat] /\ answer' \in [Commands -> Answers]
      BY <1>3, <1>4, <1>6, <1>7 DEF IInv, TypeOK, Answers
    <2>2. /\ active' \subseteq Staff /\ expired' \in [Commands -> BOOLEAN]
          /\ command' \in [Commands -> Saves \cup Recoveries \cup Changes \cup Restores
                                       \cup Transfers \cup {NoCommand}]
      BY <1>4 DEF IInv, TypeOK
    <2> QED BY <1>5, <2>1, <2>2 DEF TypeOK, Tables
  <1> QED BY <1>5, <1>8, <1>9, <1>10 DEF IInv

\* A step of the clients or the clock alone keeps what is said about reports.
LEMMA ReportsUnchanged ==
  ASSUME History, People, UNCHANGED <<report, revisions, access>>
  PROVE  History' /\ People'
  BY DEF History, OneRevisionPerNumber, NothingOverwritten, CurrentIsARevision,
         NotBeyond, Born, People, AccessFollowsOwnership, OneReportPerOwner, Live

\* A command that is issued asks about a report that exists, and has no mark yet.
LEMMA IssueKeeps ==
  ASSUME IInv, NEW c \in Commands, NEW p \in Reports, NEW m \in CommandsOf(p), Issue(c, m)
  PROVE  IInv'
  <1> USE RevisionsAssumption
  <1>1. m \in Saves \cup Recoveries \cup Changes \cup Restores \cup Transfers
    <2>1. \/ m \in [op : {"save"}, report : {p}, actor : Staff, admin : BOOLEAN,
                    base : 1..MaxRevision, text : Texts]
          \/ m \in [op : {"recover"}, report : {p}, actor : Staff, admin : BOOLEAN,
                    base : 1..MaxRevision, text : Texts]
          \/ m \in [op : {"status"}, report : {p}, actor : Staff, admin : BOOLEAN,
                    base : 1..MaxRevision, status : {"completed"}]
          \/ m \in [op : {"restore"}, report : {p}, actor : Staff, admin : BOOLEAN,
                    base : 1..MaxRevision]
          \/ m \in [op : {"transfer"}, report : {p}, actor : Staff, admin : BOOLEAN,
                    to : Staff, prep : Staff \cup {Nobody}]
      BY DEF CommandsOf
    <2>2. CASE m.op = "save"
      BY <2>1, <2>2 DEF Saves
    <2>3. CASE m.op = "recover"
      BY <2>1, <2>3 DEF Recoveries
    <2>4. CASE m.op = "status"
      BY <2>1, <2>4 DEF Changes, Statuses
    <2>5. CASE m.op = "restore"
      BY <2>1, <2>5 DEF Restores
    <2>6. CASE m.op = "transfer"
      BY <2>1, <2>6 DEF Transfers
    <2> QED BY <2>1, <2>2, <2>3, <2>4, <2>5, <2>6
  <1>2. m.report = p
    BY DEF CommandsOf
  <1>3. /\ command[c] = NoCommand /\ report[p].current > 0
        /\ command' = [command EXCEPT ![c] = m]
        /\ UNCHANGED <<report, revisions, access, active, done, expired, answer>>
    BY <1>2 DEF Issue
  <1>4. TypeOK'
    BY <1>1, <1>3 DEF IInv, TypeOK
  <1>5. /\ command'[c] = m
        /\ \A d \in Commands \ {c} : command'[d] = command[d]
    BY <1>3 DEF IInv, TypeOK
  <1>6. /\ \A q \in Reports : \A w \in revisions[q] : w.cmd \in Commands \cup {Nobody}
        /\ report[p].current \in Nat
    BY DEF IInv, TypeOK, Revision, Rows
  <1>7. CommandsBorn'
    BY <1>2, <1>3, <1>5, <1>6 DEF IInv, CommandsKept, CommandsBorn
  <1>8. Marks'
    BY <1>3, <1>5, <1>6 DEF IInv, CommandsKept, Marks
  <1>9. OnceWhileKept' /\ ConflictMeansNotWritten'
    BY <1>3 DEF IInv, CommandsKept, OnceWhileKept, ConflictMeansNotWritten
  <1> QED BY <1>3, <1>4, <1>7, <1>8, <1>9, ReportsUnchanged DEF IInv, CommandsKept

\* An answer other than "done": a conflict is reported only without a record.
LEMMA AnswerKeeps ==
  ASSUME IInv, NEW c \in Commands, Replay(c) \/ Refuse(c)
  PROVE  IInv'
  <1> USE RevisionsAssumption DEF IInv
  <1>1. UNCHANGED <<report, revisions, access, active, command, done, expired>>
    BY DEF Replay, Refuse
  <1>2. PICK a \in Answers :
          /\ answer' = [answer EXCEPT ![c] = a]
          /\ a = "revision_conflict" => done[c] = 0
    <2>1. CASE Replay(c)
      BY <2>1 DEF Replay, Answers
    <2>2. CASE Refuse(c)
      BY <2>2 DEF Refuse, Refusals, Answers, Fresh
    <2> QED BY <2>1, <2>2
  <1>3. TypeOK'
    BY <1>1, <1>2 DEF TypeOK
  <1>4. CommandsBorn' /\ Marks' /\ OnceWhileKept'
    BY <1>1 DEF CommandsKept, CommandsBorn, Marks, OnceWhileKept
  <1>5. ConflictMeansNotWritten'
    <2>1. /\ answer'[c] = a
          /\ \A d \in Commands \ {c} : answer'[d] = answer[d]
      BY <1>2 DEF TypeOK
    <2> QED BY <1>1, <1>2, <2>1 DEF CommandsKept, ConflictMeansNotWritten, Marks
  <1> QED BY <1>1, <1>3, <1>4, <1>5, ReportsUnchanged DEF CommandsKept

\* An expired record is remembered as such.
LEMMA ExpireKeeps ==
  ASSUME IInv, NEW c \in Commands, Expire(c)
  PROVE  IInv'
  <1> USE DEF IInv
  <1>1. /\ done' = [done EXCEPT ![c] = 0] /\ expired' = [expired EXCEPT ![c] = TRUE]
        /\ UNCHANGED <<report, revisions, access, active, command, answer>>
    BY DEF Expire
  <1>2. TypeOK'
    BY <1>1 DEF TypeOK
  <1>3. /\ expired'[c]
        /\ \A d \in Commands \ {c} : done'[d] = done[d] /\ expired'[d] = expired[d]
    BY <1>1 DEF TypeOK
  <1>4. \A q \in Reports : \A w \in revisions[q] : w.cmd \in Commands \cup {Nobody}
    BY DEF TypeOK, Revision
  <1>5. CommandsBorn' /\ Marks' /\ OnceWhileKept' /\ ConflictMeansNotWritten'
    BY <1>1, <1>3, <1>4
       DEF CommandsKept, CommandsBorn, Marks, OnceWhileKept, ConflictMeansNotWritten
  <1> QED BY <1>1, <1>2, <1>5, ReportsUnchanged DEF CommandsKept

\* A result saved into a report is a revision without a command.
LEMMA SaveResultKeeps ==
  ASSUME IInv, NEW p \in Reports, NEW t \in Texts, NEW n \in 1..MaxRevision,
         SaveResult(p, t, n)
  PROVE  IInv'
  <1> USE RevisionsAssumption DEF IInv
  <1> DEFINE v == [n |-> n, base |-> report[p].current, text |-> t,
                   reason |-> "ai_result", cmd |-> Nobody]
  <1>1. /\ report[p].current > 0 /\ IsNext(p, n) /\ Promote(p, v, report[p].status)
        /\ UNCHANGED <<access, active, command, done, expired, answer>>
    BY DEF SaveResult
  <1>2. Tables /\ report[p].current \in Nat /\ report[p].status \in Statuses
    BY DEF TypeOK, Tables, Rows
  <1>3. /\ v \in Revision /\ v.n = n /\ v.n >= 1 /\ v.base = report[p].current
        /\ v.cmd = Nobody /\ v.reason # "recovery"
    BY <1>2 DEF Revision, Reasons
  <1> HIDE DEF v
  <1>4. /\ Appends(p, v) /\ Tables'
        /\ \A q \in Reports : /\ report'[q].owner = report[q].owner
                              /\ report'[q].preparer = report[q].preparer
                              /\ report'[q] # Unborn => report[q] # Unborn
    BY <1>1, <1>2, <1>3, PromoteGives
  <1>5. TypeOK'
    BY <1>1, <1>4 DEF TypeOK, Tables
  <1>6. History'
    BY <1>4, AppendKeeps
  <1>7. People'
    BY <1>1, <1>4, SameOwners
  <1>8. CommandsKept'
    BY <1>1, <1>3, <1>4, OwnRevisionKeepsCommands
  <1> QED BY <1>5, <1>6, <1>7, <1>8

\* A report the worker creates begins with its first revision.
LEMMA CreateReportKeeps ==
  ASSUME IInv, NEW p \in Reports, NEW o \in Staff, NEW s \in Staff, NEW t \in Texts,
         CreateReport(p, o, s, t)
  PROVE  IInv'
  <1> USE RevisionsAssumption DEF IInv
  <1> DEFINE v == FirstRevision(t)
  <1>1. /\ report[p] = Unborn
        /\ report' = [report EXCEPT ![p] = [current |-> 1, text |-> t,
                       status |-> "in_progress", owner |-> o, preparer |-> s]]
        /\ revisions' = [revisions EXCEPT ![p] = {v}]
        /\ UNCHANGED <<active, command, done, expired, answer>>
    BY DEF CreateReport
  <1>2. /\ v \in Revision /\ v.n = 1 /\ v.base = 0 /\ v.text = t
        /\ v.cmd = Nobody /\ v.reason # "recovery"
    BY DEF FirstRevision, Revision, Reasons
  <1> HIDE DEF v
  <1>3. revisions[p] = {} /\ report[p].current = 0
    BY <1>1 DEF History, Born, Unborn
  <1>4. Tables'
    BY <1>1, <1>2 DEF TypeOK, Tables, Rows, Statuses
  <1>5. /\ report'[p].current = 1 /\ report'[p].text = t
        /\ \A q \in Reports \ {p} : report'[q] = report[q]
    BY <1>1 DEF TypeOK
  <1>6. revisions' = [revisions EXCEPT ![p] = @ \cup {v}]
    BY <1>1, <1>3 DEF TypeOK
  <1>7. Appends(p, v)
    BY <1>2, <1>3, <1>5, <1>6 DEF Appends
  <1>8. People' /\ access' \in [Reports -> [Staff -> AccessRows]]
    BY CreateKeepsPeople
  <1>9. TypeOK'
    BY <1>1, <1>4, <1>8 DEF TypeOK, Tables
  <1>10. History'
    BY <1>7, AppendKeeps
  <1>11. CommandsKept'
    BY <1>1, <1>2, <1>7, OwnRevisionKeepsCommands
  <1> QED BY <1>8, <1>9, <1>10, <1>11

\* Deactivating staff changes no report and no access row.
LEMMA SetActiveKeeps ==
  ASSUME IInv, NEW u \in Leavers, SetActive(u)
  PROVE  IInv'
  <1>1. UNCHANGED <<report, revisions, access, command, done, expired, answer>>
    BY DEF SetActive
  <1>2. active' \subseteq Staff
    BY RevisionsAssumption DEF IInv, TypeOK, SetActive
  <1>3. TypeOK'
    BY <1>1, <1>2 DEF IInv, TypeOK
  <1>4. CommandsKept'
    BY <1>1 DEF IInv, CommandsKept, CommandsBorn, Marks, OnceWhileKept,
                ConflictMeansNotWritten
  <1> QED BY <1>1, <1>3, <1>4, ReportsUnchanged DEF IInv

\* Every step keeps the inductive invariant.
LEMMA NextIInv == IInv /\ [Next]_vars => IInv'
  <1> SUFFICES ASSUME IInv, [Next]_vars PROVE IInv'
    OBVIOUS
  <1>1. CASE \E c \in Commands : Run(c)
    BY <1>1, RunKeeps
  <1>2. CASE \E c \in Commands : Replay(c) \/ Refuse(c)
    BY <1>2, AnswerKeeps
  <1>3. CASE \E c \in Commands : Expire(c)
    BY <1>3, ExpireKeeps
  <1>4. CASE \E c \in Commands, p \in Reports : \E m \in CommandsOf(p) : Issue(c, m)
    BY <1>4, IssueKeeps
  <1>5. CASE \E p \in Reports, t \in Texts, n \in 1..MaxRevision : SaveResult(p, t, n)
    BY <1>5, SaveResultKeeps
  <1>6. CASE \E p \in Reports, o, s \in Staff, t \in Texts : CreateReport(p, o, s, t)
    BY <1>6, CreateReportKeeps
  <1>7. CASE \E u \in Leavers : SetActive(u)
    BY <1>7, SetActiveKeeps
  <1>8. CASE UNCHANGED vars
    <2>1. UNCHANGED <<report, revisions, access, active, command, done, expired, answer>>
      BY <1>8 DEF vars
    <2>2. TypeOK' /\ CommandsKept'
      BY <2>1 DEF IInv, TypeOK, CommandsKept, CommandsBorn, Marks, OnceWhileKept,
                  ConflictMeansNotWritten
    <2> QED BY <2>1, <2>2, ReportsUnchanged DEF IInv
  <1> QED BY <1>1, <1>2, <1>3, <1>4, <1>5, <1>6, <1>7, <1>8 DEF Next

\* The invariant holds of every behaviour.
LEMMA AlwaysIInv == Spec => []IInv
  BY InitIInv, NextIInv, PTL DEF Spec

\* A base-checked command cannot have two revisions: the second would have
\* replaced something newer than its base, namely the first.
LEMMA IInvOnce == IInv => OncePerCommand
  <1> SUFFICES ASSUME IInv, NEW p \in Reports, NEW q \in Reports,
                      NEW v \in revisions[p], NEW w \in revisions[q],
                      v.cmd # Nobody, v.cmd = w.cmd, <<p, v>> # <<q, w>>
               PROVE  expired[v.cmd] /\ v.reason \notin Checked
    BY DEF OncePerCommand
  <1> USE DEF IInv, CommandsKept
  <1>1. p = q /\ v # w
    BY DEF Marks
  <1>2. expired[v.cmd]
    BY <1>1 DEF OnceWhileKept
  <1>3. ASSUME v.reason \in Checked PROVE FALSE
    <2>1. /\ w.reason \in Checked /\ v.base = w.base
          /\ v.n > v.base /\ w.n > w.base
      BY <1>3 DEF Marks
    <2>2. v.reason # "recovery" /\ w.reason # "recovery"
      BY <1>3, <2>1 DEF Checked
    <2>3. w.n > v.n /\ v.n > w.n
      BY <1>1, <1>3, <2>1, <2>2 DEF History, NothingOverwritten
    <2>4. v.n \in Nat /\ w.n \in Nat
      BY DEF TypeOK, Revision
    <2> QED BY <2>3, <2>4
  <1> QED BY <1>2, <1>3

-----------------------------------------------------------------------------
\* The tables keep the shapes of the schema.
THEOREM TypeCorrect == Spec => []TypeOK
  <1>1. IInv => TypeOK
    BY DEF IInv
  <1> QED BY <1>1, AlwaysIInv, PTL

\* One revision per number, recoveries included (_next_revision_number).
THEOREM RevisionsNumbered == Spec => []OneRevisionPerNumber
  <1>1. IInv => OneRevisionPerNumber
    BY DEF IInv, History
  <1> QED BY <1>1, AlwaysIInv, PTL

\* A save or status change replaces the revision its author saw (_check_base).
THEOREM SavesFollowTheirBase == Spec => []NothingOverwritten
  <1>1. IInv => NothingOverwritten
    BY DEF IInv, History
  <1> QED BY <1>1, AlwaysIInv, PTL

\* The row shows its current revision, never a recovery.
THEOREM ReportIsItsRevision == Spec => []CurrentIsARevision
  <1>1. IInv => CurrentIsARevision
    BY DEF IInv, History
  <1> QED BY <1>1, AlwaysIInv, PTL

\* Live access is the owner's and the preparer's, whatever the transfers.
THEOREM AccessIsOwnership == Spec => []AccessFollowsOwnership
  <1>1. IInv => AccessFollowsOwnership
    BY DEF IInv, People
  <1> QED BY <1>1, AlwaysIInv, PTL

\* An officer owns one report of the type.
THEOREM OwnersDiffer == Spec => []OneReportPerOwner
  <1>1. IInv => OneReportPerOwner
    BY DEF IInv, People
  <1> QED BY <1>1, AlwaysIInv, PTL

\* A repeated command takes effect once.
THEOREM CommandsTakeEffectOnce == Spec => []OncePerCommand
  BY IInvOnce, AlwaysIInv, PTL

\* A conflict answer says the command was not carried out.
THEOREM ConflictsAreTrue == Spec => []ConflictMeansNotWritten
  <1>1. IInv => ConflictMeansNotWritten
    BY DEF IInv, CommandsKept
  <1> QED BY <1>1, AlwaysIInv, PTL
=============================================================================
