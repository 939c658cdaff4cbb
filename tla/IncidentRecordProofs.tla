------------------------ MODULE IncidentRecordProofs ------------------------
(***************************************************************************)
(* Proofs about IncidentRecord for any number of incidents, requests and   *)
(* official numbers.                                                       *)
(*                                                                         *)
(* A request writes from an object it loaded before the lock.  What saves  *)
(* it is that revision numbers have no gap (NoGap): the number after a     *)
(* stale one is taken, and the unique constraint refuses it.  Whatever is  *)
(* promoted therefore follows the row as it is (Follows), and the          *)
(* properties of revisions are proved from that alone (PromoteKeeps).      *)
(***************************************************************************)
EXTENDS IncidentRecord, TLAPS

\* A revision number names one revision.
OnePerNumber ==
    \A i \in Incidents : \A v, w \in revisions[i] : v.n = w.n => v = w

\* The numbers in use are those up to the current one.
NoGap ==
    \A i \in Incidents :
        /\ \A v \in revisions[i] : v.n \in 1..row[i].current
        /\ \A n \in 1..row[i].current : \E v \in revisions[i] : v.n = n

\* The row a request loaded is an earlier one, or the one that is still there.
SeenBefore ==
    \A r \in Savers : pc[r] = "write" =>
        /\ op[r] \in Saves \cup Restores
        /\ op[r].at \in 1..seen[r].current
        /\ seen[r].current <= row[op[r].incident].current
        /\ seen[r].current = row[op[r].incident].current => seen[r] = row[op[r].incident]

Content == /\ OnePerNumber /\ NoGap /\ NothingOverwritten /\ RowIsLatestRevision
           /\ IdentityCarriedForward /\ NumbersUnique

\* A request is answered last.
AnsweredLast ==
    \A r \in Savers : answered[r] # "none" =>
        pc[r] = "done" /\ op[r].incident \in Incidents

Asked == SeenBefore /\ AnsweredLast /\ ConflictIsReal

IInv == TypeOK /\ Asked /\ Content

\* Revision v continues row i: next number, a number of its own or the row's,
\* and, unless it restores, based on the row and at least as well identified.
Follows(i, v) ==
    /\ v \in Revision
    /\ v.n = row[i].current + 1
    /\ NumberFree(i, v.number) \/ v.number = row[i].number
    /\ v.reason # "restored" =>
         /\ v.base = row[i].current
         /\ row[i].number # Unset => v.number # Unset

\* The step continues row i.
Continues(i) ==
    \E v \in Revision, status \in RecordsStatuses : Follows(i, v) /\ PromoteAs(i, v, status)

\* Both tables are empty and no request is at work.
LEMMA InitIInv == IncidentInit => IInv
  <1> SUFFICES ASSUME IncidentInit PROVE IInv
    OBVIOUS
  <1> USE IncidentAssumption DEF IncidentInit, Absent
  <1>1. TypeOK
    BY DEF TypeOK, Rows, Identity, NoCommand, Replies
  <1>2. Asked
    BY DEF Asked, SeenBefore, AnsweredLast, ConflictIsReal
  <1>3. OnePerNumber /\ NoGap /\ NothingOverwritten /\ IdentityCarriedForward
    BY DEF OnePerNumber, NoGap, NothingOverwritten, IdentityCarriedForward
  <1>4. RowIsLatestRevision /\ NumbersUnique
    BY DEF RowIsLatestRevision, NumbersUnique
  <1> QED BY <1>1, <1>2, <1>3, <1>4 DEF IInv, Content

\* What is promoted becomes the row and one more revision, of its incident only.
LEMMA PromoteFacts ==
  ASSUME TypeOK, NEW i \in Incidents, NEW v \in Revision,
         NEW status \in RecordsStatuses, PromoteAs(i, v, status)
  PROVE  /\ row' \in [Incidents -> Rows] /\ revisions' \in [Incidents -> SUBSET Revision]
         /\ row'[i] = [current |-> v.n, number |-> v.number, text |-> v.text,
                    status |-> status]
         /\ revisions'[i] = revisions[i] \cup {v}
         /\ \A j \in Incidents \ {i} : row'[j] = row[j] /\ revisions'[j] = revisions[j]
  BY DEF TypeOK, PromoteAs, Rows, Revision

\* Promoting a revision that follows the row keeps what is said about revisions.
LEMMA PromoteKeeps ==
  ASSUME TypeOK, Content, NEW i \in Incidents, NEW v, Follows(i, v),
         NEW status \in RecordsStatuses, PromoteAs(i, v, status)
  PROVE  Content'
  <1> USE DEF Content
  <1>1. v \in Revision /\ v.n \in Nat /\ v.number \in Identity
    BY DEF Follows, Revision
  <1>2. /\ row'[i].current = row[i].current + 1 /\ row'[i].number = v.number
        /\ row'[i].text = v.text
        /\ revisions'[i] = revisions[i] \cup {v}
        /\ \A j \in Incidents \ {i} : row'[j] = row[j] /\ revisions'[j] = revisions[j]
    <2>1. /\ row'[i] = [current |-> v.n, number |-> v.number, text |-> v.text,
                    status |-> status]
          /\ revisions'[i] = revisions[i] \cup {v}
          /\ \A j \in Incidents \ {i} : row'[j] = row[j] /\ revisions'[j] = revisions[j]
      BY <1>1, PromoteFacts
    <2> QED BY <2>1 DEF Follows
  <1>3. /\ row[i].current \in Nat /\ v.n = row[i].current + 1
        /\ \A w \in revisions[i] : w \in Revision /\ w.n \in Nat /\ w.base \in Nat
    BY DEF TypeOK, Rows, Revision, Follows
  <1>4. \A w \in revisions[i] : w.n \in 1..row[i].current /\ w.n < v.n
    BY <1>3 DEF NoGap
  <1>5. OnePerNumber'
    BY <1>2, <1>4, <1>3 DEF OnePerNumber
  <1>6. NoGap'
    <2>1. \A w \in revisions'[i] : w.n \in 1..row'[i].current
      BY <1>2, <1>3, <1>4
    <2>2. ASSUME NEW n \in 1..row'[i].current PROVE \E w \in revisions'[i] : w.n = n
      BY <1>2, <1>3 DEF NoGap
    <2> QED BY <1>2, <2>1, <2>2 DEF NoGap
  <1>7. NothingOverwritten'
    <2>1. ASSUME NEW x \in revisions'[i], NEW w \in revisions'[i],
                 x.reason # "restored", w # x, w.n > x.base
          PROVE  w.n > x.n
      <3>1. CASE x = v
        BY <1>2, <1>3, <1>4, <2>1, <3>1 DEF Follows
      <3>2. CASE x # v /\ w = v
        BY <1>2, <1>3, <1>4, <3>2
      <3>3. CASE x # v /\ w # v
        BY <1>2, <2>1, <3>3 DEF NothingOverwritten
      <3> QED BY <3>1, <3>2, <3>3
    <2> QED BY <1>2, <2>1 DEF NothingOverwritten
  <1>8. RowIsLatestRevision'
    <2>1. \A w \in revisions'[i] : w.n <= v.n
      BY <1>2, <1>3, <1>4
    <2> QED BY <1>2, <1>3, <2>1 DEF RowIsLatestRevision
  <1>9. IdentityCarriedForward'
    <2>1. ASSUME NEW x \in revisions'[i], NEW w \in revisions'[i],
                 x.n + 1 = w.n, w.reason # "restored", x.number # Unset
          PROVE  w.number # Unset
      <3>1. CASE w = v
        <4>1. x \in revisions[i] /\ x.n = row[i].current
          BY <1>2, <1>3, <2>1, <3>1
        <4>2. row[i] # Absent
          BY <4>1, <1>4, <1>3 DEF Absent
        <4>3. PICK y \in revisions[i] : y.n = row[i].current /\ y.number = row[i].number
          BY <4>2 DEF RowIsLatestRevision
        <4>4. x.number = row[i].number
          BY <4>1, <4>3 DEF OnePerNumber
        <4> QED BY <2>1, <3>1, <4>4 DEF Follows
      <3>2. CASE w # v
        <4>1. x # v
          BY <1>2, <1>3, <1>4, <2>1, <3>2
        <4> QED BY <1>2, <2>1, <3>2, <4>1 DEF IdentityCarriedForward
      <3> QED BY <3>1, <3>2
    <2> QED BY <1>2, <2>1 DEF IdentityCarriedForward
  <1>10. NumbersUnique'
    <2>1. \A j \in Incidents \ {i} : v.number # Unset => row[j].number # v.number
      BY DEF Follows, NumberFree, NumbersUnique
    <2> QED BY <1>2, <2>1 DEF NumbersUnique
  <1> QED BY <1>5, <1>6, <1>7, <1>8, <1>9, <1>10

\* So it keeps what the requests know about their incidents.
LEMMA PromoteKeepsSeen ==
  ASSUME TypeOK, SeenBefore, NEW i \in Incidents, NEW v, Follows(i, v),
         NEW status \in RecordsStatuses, PromoteAs(i, v, status),
         UNCHANGED <<op, seen>>, \A r \in Savers : pc'[r] = "write" => pc[r] = "write"
  PROVE  SeenBefore'
  <1>1. row'[i].current = row[i].current + 1 /\ row[i].current \in Nat
    <2>1. row'[i] = [current |-> v.n, number |-> v.number, text |-> v.text,
                    status |-> status]
      BY PromoteFacts DEF Follows
    <2> QED BY <2>1 DEF Follows, TypeOK, Rows
  <1>2. \A j \in Incidents \ {i} : row'[j] = row[j]
    BY PromoteFacts DEF Follows
  <1>3. \A r \in Savers : seen[r].current \in Nat
    BY DEF TypeOK, Rows
  <1>4. ASSUME NEW r \in Savers, pc[r] = "write" PROVE op[r].incident \in Incidents
    BY <1>4 DEF SeenBefore, Saves, Restores
  <1> QED BY <1>1, <1>2, <1>3, <1>4 DEF SeenBefore

\* create_incident: an incident without revisions has no number yet.
LEMMA CreateFollows ==
  ASSUME TypeOK, Content, NEW i \in Incidents, NEW number \in Identity,
         NEW text \in Texts, Create(i, number, text)
  PROVE  Continues(i)
  <1> DEFINE v == [n |-> 1, number |-> number, text |-> text, base |-> 0,
                   reason |-> "manual_save"]
  <1>1. v \in Revision
    BY DEF Revision, Reasons
  <1>2. row[i] = Absent
    BY DEF Create, Content, RowIsLatestRevision, NoGap
  <1>3. Follows(i, v)
    BY <1>1, <1>2 DEF Create, Follows, Absent
  <1>4. row[i].status \in RecordsStatuses
    BY DEF TypeOK, Rows
  <1>5. PromoteAs(i, v, row[i].status)
    BY DEF Create, Promote
  <1> HIDE DEF v
  <1> QED BY <1>1, <1>3, <1>4, <1>5 DEF Continues

\* save_incident for a job: base and number are read under the lock.
LEMMA ResultFollows ==
  ASSUME TypeOK, NEW i \in Incidents, NEW text \in Texts, NEW base \in 1..MaxRevision,
         SaveResult(i, base, text)
  PROVE  Continues(i)
  <1> DEFINE v == [n |-> row[i].current + 1, text |-> text, base |-> base,
                   number |-> CarryForward(row[i].number, Unset),
                   reason |-> "ai_result"]
  <1>1. row[i].current \in Nat /\ row[i].number \in Identity
    BY DEF TypeOK, Rows
  <1>2. v.number = row[i].number
    BY DEF CarryForward
  <1>3. v \in Revision
    BY <1>1, <1>2, IncidentAssumption DEF Revision, Reasons
  <1>4. Follows(i, v)
    BY <1>2, <1>3 DEF SaveResult, Follows
  <1>5. row[i].status \in RecordsStatuses
    BY DEF TypeOK, Rows
  <1>6. PromoteAs(i, v, row[i].status)
    BY DEF SaveResult, Promote
  <1> HIDE DEF v
  <1> QED BY <1>3, <1>4, <1>5, <1>6 DEF Continues

\* save_incident_record and restore_incident_record: a write that the unique
\* constraint lets through saw the row as it still is.
LEMMA WriteFollows ==
  ASSUME TypeOK, SeenBefore, NoGap, NEW r \in Savers, WriteRevision(r)
  PROVE  Continues(op[r].incident)
  <1> DEFINE c == op[r]
             i == c.incident
  <1>1. pc[r] = "write" /\ ~Moved(r) /\ c \in Saves \cup Restores
    BY DEF WriteRevision, SeenBefore
  <1>2. i \in Incidents /\ c.at \in Nat
    BY <1>1 DEF Saves, Restores
  <1>3. PICK v \in Proposals(r) :
            RevisionFree(i, v.n) /\ NumberFree(i, v.number) /\ Promote(i, v)
    BY DEF WriteRevision
  <1>4. row[i].current \in Nat /\ seen[r].current \in Nat /\ seen[r].number \in Identity
    BY <1>2 DEF TypeOK, Rows
  <1>5. v.n = seen[r].current + 1
    BY <1>3 DEF Proposals, NextSeen
  <1>6. seen[r].current = row[i].current /\ seen[r] = row[i]
    <2>1. seen[r].current + 1 \notin 1..row[i].current
      BY <1>2, <1>3, <1>5 DEF NoGap, RevisionFree
    <2>2. seen[r].current <= row[i].current
      BY <1>1 DEF SeenBefore
    <2>3. seen[r].current = row[i].current
      BY <1>4, <2>1, <2>2
    <2> QED BY <1>1, <2>3 DEF SeenBefore
  <1>7. Follows(i, v)
    <2>1. CASE c.kind = "save"
      <3>1. c \in Saves /\ c.number \in Identity /\ c.text \in Texts
        BY <1>1, <2>1 DEF Saves, Restores
      <3>2. v = [n |-> NextSeen(r), number |-> CarryForward(seen[r].number, c.number),
                 text |-> c.text, base |-> c.at, reason |-> "manual_save"]
        BY <1>3, <2>1 DEF Proposals
      <3>3. v \in Revision
        BY <1>2, <1>4, <3>1, <3>2 DEF Revision, Reasons, NextSeen, CarryForward
      <3>4. c.at = row[i].current
        BY <1>1, <1>6, <2>1 DEF Moved
      <3>5. row[i].number # Unset => v.number # Unset
        BY <1>6, <3>2 DEF CarryForward
      <3> QED BY <1>3, <1>5, <1>6, <3>2, <3>3, <3>4, <3>5 DEF Follows
    <2>2. CASE c.kind # "save"
      <3>1. PICK s \in revisions[i] :
                v = [n |-> NextSeen(r), number |-> s.number, text |-> s.text,
                     base |-> c.at, reason |-> "restored"]
        BY <1>3, <2>2 DEF Proposals
      <3>2. s \in Revision
        BY <1>2 DEF TypeOK
      <3>3. v \in Revision
        BY <1>2, <1>4, <3>1, <3>2 DEF Revision, Reasons, NextSeen
      <3> QED BY <1>3, <1>5, <1>6, <3>1, <3>3 DEF Follows
    <2> QED BY <2>1, <2>2
  <1>8. row[i].status \in RecordsStatuses
    BY <1>2 DEF TypeOK, Rows
  <1>9. v \in Revision /\ PromoteAs(i, v, row[i].status)
    BY <1>3, <1>7 DEF Follows, Promote
  <1> QED BY <1>2, <1>7, <1>8, <1>9 DEF Continues

\* _change_records_status: the current revision has what the row has.
LEMMA StatusFollows ==
  ASSUME TypeOK, Content, NEW i \in Incidents, NEW base \in 1..MaxRevision,
         NEW status \in RecordsStatuses, ChangeStatus(i, base, status)
  PROVE  Continues(i)
  <1>1. PICK s \in revisions[i] :
            /\ s.n = row[i].current
            /\ PromoteAs(i, [n |-> s.n + 1, number |-> s.number, text |-> s.text,
                             base |-> base, reason |-> "status_change"], status)
    BY DEF ChangeStatus
  <1> DEFINE v == [n |-> s.n + 1, number |-> s.number, text |-> s.text,
                   base |-> base, reason |-> "status_change"]
  <1>2. s \in Revision /\ row[i].current \in Nat
    BY DEF TypeOK, Rows
  <1>3. row[i] # Absent
    BY <1>2 DEF ChangeStatus, Absent
  <1>4. PICK x \in revisions[i] : x.n = row[i].current /\ x.number = row[i].number
    BY <1>3 DEF Content, RowIsLatestRevision
  <1>5. s.number = row[i].number
    BY <1>1, <1>4 DEF Content, OnePerNumber
  <1>6. v \in Revision
    BY <1>2 DEF Revision, Reasons
  <1>7. Follows(i, v)
    BY <1>1, <1>5, <1>6 DEF Follows, ChangeStatus
  <1>8. PromoteAs(i, v, status)
    BY <1>1
  <1> HIDE DEF v
  <1> QED BY <1>6, <1>7, <1>8 DEF Continues

\* A step that promotes nothing keeps what is said about rows and revisions.
LEMMA QuietContent == Content /\ UNCHANGED <<row, revisions>> => Content'
  BY DEF Content, OnePerNumber, NoGap, NothingOverwritten, RowIsLatestRevision,
         IdentityCarriedForward, NumbersUnique

\* Rows, revisions and requests stay well typed when a revision is promoted.
LEMMA PromoteTyped ==
  ASSUME TypeOK, NEW i \in Incidents, NEW v, Follows(i, v),
         NEW status \in RecordsStatuses, PromoteAs(i, v, status)
  PROVE  row' \in [Incidents -> Rows] /\ revisions' \in [Incidents -> SUBSET Revision]
  BY PromoteFacts DEF Follows

\* Revisions are never taken away.
LEMMA PromoteGrows ==
  ASSUME TypeOK, NEW i \in Incidents, NEW v, Follows(i, v),
         NEW status \in RecordsStatuses, PromoteAs(i, v, status)
  PROVE  \A j \in Incidents : revisions[j] \subseteq revisions'[j]
  BY PromoteFacts DEF Follows

\* An answered request no longer writes.
LEMMA AnswerTyped ==
  ASSUME TypeOK, NEW r \in Savers, NEW a \in Replies, AnswerSave(r, a)
  PROVE  /\ pc' \in [Savers -> {"idle", "write", "done"}]
         /\ answered' \in [Savers -> Replies]
         /\ \A s \in Savers : pc'[s] = "write" => pc[s] = "write"
  BY DEF TypeOK, AnswerSave

\* Revisions stay, so a conflict that was real stays real.
LEMMA ConflictsStay ==
  ASSUME Asked, UNCHANGED <<op, seen, answered>>,
         \A r \in Savers : pc[r] = "done" => pc'[r] = "done",
         \A i \in Incidents : revisions[i] \subseteq revisions'[i]
  PROVE  AnsweredLast' /\ ConflictIsReal'
  BY DEF Asked, AnsweredLast, ConflictIsReal

\* The same for a step that answers r, if that answer is right.
LEMMA AnswerStays ==
  ASSUME TypeOK, Asked, NEW r \in Savers, NEW a \in Replies, AnswerSave(r, a),
         UNCHANGED <<op, seen>>, op[r].incident \in Incidents,
         \A i \in Incidents : revisions[i] \subseteq revisions'[i],
         a = "revision_conflict" /\ op[r].kind # "admin restore" =>
            \E v \in revisions[op[r].incident] :
                v.n > seen[r].current \/ (op[r].kind = "save" /\ v.n > op[r].at)
  PROVE  AnsweredLast' /\ ConflictIsReal'
  <1>1. /\ pc'[r] = "done" /\ answered'[r] = a
        /\ \A s \in Savers \ {r} : pc'[s] = pc[s] /\ answered'[s] = answered[s]
    BY DEF AnswerSave, TypeOK
  <1>2. AnsweredLast'
    BY <1>1 DEF Asked, AnsweredLast
  <1>3. ConflictIsReal'
    BY <1>1 DEF Asked, AnsweredLast, ConflictIsReal
  <1> QED BY <1>2, <1>3

\* RefuseStale answers a conflict only when there is one: numbers have no gap.
LEMMA StaleIsReal ==
  ASSUME TypeOK, SeenBefore, NoGap, NEW r \in Savers, RefuseStale(r)
  PROVE  \E v \in revisions[op[r].incident] :
            v.n > seen[r].current \/ (op[r].kind = "save" /\ v.n > op[r].at)
  <1> DEFINE i == op[r].incident
  <1>1. /\ op[r] \in Saves \cup Restores /\ op[r].at \in 1..seen[r].current
        /\ seen[r].current <= row[i].current
    BY DEF RefuseStale, SeenBefore
  <1>2. i \in Incidents /\ op[r].at \in Nat
    BY <1>1 DEF Saves, Restores
  <1>3. seen[r].current \in Nat /\ row[i].current \in Nat
    BY <1>2 DEF TypeOK, Rows
  <1>4. CASE Moved(r)
    <2>1. PICK v \in revisions[i] : v.n = seen[r].current
      BY <1>1, <1>2, <1>3 DEF NoGap
    <2> QED BY <1>1, <1>2, <1>3, <1>4, <2>1 DEF Moved
  <1>5. CASE ~RevisionFree(i, NextSeen(r))
    BY <1>3, <1>5 DEF RevisionFree, NextSeen
  <1> QED BY <1>4, <1>5 DEF RefuseStale

\* Every step of a request, the worker or a new incident keeps the invariant.
LEMMA NextIInv == IInv /\ [IncidentNext]_incidentVars => IInv'
  <1> SUFFICES ASSUME IInv, [IncidentNext]_incidentVars PROVE IInv'
    OBVIOUS
  <1> USE DEF IInv, Asked
  <1>1. ASSUME NEW i \in Incidents, NEW number \in Identity, NEW text \in Texts,
               Create(i, number, text)
        PROVE  IInv'
    <2>1. PICK v \in Revision, status \in RecordsStatuses : Follows(i, v) /\ PromoteAs(i, v, status)
      BY <1>1, CreateFollows DEF Continues
    <2>2. UNCHANGED <<pc, op, seen, answered>>
      BY <1>1 DEF Create
    <2>3. Content' /\ SeenBefore'
      BY <2>1, <2>2, PromoteKeeps, PromoteKeepsSeen
    <2>4. AnsweredLast' /\ ConflictIsReal'
      BY <2>1, <2>2, PromoteGrows, ConflictsStay
    <2> QED BY <2>1, <2>2, <2>3, <2>4, PromoteTyped DEF TypeOK
  <1>2. ASSUME NEW i \in Incidents, NEW text \in Texts, NEW base \in 1..MaxRevision,
               SaveResult(i, base, text)
        PROVE  IInv'
    <2>1. PICK v \in Revision, status \in RecordsStatuses : Follows(i, v) /\ PromoteAs(i, v, status)
      BY <1>2, ResultFollows DEF Continues
    <2>2. UNCHANGED <<pc, op, seen, answered>>
      BY <1>2 DEF SaveResult
    <2>3. Content' /\ SeenBefore'
      BY <2>1, <2>2, PromoteKeeps, PromoteKeepsSeen
    <2>4. AnsweredLast' /\ ConflictIsReal'
      BY <2>1, <2>2, PromoteGrows, ConflictsStay
    <2> QED BY <2>1, <2>2, <2>3, <2>4, PromoteTyped DEF TypeOK
  <1>8. ASSUME NEW i \in Incidents, NEW base \in 1..MaxRevision,
               NEW status \in RecordsStatuses, ChangeStatus(i, base, status)
        PROVE  IInv'
    <2>1. PICK v \in Revision, st \in RecordsStatuses : Follows(i, v) /\ PromoteAs(i, v, st)
      BY <1>8, StatusFollows DEF Continues
    <2>2. UNCHANGED <<pc, op, seen, answered>>
      BY <1>8 DEF ChangeStatus
    <2>3. Content' /\ SeenBefore'
      BY <2>1, <2>2, PromoteKeeps, PromoteKeepsSeen
    <2>4. AnsweredLast' /\ ConflictIsReal'
      BY <2>1, <2>2, PromoteGrows, ConflictsStay
    <2> QED BY <2>1, <2>2, <2>3, <2>4, PromoteTyped DEF TypeOK
  <1>3. ASSUME NEW r \in Savers, WriteRevision(r) PROVE IInv'
    <2>1. PICK v \in Revision, status \in RecordsStatuses :
                Follows(op[r].incident, v) /\ PromoteAs(op[r].incident, v, status)
      BY <1>3, WriteFollows DEF Content, Continues
    <2>2. op[r].incident \in Incidents
      BY <1>3 DEF WriteRevision, SeenBefore, Saves, Restores
    <2>3. UNCHANGED <<op, seen>> /\ AnswerSave(r, "saved")
      BY <1>3 DEF WriteRevision
    <2>4. /\ pc' \in [Savers -> {"idle", "write", "done"}]
          /\ answered' \in [Savers -> Replies]
          /\ \A s \in Savers : pc'[s] = "write" => pc[s] = "write"
      BY <2>3, AnswerTyped DEF Replies
    <2>5. Content' /\ SeenBefore'
      BY <2>1, <2>2, <2>3, <2>4, PromoteKeeps, PromoteKeepsSeen
    <2>6. AnsweredLast' /\ ConflictIsReal'
      BY <2>1, <2>2, <2>3, PromoteGrows, AnswerStays DEF Replies
    <2> QED BY <2>1, <2>2, <2>3, <2>4, <2>5, <2>6, PromoteTyped DEF TypeOK
  <1>4. ASSUME NEW r \in Savers, RefuseStale(r) \/ RefuseNumber(r) PROVE IInv'
    <2>1. UNCHANGED <<row, revisions, op, seen>>
      BY <1>4 DEF RefuseStale, RefuseNumber
    <2>2. PICK a \in Replies : AnswerSave(r, a)
      BY <1>4 DEF RefuseStale, RefuseNumber, Replies
    <2>3. /\ pc' \in [Savers -> {"idle", "write", "done"}]
          /\ answered' \in [Savers -> Replies]
          /\ \A s \in Savers : pc'[s] = "write" => pc[s] = "write"
      BY <2>2, AnswerTyped
    <2>4. SeenBefore'
      BY <2>1, <2>3 DEF SeenBefore
    <2>5. op[r].incident \in Incidents
      BY <1>4 DEF RefuseStale, RefuseNumber, SeenBefore, Saves, Restores
    <2>6. a = "revision_conflict" /\ op[r].kind # "admin restore" => RefuseStale(r)
      BY <1>4, <2>2 DEF RefuseNumber, AnswerSave, TypeOK
    <2>7. AnsweredLast' /\ ConflictIsReal'
      BY <2>1, <2>2, <2>5, <2>6, StaleIsReal, AnswerStays DEF Content
    <2> QED BY <2>1, <2>3, <2>4, <2>7, QuietContent DEF TypeOK
  <1>5. ASSUME NEW r \in Savers, NEW c \in Saves \cup Restores, Load(r, c) PROVE IInv'
    <2>1. c.incident \in Incidents
      BY DEF Saves, Restores
    <2>2. TypeOK'
      BY <1>5, <2>1 DEF Load, TypeOK
    <2>3. SeenBefore'
      BY <1>5, <2>1 DEF Load, SeenBefore, TypeOK, Rows
    <2>4. AnsweredLast' /\ ConflictIsReal'
      BY <1>5 DEF Load, TypeOK, AnsweredLast, ConflictIsReal
    <2> QED BY <1>5, <2>2, <2>3, <2>4, QuietContent DEF Load
  <1>6. CASE UNCHANGED incidentVars
    <2>1. TypeOK' /\ SeenBefore'
      BY <1>6 DEF incidentVars, TypeOK, SeenBefore
    <2>2. AnsweredLast' /\ ConflictIsReal'
      BY <1>6, ConflictsStay DEF incidentVars
    <2> QED BY <1>6, <2>1, <2>2, QuietContent DEF incidentVars
  <1>7. ASSUME NEW r \in Savers, NEW i \in Incidents, NEW at \in 1..MaxRevision
        PROVE  /\ \A kind \in {"restore", "admin restore"} :
                    [kind |-> kind, incident |-> i, at |-> at] \in Restores
               /\ \A number \in Identity, text \in Texts :
                    [kind |-> "save", incident |-> i, at |-> at,
                     number |-> number, text |-> text] \in Saves
    BY IncidentAssumption DEF Saves, Restores
  <1> QED BY <1>1, <1>2, <1>3, <1>4, <1>5, <1>6, <1>7, <1>8 DEF IncidentNext, Step

\* IInv is an invariant.
LEMMA Invariant == IncidentSpec => []IInv
  BY InitIInv, NextIInv, PTL DEF IncidentSpec

\* Rows, revisions and requests keep the shapes of the schema.
THEOREM TypeCorrect == IncidentSpec => []TypeOK
  <1>1. IInv => TypeOK
    BY DEF IInv
  <1> QED BY <1>1, Invariant, PTL

\* No save, AI result or change of status replaces a revision its base did not include,
\* although save_incident_record compares the base with an object it loaded
\* before the lock.
THEOREM SavesFollowTheirBase == IncidentSpec => []NothingOverwritten
  <1>1. IInv => NothingOverwritten
    BY DEF IInv, Content
  <1> QED BY <1>1, Invariant, PTL

\* The row of an incident is its latest revision, number included.
THEOREM RowsAreLatest == IncidentSpec => []RowIsLatestRevision
  <1>1. IInv => RowIsLatestRevision
    BY DEF IInv, Content
  <1> QED BY <1>1, Invariant, PTL

\* A save or AI result that leaves out the number keeps the one it follows
\* (carry_forward_identity), whatever it loaded.
THEOREM IdentityKept == IncidentSpec => []IdentityCarriedForward
  <1>1. IInv => IdentityCarriedForward
    BY DEF IInv, Content
  <1> QED BY <1>1, Invariant, PTL

\* An officer is told of a conflict only when somebody else wrote in between.
THEOREM ConflictsAreReal == IncidentSpec => []ConflictIsReal
  <1>1. IInv => ConflictIsReal
    BY DEF IInv, Asked
  <1> QED BY <1>1, Invariant, PTL

\* Official numbers are unique, through restores too.
THEOREM NumbersAreUnique == IncidentSpec => []NumbersUnique
  <1>1. IInv => NumbersUnique
    BY DEF IInv, Content
  <1> QED BY <1>1, Invariant, PTL
=============================================================================
