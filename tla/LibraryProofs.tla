---------------------------- MODULE LibraryProofs ----------------------------
(***************************************************************************)
(* Proofs about the parts of the system that MCLibrary puts side by side   *)
(* and that share no state: Packets, RosterStore, Operations, Exports,     *)
(* ReportGeneration, Listings and PolicySearch, each for any values of its *)
(* constants that its assumption allows.                                   *)
(***************************************************************************)
EXTENDS Packets, RosterStore, Operations, Exports, ReportGeneration,
        Listings, PolicySearch, SequenceTheorems, FiniteSetTheorems, TLAPS

-----------------------------------------------------------------------------
(* Packets: any forms, requirements, requests and number of revisions.      *)
(*                                                                         *)
(* What a row says of a form is judged by the plan of the revision that    *)
(* the row names, and a plan never changes once its revision exists        *)
(* (PlansStay).  So it does not matter that a rebuild may finish for an    *)
(* older revision than the one before it: the row names that revision too. *)

Rows == [group : Groups, state : States, source : 1 .. CurrentRevision]
Copies == [source : 0 .. CurrentRevision, answer : FactAnswers,
           manual : BOOLEAN, done : BOOLEAN]
Calls == [kind : {"none", "build", "add", "act"}, at : 0 .. CurrentRevision,
          form : Forms \cup {NoForm}]

FactsOK == facts \in Seq([answer : FactAnswers, reviewed : BOOLEAN]) /\ CurrentRevision >= 1
ReportOK == report \in 0 .. CurrentRevision
ItemsOK == item \in [Forms -> {NoItem} \cup Rows]
InstancesOK == instance \in [Forms -> Copies]
CallsOK ==
    /\ asked \in [PacketCalls -> Calls]
    /\ \A c \in PacketCalls : asked[c].kind # "none" => asked[c].at >= 1
    /\ \A c \in PacketCalls : asked[c].kind = "add" => asked[c].form \in Forms

TypeInv ==
    /\ FactsOK /\ ReportOK /\ ItemsOK /\ InstancesOK /\ CallsOK
    /\ ack \subseteq Physical

IInv == TypeInv /\ RequiredIsAnswered

-----------------------------------------------------------------------------
(* Rows and plans                                                          *)

LEMMA NewRow ==
  ASSUME NEW g \in Groups, NEW s \in States, NEW n \in 1 .. CurrentRevision
  PROVE  [group |-> g, state |-> s, source |-> n] \in Rows
  BY DEF Rows

\* NoItem is no row of the table.
LEMMA NoItemIsApart ==
    /\ NoItem \notin Rows
    /\ NoItem.group = "none" /\ NoItem.state = "none"
  BY DEF NoItem, Rows, Groups

\* _merge_plan knows two groups and their absence.
LEMMA PlanGroups ==
  ASSUME NEW n, NEW f \in Forms
  PROVE  Plan(n)[f] \in {"required", "recommended", "none"}
  BY DEF Plan

\* The plan of a revision is that of its facts, for good.
LEMMA PlansStay ==
  ASSUME FactsOK, NEW row, facts' = Append(facts, row), NEW n \in 1 .. CurrentRevision
  PROVE  Plan(n)' = Plan(n)
  <1>1. facts'[n] = facts[n]
    BY DEF FactsOK, CurrentRevision
  <1> QED BY <1>1 DEF Plan, GroupFor

\* Nothing that leaves facts and items alone touches what is answered.
LEMMA AnsweredUntouched ==
  ASSUME RequiredIsAnswered, UNCHANGED <<facts, item>>
  PROVE  RequiredIsAnswered'
  BY DEF RequiredIsAnswered, Plan, GroupFor

-----------------------------------------------------------------------------
(* The row that build_incident_packet leaves for a form                    *)

Kept(f, n) ==
    IF Plan(n)[f] = "none"
    THEN IF item[f] = NoItem \/ item[f].group = "additional"
         THEN item[f] ELSE Dropped(item[f], n)
    ELSE IF item[f] = NoItem
         THEN [group |-> Plan(n)[f], state |-> "selected", source |-> n]
         ELSE Updated(item[f], Plan(n)[f], n)

LEMMA DroppedRow ==
  ASSUME NEW row \in Rows, NEW n \in 1 .. CurrentRevision
  PROVE  /\ Dropped(row, n) \in Rows
         /\ Dropped(row, n).state = "removed" /\ Dropped(row, n).source = n
  BY DEF Dropped, Rows, States

LEMMA UpdatedRow ==
  ASSUME NEW row \in Rows, NEW g \in {"required", "recommended"},
         NEW n \in 1 .. CurrentRevision
  PROVE  /\ Updated(row, g, n) \in Rows
         /\ Updated(row, g, n).group = g /\ Updated(row, g, n).source = n
         /\ g = "required" => Updated(row, g, n).state # "removed"
         /\ g = "recommended" => Updated(row, g, n).state # "not_applicable"
  BY DEF Updated, Rows, Groups, States

\* A form the answer's group does not excuse is not set aside.
Excused(row, f) ==
    /\ row.state = "not_applicable" => row.group = "required"
    /\ row.group = "required" /\ row.state = "removed" => Plan(row.source)[f] = "none"

LEMMA KeptRow ==
  ASSUME IInv, NEW f \in Forms, NEW n \in 1 .. CurrentRevision
  PROVE  Kept(f, n) \in {NoItem} \cup Rows /\ Excused(Kept(f, n), f)
  <1>1. item[f] \in {NoItem} \cup Rows /\ Excused(item[f], f)
    BY DEF IInv, TypeInv, ItemsOK, RequiredIsAnswered, Excused
  <1>2. CASE Plan(n)[f] = "none"
    <2>1. CASE item[f] = NoItem \/ item[f].group = "additional"
      BY <1>1, <1>2, <2>1 DEF Kept
    <2>2. CASE ~(item[f] = NoItem \/ item[f].group = "additional")
      <3>1. Kept(f, n) = Dropped(item[f], n) /\ item[f] \in Rows
        BY <1>1, <1>2, <2>2 DEF Kept
      <3> QED BY <1>2, <3>1, DroppedRow DEF Excused
    <2> QED BY <2>1, <2>2
  <1>3. CASE Plan(n)[f] # "none"
    <2>1. Plan(n)[f] \in {"required", "recommended"}
      BY <1>3, PlanGroups
    <2>2. CASE item[f] = NoItem
      <3> DEFINE new == [group |-> Plan(n)[f], state |-> "selected", source |-> n]
      <3>1. Kept(f, n) = new
        BY <1>3, <2>2 DEF Kept
      <3>2. new \in Rows
        BY <2>1, NewRow DEF Groups, States
      <3>3. new.state = "selected"
        OBVIOUS
      <3> HIDE DEF new
      <3> QED BY <3>1, <3>2, <3>3 DEF Excused
    <2>3. CASE item[f] # NoItem
      <3>1. Kept(f, n) = Updated(item[f], Plan(n)[f], n) /\ item[f] \in Rows
        BY <1>1, <1>3, <2>3 DEF Kept
      <3> QED BY <2>1, <3>1, UpdatedRow DEF Excused
    <2> QED BY <2>2, <2>3
  <1> QED BY <1>2, <1>3

-----------------------------------------------------------------------------
(* The steps                                                               *)

LEMMA InitIInv == PacketsInit => IInv
  <1> SUFFICES ASSUME PacketsInit PROVE IInv
    OBVIOUS
  <1>1. FactsOK /\ CurrentRevision = 1
    <2>1. PICK a \in FactAnswers : facts = <<[answer |-> a, reviewed |-> TRUE]>>
      BY DEF PacketsInit
    <2> DEFINE row == [answer |-> a, reviewed |-> TRUE]
    <2>2. \A b \in BOOLEAN : [answer |-> a, reviewed |-> b] \in
                                [answer : FactAnswers, reviewed : BOOLEAN]
      OBVIOUS
    <2>3. row \in [answer : FactAnswers, reviewed : BOOLEAN]
      BY <2>2
    <2>4. facts = <<row>>
      BY <2>1
    <2> HIDE DEF row
    <2> QED BY <2>3, <2>4 DEF FactsOK, CurrentRevision
  <1>2. ReportOK
    BY <1>1 DEF PacketsInit, ReportOK
  <1>3. ItemsOK
    BY DEF PacketsInit, ItemsOK
  <1>4. InstancesOK
    <2>1. \A m, d \in BOOLEAN :
             [source |-> 0, answer |-> "open", manual |-> m, done |-> d] \in Copies
      BY <1>1 DEF Copies, FactAnswers
    <2>2. NoInstance \in Copies
      BY <2>1 DEF NoInstance
    <2> QED BY <2>2 DEF PacketsInit, InstancesOK
  <1>5. CallsOK
    <2>1. NoCall \in Calls /\ NoCall.kind = "none"
      BY <1>1 DEF NoCall, Calls
    <2>2. \A c \in PacketCalls : asked[c] = NoCall
      BY DEF PacketsInit
    <2> QED BY <2>1, <2>2 DEF PacketsInit, CallsOK
  <1>6. RequiredIsAnswered
    BY NoItemIsApart DEF PacketsInit, RequiredIsAnswered
  <1> QED BY <1>1, <1>2, <1>3, <1>4, <1>5, <1>6 DEF PacketsInit, IInv, TypeInv

LEMMA ReviseKeeps ==
  ASSUME IInv, NEW a \in FactAnswers, NEW b \in BOOLEAN, Revise(a, b)
  PROVE  IInv'
  <1> DEFINE row == [answer |-> a, reviewed |-> b]
  <1>1. row \in [answer : FactAnswers, reviewed : BOOLEAN]
    OBVIOUS
  <1>2. facts' = Append(facts, row)
    BY DEF Revise
  <1> HIDE DEF row
  <1>3. FactsOK' /\ CurrentRevision \in Nat /\ CurrentRevision' = CurrentRevision + 1
    BY <1>1, <1>2 DEF IInv, TypeInv, FactsOK, CurrentRevision
  <1>4. Rows \subseteq Rows' /\ Copies \subseteq Copies' /\ Calls \subseteq Calls'
    BY <1>3 DEF Rows, Copies, Calls
  <1>5. TypeInv'
    BY <1>3, <1>4
    DEF Revise, IInv, TypeInv, ReportOK, ItemsOK, InstancesOK, CallsOK
  <1>6. RequiredIsAnswered'
    <2> SUFFICES ASSUME NEW f \in Forms PROVE Excused(item[f], f)'
      BY DEF RequiredIsAnswered, Excused
    <2>1. Excused(item[f], f) /\ item' = item
      BY DEF Revise, IInv, RequiredIsAnswered, Excused
    <2>2. CASE item[f] = NoItem
      BY <2>1, <2>2, NoItemIsApart DEF Excused
    <2>3. CASE item[f] \in Rows
      <3>1. Plan(item[f].source)' = Plan(item[f].source)'
        OBVIOUS
      <3>2. item[f].source \in 1 .. CurrentRevision
        BY <2>3 DEF Rows
      <3>3. \A n \in 1 .. CurrentRevision : Plan(n)' = Plan(n)
        BY <1>2, PlansStay DEF IInv, TypeInv
      <3> QED BY <2>1, <3>2, <3>3 DEF Excused
    <2> QED BY <2>2, <2>3 DEF IInv, TypeInv, ItemsOK
  <1> QED BY <1>5, <1>6 DEF IInv

LEMMA ReportSavedKeeps ==
  ASSUME IInv, ReportSaved
  PROVE  IInv'
  <1>1. TypeInv'
    BY
       DEF ReportSaved, IInv, TypeInv, FactsOK, ReportOK, ItemsOK, InstancesOK,
           CallsOK,
           CurrentRevision, Rows, Copies, Calls
  <1> QED BY <1>1, AnsweredUntouched DEF ReportSaved, IInv

\* A step that changes only the requests and leaves them well formed.
LEMMA CallsOnly ==
  ASSUME IInv, CallsOK', UNCHANGED <<facts, report, item, instance, ack>>
  PROVE  IInv'
  <1>1. TypeInv'
    BY
       DEF IInv, TypeInv, FactsOK, ReportOK, ItemsOK, InstancesOK,
           CurrentRevision, Rows, Copies
  <1> QED BY <1>1, AnsweredUntouched DEF IInv

LEMMA BeginPacketKeeps ==
  ASSUME IInv, NEW c \in PacketCalls, NEW k \in {"build", "add", "act"},
         NEW f \in Forms \cup {NoForm}, BeginPacket(c, k, f),
         k = "add" => f \in Forms
  PROVE  IInv'
  <1> DEFINE new == [kind |-> k, at |-> CurrentRevision, form |-> f]
  <1>1. new \in Calls /\ new.at >= 1 /\ (new.kind = "add" => new.form \in Forms)
    BY DEF BeginPacket, IInv, TypeInv, FactsOK, CurrentRevision, Calls
  <1>2. asked' = [asked EXCEPT ![c] = new] /\ CurrentRevision' = CurrentRevision
    BY DEF BeginPacket, CurrentRevision
  <1> HIDE DEF new
  <1>3. CallsOK'
    BY <1>1, <1>2 DEF IInv, TypeInv, CallsOK, Calls
  <1> QED BY <1>3, CallsOnly DEF BeginPacket

LEMMA Ending ==
  ASSUME IInv, NEW c \in PacketCalls, EndPacketCall(c), UNCHANGED facts
  PROVE  CallsOK'
  <1>1. NoCall \in Calls /\ NoCall.kind = "none"
    BY DEF IInv, TypeInv, FactsOK, CurrentRevision, NoCall, Calls
  <1>2. asked' = [asked EXCEPT ![c] = NoCall]
    BY DEF EndPacketCall
  <1>3. Calls' = Calls
    BY DEF Calls, CurrentRevision
  <1> QED BY <1>1, <1>2, <1>3 DEF IInv, TypeInv, CallsOK

LEMMA RefusePacketKeeps ==
  ASSUME IInv, NEW c \in PacketCalls, RefusePacket(c)
  PROVE  IInv'
  BY Ending, CallsOnly DEF RefusePacket

LEMMA RecordActionKeeps ==
  ASSUME IInv, NEW c \in PacketCalls, RecordAction(c)
  PROVE  IInv'
  BY Ending, CallsOnly DEF RecordAction

\* A step that writes rows, each of which is excused.
LEMMA ItemsOnly ==
  ASSUME IInv, CallsOK', UNCHANGED <<facts, report, instance, ack>>,
         item' = [f \in Forms |-> item'[f]],
         \A f \in Forms : item'[f] \in {NoItem} \cup Rows /\ Excused(item'[f], f)
  PROVE  IInv'
  <1>1. Rows' = Rows
    BY DEF Rows, CurrentRevision
  <1>2. TypeInv'
    BY <1>1
       DEF IInv, TypeInv, FactsOK, ReportOK, ItemsOK, InstancesOK,
           CurrentRevision, Copies
  <1>3. RequiredIsAnswered'
    <2>1. \A n : Plan(n)' = Plan(n)
      BY DEF Plan, GroupFor
    <2> QED BY <2>1 DEF RequiredIsAnswered, Excused
  <1> QED BY <1>2, <1>3 DEF IInv

LEMMA BuildKeeps ==
  ASSUME IInv, NEW c \in PacketCalls, Build(c)
  PROVE  IInv'
  <1> DEFINE n == asked[c].at
  <1>1. n \in 1 .. CurrentRevision
    BY DEF Build, IInv, TypeInv, FactsOK, CallsOK, Calls, CurrentRevision
  <1>2. item' = [f \in Forms |-> Kept(f, n)]
    BY DEF Build, Kept
  <1>3. CallsOK'
    BY Ending DEF Build
  <1> HIDE DEF n
  <1>4. \A f \in Forms : item'[f] \in {NoItem} \cup Rows /\ Excused(item'[f], f)
    BY <1>1, <1>2, KeptRow
  <1> QED BY <1>2, <1>3, <1>4, ItemsOnly DEF Build

\* One row is replaced by one that is excused.
LEMMA OneItem ==
  ASSUME IInv, CallsOK', UNCHANGED <<facts, report, instance, ack>>,
         NEW f \in Forms, NEW row \in Rows, Excused(row, f),
         item' = [item EXCEPT ![f] = row]
  PROVE  IInv'
  <1>1. \A g \in Forms : item[g] \in {NoItem} \cup Rows /\ Excused(item[g], g)
    BY DEF IInv, TypeInv, ItemsOK, RequiredIsAnswered, Excused
  <1>2. \A g \in Forms : item'[g] = IF g = f THEN row ELSE item[g]
    BY DEF IInv, TypeInv, ItemsOK
  <1>3. item' = [g \in Forms |-> item'[g]]
    BY DEF IInv, TypeInv, ItemsOK
  <1> QED BY <1>1, <1>2, <1>3, ItemsOnly

LEMMA AddFormKeeps ==
  ASSUME IInv, NEW c \in PacketCalls, AddForm(c)
  PROVE  IInv'
  <1> DEFINE f == asked[c].form
             g == IF item[f] = NoItem THEN "additional" ELSE item[f].group
             row == [group |-> g, state |-> "selected", source |-> asked[c].at]
  <1>1. asked[c].at \in 1 .. CurrentRevision /\ f \in Forms
    BY DEF AddForm, IInv, TypeInv, FactsOK, CallsOK, Calls, CurrentRevision
  <1>2. CallsOK'
    BY Ending DEF AddForm
  <1>3. CASE item[f].group = "required"
    BY <1>2, <1>3, CallsOnly DEF AddForm
  <1>4. CASE item[f].group # "required"
    <2>1. g \in Groups
      BY <1>1 DEF IInv, TypeInv, ItemsOK, Rows, Groups
    <2>2. row \in Rows
      BY <1>1, <2>1, NewRow DEF States
    <2>3. row.state = "selected"
      OBVIOUS
    <2>4. item' = [item EXCEPT ![f] = row]
      BY <1>4 DEF AddForm
    <2>5. UNCHANGED <<facts, report, instance, ack>>
      BY DEF AddForm
    <2> HIDE DEF row, f
    <2>6. Excused(row, f)
      BY <2>3 DEF Excused
    <2> QED BY <1>1, <1>2, <2>2, <2>4, <2>5, <2>6, OneItem
  <1> QED BY <1>3, <1>4

\* Writing the state of a row.
LEMMA SetState ==
  ASSUME NEW row \in Rows, NEW st \in States
  PROVE  /\ [row EXCEPT !.state = st] \in Rows
         /\ [row EXCEPT !.state = st].state = st
         /\ [row EXCEPT !.state = st].group = row.group
  BY DEF Rows

LEMMA CallsStay ==
  ASSUME IInv, UNCHANGED <<facts, asked>>
  PROVE  CallsOK'
  BY DEF IInv, TypeInv, CallsOK, Calls, CurrentRevision

LEMMA RemoveFormKeeps ==
  ASSUME IInv, NEW f \in Forms, RemoveForm(f)
  PROVE  IInv'
  <1> DEFINE row == [item[f] EXCEPT !.state = "removed"]
  <1>1. item[f] \in Rows
    BY NoItemIsApart DEF RemoveForm, IInv, TypeInv, ItemsOK
  <1>2. row \in Rows /\ row.state = "removed" /\ row.group = "recommended"
    BY <1>1, SetState DEF RemoveForm, States
  <1>3. item' = [item EXCEPT ![f] = row]
    BY DEF RemoveForm
  <1> HIDE DEF row
  <1>4. Excused(row, f)
    BY <1>2 DEF Excused
  <1> QED BY <1>2, <1>3, <1>4, CallsStay, OneItem DEF RemoveForm

LEMMA MarkNotApplicableKeeps ==
  ASSUME IInv, NEW f \in Forms, MarkNotApplicable(f)
  PROVE  IInv'
  <1> DEFINE row == [item[f] EXCEPT !.state = "not_applicable"]
  <1>1. item[f] \in Rows
    BY NoItemIsApart DEF MarkNotApplicable, IInv, TypeInv, ItemsOK
  <1>2. row \in Rows /\ row.state = "not_applicable" /\ row.group = "required"
    BY <1>1, SetState DEF MarkNotApplicable, States
  <1>3. item' = [item EXCEPT ![f] = row]
    BY DEF MarkNotApplicable
  <1> HIDE DEF row
  <1>4. Excused(row, f)
    BY <1>2 DEF Excused
  <1> QED BY <1>2, <1>3, <1>4, CallsStay, OneItem DEF MarkNotApplicable

\* A step that changes only the filled forms or the acknowledgments.
LEMMA CopiesOnly ==
  ASSUME IInv, UNCHANGED <<facts, report, item, asked>>,
         instance' \in [Forms -> Copies], ack' \subseteq Physical
  PROVE  IInv'
  <1>1. Rows' = Rows /\ Copies' = Copies
    BY DEF Rows, Copies, CurrentRevision
  <1>2. TypeInv'
    BY <1>1, CallsStay
    DEF IInv, TypeInv, FactsOK, ReportOK, ItemsOK, InstancesOK, CurrentRevision
  <1> QED BY <1>2, AnsweredUntouched DEF IInv

LEMMA PopulateKeeps ==
  ASSUME IInv, NEW f \in Forms, Populate(f)
  PROVE  IInv'
  <1>1. item[f].source = CurrentRevision
    BY DEF Populate, UpToDate
  <1>2. facts[CurrentRevision].answer \in FactAnswers /\ CurrentRevision \in 0 .. CurrentRevision
    <2>1. CurrentRevision \in Nat /\ CurrentRevision >= 1
      BY DEF IInv, TypeInv, FactsOK, CurrentRevision
    <2> DEFINE S == [answer : FactAnswers, reviewed : BOOLEAN]
    <2>2. facts \in Seq(S) /\ CurrentRevision \in 1 .. Len(facts)
      BY <2>1 DEF IInv, TypeInv, FactsOK, CurrentRevision
    <2>3. \A x \in S : x.answer \in FactAnswers
      OBVIOUS
    <2> HIDE DEF S
    <2>4. facts[CurrentRevision] \in S
      BY <2>2, ElementOfSeq
    <2> QED BY <2>1, <2>3, <2>4
  <1>3. instance[f].manual \in BOOLEAN
    BY DEF IInv, TypeInv, InstancesOK, Copies
  <1> DEFINE n == item[f].source
             new == [source |-> n, answer |-> facts[n].answer, manual |-> instance[f].manual,
                     done |-> Complete(facts[n].answer, instance[f].manual)]
  <1>4. Complete(facts[n].answer, instance[f].manual) \in BOOLEAN
    BY <1>3 DEF Complete
  <1>5. new \in Copies
    BY <1>1, <1>2, <1>3, <1>4 DEF Copies
  <1>6. instance' = [instance EXCEPT ![f] = new]
    BY DEF Populate
  <1> HIDE DEF new
  <1>7. instance' \in [Forms -> Copies]
    BY <1>5, <1>6 DEF IInv, TypeInv, InstancesOK
  <1> QED BY <1>7, CopiesOnly DEF Populate, IInv, TypeInv

LEMMA SaveManualKeeps ==
  ASSUME IInv, NEW f \in Forms, NEW m \in BOOLEAN, SaveManual(f, m)
  PROVE  IInv'
  <1> DEFINE d == Complete(instance[f].answer, m)
             new == [instance[f] EXCEPT !.manual = m, !.done = d]
  <1>1. d \in BOOLEAN
    BY DEF Complete
  <1> HIDE DEF d
  <1>2. new \in Copies
    BY <1>1 DEF IInv, TypeInv, InstancesOK, Copies
  <1>3. instance' = [instance EXCEPT ![f] = new]
    BY DEF SaveManual, IInv, TypeInv, InstancesOK, d
  <1> HIDE DEF new
  <1>4. instance' \in [Forms -> Copies]
    BY <1>2, <1>3 DEF IInv, TypeInv, InstancesOK
  <1> QED BY <1>4, CopiesOnly DEF SaveManual, IInv, TypeInv

LEMMA AcknowledgingKeeps ==
  ASSUME IInv, NEW f \in Forms, Acknowledge(f) \/ ClearAcknowledgment(f)
  PROVE  IInv'
  <1>1. instance' \in [Forms -> Copies] /\ ack' \subseteq Physical
    BY
       DEF PhysicalItem, Acknowledge, ClearAcknowledgment, IInv, TypeInv,
           InstancesOK
  <1> QED BY <1>1, CopiesOnly DEF Acknowledge, ClearAcknowledgment

LEMMA NextIInv == IInv /\ [PacketsNext]_packetVars => IInv'
  <1> SUFFICES ASSUME IInv, [PacketsNext]_packetVars PROVE IInv'
    OBVIOUS
  <1>1. CASE UNCHANGED packetVars
    BY <1>1, CallsStay, CallsOnly DEF packetVars
  <1>2. ASSUME NEW a \in FactAnswers, NEW b \in BOOLEAN, Revise(a, b) PROVE IInv'
    BY <1>2, ReviseKeeps
  <1>3. CASE ReportSaved
    BY <1>3, ReportSavedKeeps
  <1>4. ASSUME NEW c \in PacketCalls,
               BeginPacket(c, "build", NoForm) \/ BeginPacket(c, "act", NoForm)
        PROVE  IInv'
    BY <1>4, BeginPacketKeeps
  <1>5. ASSUME NEW c \in PacketCalls, NEW f \in Forms, BeginPacket(c, "add", f)
        PROVE  IInv'
    BY <1>5, BeginPacketKeeps
  <1>6. ASSUME NEW c \in PacketCalls,
               Build(c) \/ AddForm(c) \/ RecordAction(c) \/ RefusePacket(c)
        PROVE  IInv'
    BY <1>6, BuildKeeps, AddFormKeeps, RecordActionKeeps, RefusePacketKeeps
  <1>7. ASSUME NEW f \in Forms, RemoveForm(f) \/ MarkNotApplicable(f) \/ Populate(f) PROVE IInv'
    BY <1>7, RemoveFormKeeps, MarkNotApplicableKeeps, PopulateKeeps
  <1>8. ASSUME NEW f \in Forms, NEW m \in BOOLEAN, SaveManual(f, m) PROVE IInv'
    BY <1>8, SaveManualKeeps
  <1>9. ASSUME NEW f \in Forms, Acknowledge(f) \/ ClearAcknowledgment(f) PROVE IInv'
    BY <1>9, AcknowledgingKeeps
  <1> QED BY <1>1, <1>2, <1>3, <1>4, <1>5, <1>6, <1>7, <1>8, <1>9 DEF PacketsNext

-----------------------------------------------------------------------------
\* Rows, filled forms and requests keep the shapes of the schema and name
\* revisions that exist.
THEOREM TypeCorrect == PacketsSpec => []PacketsTypeOK
  <1>1. IInv => PacketsTypeOK
    BY
       DEF IInv, TypeInv, FactsOK, ReportOK, ItemsOK, InstancesOK, CallsOK, Rows,
           Copies, Calls,
           PacketsTypeOK
  <1> QED BY <1>1, InitIInv, NextIInv, PTL DEF PacketsSpec

\* Rebuilds that finish out of order, dismissals and additions leave no
\* required form out of the packet that the plan of its row asks for.
THEOREM RequiredFormsStay == PacketsSpec => []RequiredIsAnswered
  <1>1. IInv => RequiredIsAnswered
    BY DEF IInv
  <1> QED BY <1>1, InitIInv, NextIInv, PTL DEF PacketsSpec

\* A form is refilled from the current revision or not at all, whichever
\* revision the packet was last rebuilt for.
THEOREM FormsOnlyAdvance == PacketsSpec => FormsNeverGoBack
  <1>1. IInv /\ [PacketsNext]_packetVars =>
           [\A f \in Forms : instance'[f].source >= instance[f].source]_packetVars
    <2> SUFFICES ASSUME IInv, PacketsNext
                 PROVE  \A f \in Forms : instance'[f].source >= instance[f].source
      OBVIOUS
    <2>1. \A f \in Forms : instance[f].source \in 0 .. CurrentRevision
                           /\ CurrentRevision \in Nat
      BY DEF IInv, TypeInv, FactsOK, InstancesOK, Copies, CurrentRevision
    <2>2. CASE UNCHANGED instance
      BY <2>1, <2>2
    <2>3. ASSUME NEW g \in Forms, Populate(g)
          PROVE  \A f \in Forms : instance'[f].source >= instance[f].source
      <3>1. \A f \in Forms : instance'[f].source =
                                IF f = g THEN CurrentRevision ELSE instance[f].source
        BY <2>3 DEF Populate, UpToDate, IInv, TypeInv, InstancesOK
      <3> QED BY <2>1, <3>1
    <2>4. ASSUME NEW g \in Forms, NEW m \in BOOLEAN, SaveManual(g, m)
          PROVE  \A f \in Forms : instance'[f].source >= instance[f].source
      <3>1. \A f \in Forms : instance'[f].source = instance[f].source
        BY <2>4 DEF SaveManual, IInv, TypeInv, InstancesOK, Copies
      <3> QED BY <2>1, <3>1
    <2> QED
      BY <2>2, <2>3, <2>4
      DEF PacketsNext, Revise, ReportSaved, BeginPacket, Build, AddForm, RecordAction,
          RefusePacket, RemoveForm, MarkNotApplicable, Acknowledge, ClearAcknowledgment
  <1> QED BY <1>1, InitIInv, NextIInv, PTL DEF PacketsSpec, FormsNeverGoBack

-----------------------------------------------------------------------------
(* RosterStore: any seed that lists a number once, any requests, instances *)
(* and number of attempts.                                                 *)
(*                                                                         *)
(* An upload is conditional on the generation, so what has to be known of  *)
(* a copy is that one of the current generation holds the current staff    *)
(* (CopiesBehind): generations never come back, each belongs to one write. *)

Whos == {s.who : s \in Seed} \cup {w[e].who : w \in Wanted, e \in Edits}
OnRoster == {s.number : s \in Seed} \cup {w[e].number : w \in Wanted, e \in Edits}
          \cup {w[e].new : w \in Wanted, e \in Edits}
Entry == [who : Whos, number : OnRoster]
Copied == [generation : Nat, staff : SUBSET Entry]
Requested ==
    [at : {"idle", "again", "write", "written", "conflict", "answered", "failed"},
     instance : Instances \cup {NoCopy}, copy : Copied \cup {NoCopy}, tries : Nat,
     says : {"nothing", "duplicate", "added", "known", "missing", "updated", "unknown", "removed"}]

RosterTyped ==
    /\ object \in Copied
    /\ want \in Wanted
    /\ edit \in [Edits -> Requested]
    /\ \A e \in Edits : edit[e].at \in {"write", "written"} => edit[e].copy \in Copied
    /\ accepted \in Seq([by : Edits, left : SUBSET Entry])

\* a copy about to be written back is the object as it is, or of an earlier write
CopiesBehind ==
    \A e \in Edits : edit[e].at = "write" =>
        /\ edit[e].copy.generation <= object.generation
        /\ edit[e].copy.generation = object.generation => edit[e].copy.staff = object.staff

RosterInv == RosterTyped /\ CopiesBehind /\ NoEditIsDropped /\ OneEntryPerNumber

Numbered(staffs) == \A s, t \in staffs : s.number = t.number => s = t

LEMMA SeedOnRoster == Seed \in SUBSET Entry /\ Numbered(Seed)
<1>1. Seed \subseteq Entry
  <2>1. SUFFICES ASSUME NEW s \in Seed PROVE s \in Entry
    OBVIOUS
  <2>2. s = [who |-> s.who, number |-> s.number]
    BY RosterAssumption
  <2>3. s.who \in Whos /\ s.number \in OnRoster
    BY DEF Whos, OnRoster
  <2> QED BY <2>2, <2>3 DEF Entry
<1>2. Numbered(Seed)
  BY RosterAssumption DEF Numbered
<1> QED BY <1>1, <1>2

\* Every mutation keeps a roster of entries that lists each number once.
LEMMA MutationKeeps ==
  ASSUME want \in Wanted, NEW e \in Edits, NEW staffs \in SUBSET Entry
  PROVE  /\ Mutated(e, staffs).staff \in SUBSET Entry
         /\ Mutated(e, staffs).says \in {"duplicate", "added", "known", "missing", "updated",
                                         "unknown", "removed"}
         /\ Numbered(staffs) => Numbered(Mutated(e, staffs).staff)
<1> DEFINE w == want[e]
           new == [who |-> w.who, number |-> w.number]
<1>1. w.who \in Whos /\ w.number \in OnRoster /\ w.new \in OnRoster
  BY DEF Whos, OnRoster
<1>2. new \in Entry /\ new.number = w.number
  BY <1>1 DEF Entry
<1>3. ASSUME ~Has(staffs, w.number)
      PROVE  /\ staffs \cup {new} \in SUBSET Entry
             /\ Numbered(staffs) => Numbered(staffs \cup {new})
  <2> HIDE DEF new
  <2> QED BY <1>2, <1>3 DEF Has, Numbered
<1>4. w.op \in {"add", "learn", "renumber", "remove"}
  BY RosterAssumption
<1>5. CASE w.op = "add"
  <2>1. Mutated(e, staffs) = AddTo(staffs, w)
    BY <1>5 DEF Mutated
  <2>2. CASE Has(staffs, w.number)
    BY <2>1, <2>2 DEF AddTo
  <2>3. CASE ~Has(staffs, w.number)
    <3>1. Mutated(e, staffs) = [says |-> "added", staff |-> staffs \cup {new}]
      BY <2>1, <2>3 DEF AddTo
    <3> HIDE DEF new
    <3> QED BY <3>1, <1>3, <2>3
  <2> QED BY <2>2, <2>3
<1>6. CASE w.op = "learn"
  <2>1. Mutated(e, staffs) = LearnIn(staffs, w)
    BY <1>6 DEF Mutated
  <2>2. CASE Has(staffs, w.number) \/ \E s \in staffs : s.who = w.who
    BY <2>1, <2>2 DEF LearnIn
  <2>3. CASE ~(Has(staffs, w.number) \/ \E s \in staffs : s.who = w.who)
    <3>1. Mutated(e, staffs) = [says |-> "added", staff |-> staffs \cup {new}]
      BY <2>1, <2>3 DEF LearnIn
    <3> HIDE DEF new
    <3> QED BY <3>1, <1>3, <2>3
  <2> QED BY <2>2, <2>3
<1>7. CASE w.op = "renumber"
  <2>1. Mutated(e, staffs) = RenumberIn(staffs, w)
    BY <1>7 DEF Mutated
  <2>2. CASE ~Has(staffs, w.number)
    BY <2>1, <2>2 DEF RenumberIn
  <2>3. CASE Has(staffs, w.number)
    <3> DEFINE s == CHOOSE x \in staffs : x.number = w.number
               moved == [s EXCEPT !.number = w.new]
    <3>1. s \in staffs
      BY <2>3 DEF Has
    <3>2. moved \in Entry /\ moved.number = w.new
      <4>1. s \in Entry
        BY <3>1
      <4> HIDE DEF s
      <4> QED BY <4>1, <1>1 DEF Entry
    <3>3. CASE \E other \in staffs \ {s} : other.number = w.new
      BY <2>1, <2>3, <3>3 DEF RenumberIn
    <3>4. CASE ~ \E other \in staffs \ {s} : other.number = w.new
      <4>1. Mutated(e, staffs) = [says |-> "updated", staff |-> (staffs \ {s}) \cup {moved}]
        BY <2>1, <2>3, <3>4 DEF RenumberIn
      <4> HIDE DEF s, moved
      <4>2. /\ (staffs \ {s}) \cup {moved} \in SUBSET Entry
            /\ Numbered(staffs) => Numbered((staffs \ {s}) \cup {moved})
        BY <3>2, <3>4 DEF Numbered
      <4> QED BY <4>1, <4>2
    <3> QED BY <3>3, <3>4
  <2> QED BY <2>2, <2>3
<1>8. CASE w.op = "remove"
  BY <1>8 DEF Mutated, RemoveFrom, Numbered
<1> QED BY <1>4, <1>5, <1>6, <1>7, <1>8

-----------------------------------------------------------------------------
(* The invariant of the roster's object                                    *)

LEMMA RosterInitInv == RosterInit => RosterInv
<1> SUFFICES ASSUME RosterInit PROVE RosterInv
  OBVIOUS
<1> USE DEF RosterInit
<1>1. object \in Copied
  BY SeedOnRoster DEF Copied
<1>2. edit \in [Edits -> Requested] /\ \A e \in Edits : edit[e].at = "idle"
  BY DEF NoEdit, Requested
<1>3. RosterTyped
  BY <1>1, <1>2 DEF RosterTyped
<1>4. CopiesBehind
  BY <1>2 DEF CopiesBehind
<1>5. NoEditIsDropped
  BY DEF NoEditIsDropped, Left
<1>6. OneEntryPerNumber
  BY SeedOnRoster DEF OneEntryPerNumber, Numbered
<1> QED BY <1>3, <1>4, <1>5, <1>6 DEF RosterInv

\* A step that writes nothing and makes no copy ready to write.
LEMMA NothingStored ==
  ASSUME RosterInv, UNCHANGED <<object, want, accepted>>,
         edit' \in [Edits -> Requested],
         \A e \in Edits : edit'[e].at \in {"write", "written"} => edit'[e] = edit[e]
  PROVE  RosterInv'
<1> USE DEF RosterInv
<1>1. RosterTyped'
  BY DEF RosterTyped
<1>2. CopiesBehind'
  BY DEF CopiesBehind
<1>3. NoEditIsDropped'
  BY DEF NoEditIsDropped, Left, Mutated
<1>4. OneEntryPerNumber'
  BY DEF OneEntryPerNumber
<1> QED BY <1>1, <1>2, <1>3, <1>4

\* The upload: the copy is the object, so the edit is applied to what the last
\* accepted one left.
LEMMA StoredKeeps ==
  ASSUME RosterInv, NEW e \in Edits, Stored(e), edit[e].at = "write", UNCHANGED want,
         NEW next \in {"written", "conflict"}, edit' = [edit EXCEPT ![e].at = next]
  PROVE  RosterInv'
<1> DEFINE left == Mutated(e, edit[e].copy.staff).staff
           row == [by |-> e, left |-> left]
<1>1. /\ object \in Copied /\ want \in Wanted /\ edit \in [Edits -> Requested]
      /\ accepted \in Seq([by : Edits, left : SUBSET Entry])
      /\ edit[e].copy \in Copied
  BY DEF RosterInv, RosterTyped
<1>2. edit[e].copy.staff = object.staff /\ object.staff \in SUBSET Entry
  BY <1>1 DEF RosterInv, CopiesBehind, Stored, MayWrite, Copied
<1>3. /\ left \in SUBSET Entry
      /\ left = Mutated(e, object.staff).staff
      /\ Numbered(object.staff) => Numbered(left)
  BY <1>1, <1>2, MutationKeeps
<1>4. /\ object' = [generation |-> object.generation + 1, staff |-> left]
      /\ accepted' = Append(accepted, row)
  BY DEF Stored
<1>5. row \in [by : Edits, left : SUBSET Entry] /\ row.by = e /\ row.left = left
  BY <1>3
<1> HIDE DEF row, left
<1>6. object' \in Copied /\ object'.staff = left
      /\ object'.generation = object.generation + 1 /\ object.generation \in Nat
  BY <1>1, <1>3, <1>4 DEF Copied
<1>7. edit' \in [Edits -> Requested]
  BY <1>1 DEF Requested
<1>8. /\ edit'[e].at = next /\ edit'[e].copy = edit[e].copy
      /\ \A d \in Edits \ {e} : edit'[d] = edit[d]
  BY <1>1 DEF Requested
<1>9. RosterTyped'
  BY <1>1, <1>4, <1>5, <1>6, <1>7, <1>8 DEF RosterInv, RosterTyped
<1>10. CopiesBehind'
  <2>1. SUFFICES ASSUME NEW d \in Edits, edit'[d].at = "write"
                 PROVE  /\ edit'[d].copy.generation <= object'.generation
                        /\ edit'[d].copy.generation # object'.generation
    BY DEF CopiesBehind
  <2>2. d # e /\ edit'[d] = edit[d]
    BY <1>8, <2>1
  <2>3. edit[d].copy \in Copied /\ edit[d].copy.generation <= object.generation
    BY <2>1, <2>2 DEF RosterInv, RosterTyped, CopiesBehind
  <2>4. edit[d].copy.generation \in Nat
    BY <2>3 DEF Copied
  <2> QED BY <1>6, <2>2, <2>3, <2>4
<1>11. NoEditIsDropped'
  <2> PICK len \in Nat : len = Len(accepted)
    BY <1>1
  <2>1. len \in Nat /\ len = Len(accepted) /\ Len(accepted') = len + 1
    BY <1>1, <1>4
  <2>2. \A n \in 1 .. len : accepted'[n] = accepted[n]
    BY <1>1, <1>4
  <2>3. accepted'[len + 1] = row
    BY <1>1, <1>4
  <2>4. \A n \in 0 .. len : Left(n)' = Left(n)
    BY <2>1, <2>2 DEF Left
  <2>5. Left(len + 1)' = left
    BY <2>1, <2>3, <1>5 DEF Left
  <2>6. \A d, x : Mutated(d, x)' = Mutated(d, x)
    BY DEF Mutated
  <2>7. Left(len) = object.staff
        /\ \A n \in 1 .. len : Left(n) = Mutated(accepted[n].by, Left(n - 1)).staff
    BY DEF RosterInv, NoEditIsDropped
  <2>8. \A n \in 1 .. len : Left(n)' = (Mutated(accepted[n].by, Left(n - 1)).staff)'
    <3>1. TAKE n \in 1 .. len
    <3>2. Left(n)' = Left(n) /\ Left(n - 1)' = Left(n - 1) /\ accepted'[n] = accepted[n]
      BY <2>1, <2>2, <2>4
    <3> QED BY <3>2, <2>6, <2>7
  <2>9. Left(len + 1)' = (Mutated(accepted[len + 1].by, Left(len)).staff)'
    <3>1. Left(len)' = object.staff
      BY <2>1, <2>4, <2>7
    <3> QED BY <3>1, <2>3, <2>5, <2>6, <1>3, <1>5
  <2>10. (len + 1) - 1 = len
    BY <2>1
  <2>11. \A n \in 1 .. len + 1 : n \in 1 .. len \/ n = len + 1
    BY <2>1
  <2> QED BY <2>1, <2>5, <2>8, <2>9, <2>10, <2>11, <1>6 DEF NoEditIsDropped
<1>12. OneEntryPerNumber'
  BY <1>3, <1>6 DEF RosterInv, OneEntryPerNumber, Numbered
<1> QED BY <1>9, <1>10, <1>11, <1>12 DEF RosterInv

LEMMA RosterNextInv == RosterInv /\ [RosterNext]_rosterVars => RosterInv'
<1> SUFFICES ASSUME RosterInv, [RosterNext]_rosterVars PROVE RosterInv'
  OBVIOUS
<1>0. object \in Copied /\ want \in Wanted /\ edit \in [Edits -> Requested]
  BY DEF RosterInv, RosterTyped
<1>1. ASSUME NEW e \in Edits, NEW i \in Instances, Fetch(e, i) PROVE RosterInv'
  <2> DEFINE says == Mutated(e, object.staff).says
             o == [at |-> IF NothingToWrite(says) THEN "answered" ELSE "write",
                   instance |-> i, copy |-> object, tries |-> edit[e].tries + 1,
                   says |-> says]
  <2>1. edit' = [edit EXCEPT ![e] = o]
    BY <1>1 DEF Fetch, Fetched
  <2>2. says \in {"duplicate", "added", "known", "missing", "updated", "unknown", "removed"}
    BY <1>0, MutationKeeps DEF Copied
  <2>3. o \in Requested /\ o.copy = object
    BY <1>0, <2>2 DEF Requested
  <2> HIDE DEF o, says
  <2>4. UNCHANGED <<object, want, accepted>>
    BY <1>1 DEF Fetch
  <2>5. edit' \in [Edits -> Requested]
        /\ edit'[e] = o /\ \A d \in Edits \ {e} : edit'[d] = edit[d]
    BY <1>0, <2>1, <2>3
  <2>6. RosterTyped'
    BY <1>0, <2>3, <2>4, <2>5 DEF RosterInv, RosterTyped
  <2>7. CopiesBehind'
    BY <1>0, <2>3, <2>4, <2>5 DEF RosterInv, CopiesBehind, Copied
  <2>8. NoEditIsDropped' /\ OneEntryPerNumber'
    BY <2>4 DEF RosterInv, NoEditIsDropped, Left, Mutated, OneEntryPerNumber
  <2> QED BY <2>6, <2>7, <2>8 DEF RosterInv
<1>2. ASSUME NEW e \in Edits, Write(e) PROVE RosterInv'
  BY <1>2, StoredKeeps DEF Write
<1>3. ASSUME NEW e \in Edits, WriteUnanswered(e) PROVE RosterInv'
  BY <1>3, StoredKeeps DEF WriteUnanswered
<1>4. ASSUME NEW e \in Edits, Conflict(e) PROVE RosterInv'
  BY <1>0, <1>4, NothingStored DEF Conflict, Requested
<1>5. ASSUME NEW e \in Edits, Answer(e) PROVE RosterInv'
  <2>1. edit[e].copy \in Copied
    BY <1>5 DEF Answer, RosterInv, RosterTyped
  <2>2. [edit[e].copy EXCEPT !.staff = {}] \in Copied
    BY <2>1 DEF Copied
  <2> DEFINE o == [edit[e] EXCEPT !.at = "answered", !.copy = [edit[e].copy EXCEPT !.staff = {}]]
  <2>3. o \in Requested /\ o.at = "answered"
    BY <1>0, <2>2 DEF Requested
  <2>4. edit' = [edit EXCEPT ![e] = o]
    BY <1>5 DEF Answer
  <2> HIDE DEF o
  <2> QED BY <1>0, <1>5, <2>3, <2>4, NothingStored DEF Answer
<1>6. ASSUME NEW e \in Edits, Retry(e) PROVE RosterInv'
  <2> DEFINE o == [edit[e] EXCEPT !.at = "again", !.copy = NoCopy]
  <2>1. o \in Requested /\ o.at = "again"
    BY <1>0 DEF Requested
  <2>2. edit' = [edit EXCEPT ![e] = o]
    BY <1>6 DEF Retry
  <2> HIDE DEF o
  <2> QED BY <1>0, <1>6, <2>1, <2>2, NothingStored DEF Retry
<1>7. ASSUME NEW e \in Edits, GiveUp(e) PROVE RosterInv'
  <2> DEFINE o == [edit[e] EXCEPT !.at = "failed", !.copy = NoCopy]
  <2>1. o \in Requested /\ o.at = "failed"
    BY <1>0 DEF Requested
  <2>2. edit' = [edit EXCEPT ![e] = o]
    BY <1>7 DEF GiveUp
  <2> HIDE DEF o
  <2> QED BY <1>0, <1>7, <2>1, <2>2, NothingStored DEF GiveUp
<1>8. ASSUME UNCHANGED <<object, want, edit, accepted>> PROVE RosterInv'
  BY <1>0, <1>8, NothingStored
<1>9. CASE UNCHANGED rosterVars
  BY <1>8, <1>9 DEF rosterVars
<1>10. ASSUME NEW i \in ServesReads, StartRead(i) \/ FinishRead(i) \/ Expire(i) PROVE RosterInv'
  BY <1>8, <1>10 DEF StartRead, FinishRead, Expire
<1> QED
  BY <1>1, <1>2, <1>3, <1>4, <1>5, <1>6, <1>7, <1>9, <1>10 DEF RosterNext

\* The roster is what the accepted edits make of the seed, one after the other,
\* although each rewrites the whole document from a copy of its own and an upload
\* may be sent twice (update and if_generation_match).
THEOREM EditsAreKept == RosterSpec => []NoEditIsDropped
<1>1. RosterInv => NoEditIsDropped
  BY DEF RosterInv
<1> QED BY <1>1, RosterInitInv, RosterNextInv, PTL DEF RosterSpec

\* No employee number is on the roster twice: the duplicate checks of add_staff,
\* update_staff and _add_to_roster_file run on the copy that is written back.
THEOREM NumbersStayUnique == RosterSpec => []OneEntryPerNumber
<1>1. RosterInv => OneEntryPerNumber
  BY DEF RosterInv
<1> QED BY <1>1, RosterInitInv, RosterNextInv, PTL DEF RosterSpec

-----------------------------------------------------------------------------
(* Operations, the bootstrap: any number of executions.                     *)
(*                                                                         *)
(* Each execution reads the accounts once, under the lock, and does the    *)
(* rest on the strength of that.  So what has to be known of an execution  *)
(* that holds the lock is that nobody else holds it and that there is      *)
(* still no account (LockHeld), and how far its own writes have come       *)
(* (Underway).                                                             *)

Reported == {"nothing", "bootstrapped", "bootstrap_refused", "pin_version_add_failed",
             "pin_version_outcome_unknown_cleanup_required",
             "orphan_pin_version_cleanup_required"}

BootTyped ==
    boot \in [Bootstraps -> [at : {"idle", "pending", "added", "done", "silent"},
                             says : Reported]]

Holds(b) == boot[b].at \in {"pending", "added"}

LockHeld ==
    /\ \A b, c \in Bootstraps : Holds(b) /\ Holds(c) => b = c
    /\ \A b \in Bootstraps : Holds(b) => opened = {}
    /\ \A b, c \in opened : b = c

Underway ==
    /\ \A b \in Bootstraps :
          /\ boot[b].at # "done" => boot[b].says = "nothing"
          /\ boot[b].at \notin {"done", "silent"} => b \notin opened
          /\ boot[b].at \in {"idle", "pending"} => b \notin stored
          /\ boot[b].at = "added" => b \in stored
    /\ opened \subseteq Bootstraps

PinReported ==
    \A b \in Bootstraps :
        /\ boot[b].at = "done" /\ b \in stored \ opened
              => boot[b].says \in {"pin_version_outcome_unknown_cleanup_required",
                                   "orphan_pin_version_cleanup_required"}
        /\ boot[b].says = "bootstrapped" => b \in opened \cap stored

BootInv == BootTyped /\ LockHeld /\ Underway /\ PinReported

\* At most one element, at most one counted.
LEMMA AtMostOne ==
  ASSUME NEW S, \A b, c \in S : b = c
  PROVE  Cardinality(S) <= 1
<1>1. CASE S = {}
  BY <1>1, FS_EmptySet
<1>2. CASE S # {}
  <2>1. PICK b \in S : S = {b}
    BY <1>2
  <2> QED BY <2>1, FS_Singleton
<1> QED BY <1>1, <1>2

LEMMA BootInitInv == OpsInit => BootInv
  BY
     DEF OpsInit, BootInv, BootTyped, Reported, LockHeld, Holds, Underway,
         PinReported

\* One execution moves, the others stand where they stood.
LEMMA BootMoves ==
  ASSUME BootTyped, NEW b \in Bootstraps,
         NEW to \in {"idle", "pending", "added", "done", "silent"}, NEW says \in Reported,
         BootIs(b, to, says)
  PROVE  /\ BootTyped'
         /\ boot'[b].at = to /\ boot'[b].says = says
         /\ \A c \in Bootstraps \ {b} : boot'[c] = boot[c]
<1> DEFINE o == [at |-> to, says |-> says]
<1>1. o \in [at : {"idle", "pending", "added", "done", "silent"}, says : Reported]
      /\ o.at = to /\ o.says = says
  OBVIOUS
<1>2. boot' = [boot EXCEPT ![b] = o]
  BY DEF BootIs
<1> HIDE DEF o
<1> QED BY <1>1, <1>2 DEF BootTyped

\* The last move of an execution: with its result, or in silence.
LEMMA BootEnds ==
  ASSUME BootTyped, NEW b \in Bootstraps, NEW says \in Reported, EndBootstrap(b, says)
  PROVE  /\ BootTyped'
         /\ boot'[b].at \in {"done", "silent"}
         /\ boot'[b].says # says => boot'[b].at = "silent"
         /\ boot'[b].at = "silent" => boot'[b].says = "nothing"
         /\ \A c \in Bootstraps \ {b} : boot'[c] = boot[c]
<1>1. CASE BootIs(b, "done", says)
  <2>1. BootTyped' /\ boot'[b].at = "done" /\ boot'[b].says = says
        /\ \A c \in Bootstraps \ {b} : boot'[c] = boot[c]
    BY <1>1, BootMoves
  <2> QED BY <2>1
<1>2. CASE BootIs(b, "silent", "nothing")
  <2>1. "nothing" \in Reported
    BY DEF Reported
  <2>2. BootTyped' /\ boot'[b].at = "silent" /\ boot'[b].says = "nothing"
        /\ \A c \in Bootstraps \ {b} : boot'[c] = boot[c]
    BY <1>2, <2>1, BootMoves
  <2> QED BY <2>2
<1> QED BY <1>1, <1>2 DEF EndBootstrap

LEMMA BootNextInv == BootInv /\ [OpsNext]_opsVars => BootInv'
<1> SUFFICES ASSUME BootInv, [OpsNext]_opsVars PROVE BootInv'
  OBVIOUS
<1> USE DEF BootInv
<1>1. ASSUME UNCHANGED bootVars PROVE BootInv'
  BY <1>1 DEF bootVars, BootTyped, LockHeld, Holds, Underway, PinReported
<1>2. ASSUME NEW b \in Bootstraps, OpenBootstrap(b) PROVE BootInv'
  <2>1. boot[b].at = "idle" /\ LockFree /\ UNCHANGED <<opened, stored>>
    BY <1>2 DEF OpenBootstrap
  <2>2. CASE opened = {} /\ BootIs(b, "pending", "nothing")
    <3>1. BootTyped' /\ boot'[b].at = "pending" /\ boot'[b].says = "nothing"
          /\ \A c \in Bootstraps \ {b} : boot'[c] = boot[c]
      BY <2>2, BootMoves DEF Reported
    <3> QED BY <2>1, <2>2, <3>1 DEF LockFree, LockHeld, Holds, Underway, PinReported
  <2>3. CASE EndBootstrap(b, "bootstrap_refused")
    <3>1. /\ BootTyped' /\ boot'[b].at \in {"done", "silent"}
          /\ boot'[b].says \in {"bootstrap_refused", "nothing"}
          /\ boot'[b].at = "silent" => boot'[b].says = "nothing"
          /\ \A c \in Bootstraps \ {b} : boot'[c] = boot[c]
      BY <2>3, BootEnds DEF Reported
    <3> QED BY <2>1, <3>1 DEF LockHeld, Holds, Underway, PinReported
  <2> QED BY <1>2, <2>2, <2>3 DEF OpenBootstrap
<1>3. ASSUME NEW b \in Bootstraps, RefuseBootstrap(b) PROVE BootInv'
  <2>1. /\ BootTyped' /\ boot'[b].at \in {"done", "silent"}
        /\ boot'[b].says \in {"bootstrap_refused", "nothing"}
        /\ boot'[b].at = "silent" => boot'[b].says = "nothing"
        /\ \A c \in Bootstraps \ {b} : boot'[c] = boot[c]
    BY <1>3, BootEnds DEF RefuseBootstrap, Reported
  <2> QED BY <1>3, <2>1 DEF RefuseBootstrap, LockHeld, Holds, Underway, PinReported
<1>4. ASSUME NEW b \in Bootstraps, AddVersion(b) PROVE BootInv'
  <2>1. PICK answer \in {"named", "refused", "cancelled", "lost", "odd"}, done \in BOOLEAN :
           /\ answer \in {"named", "odd"} => done
           /\ answer = "refused" => ~done
           /\ stored' = IF done THEN stored \cup {b} ELSE stored
           /\ IF answer = "named" THEN BootIs(b, "added", "nothing")
                                  ELSE EndBootstrap(b, SaysOf(answer))
    BY <1>4 DEF AddVersion
  <2>2. boot[b].at = "pending" /\ opened' = opened
    BY <1>4 DEF AddVersion
  <2>3. CASE answer = "named"
    <3>1. BootTyped' /\ boot'[b].at = "added" /\ boot'[b].says = "nothing"
          /\ \A c \in Bootstraps \ {b} : boot'[c] = boot[c]
      BY <2>1, <2>3, BootMoves DEF Reported
    <3> QED BY <2>1, <2>2, <2>3, <3>1 DEF LockHeld, Holds, Underway, PinReported
  <2>4. CASE answer # "named"
    <3>1. SaysOf(answer) \in Reported /\ SaysOf(answer) # "bootstrapped"
          /\ (done => SaysOf(answer) = "pin_version_outcome_unknown_cleanup_required")
      BY <2>1 DEF SaysOf, Reported
    <3>2. /\ BootTyped' /\ boot'[b].at \in {"done", "silent"}
          /\ boot'[b].says # SaysOf(answer) => boot'[b].at = "silent"
          /\ boot'[b].at = "silent" => boot'[b].says = "nothing"
          /\ \A c \in Bootstraps \ {b} : boot'[c] = boot[c]
      BY <2>1, <2>4, <3>1, BootEnds
    <3> QED BY <2>1, <2>2, <3>1, <3>2 DEF LockHeld, Holds, Underway, PinReported
  <2> QED BY <2>3, <2>4
<1>5. ASSUME NEW b \in Bootstraps, CommitBootstrap(b) PROVE BootInv'
  <2>1. PICK done \in BOOLEAN, answered \in BOOLEAN :
           /\ opened' = IF done THEN opened \cup {b} ELSE opened
           /\ EndBootstrap(b, IF done /\ answered THEN "bootstrapped"
                              ELSE "orphan_pin_version_cleanup_required")
    BY <1>5 DEF CommitBootstrap
  <2>2. boot[b].at = "added" /\ stored' = stored
    BY <1>5 DEF CommitBootstrap
  <2>3. opened = {} /\ b \in stored /\ \A c \in Bootstraps \ {b} : ~Holds(c)
    BY <2>2 DEF LockHeld, Underway, Holds
  <2>4. /\ BootTyped' /\ boot'[b].at \in {"done", "silent"}
        /\ \/ boot'[b].says = (IF done /\ answered THEN "bootstrapped"
                               ELSE "orphan_pin_version_cleanup_required")
           \/ boot'[b].at = "silent" /\ boot'[b].says = "nothing"
        /\ boot'[b].at = "silent" => boot'[b].says = "nothing"
        /\ \A c \in Bootstraps \ {b} : boot'[c] = boot[c]
    BY <2>1, BootEnds DEF Reported
  <2>5. LockHeld'
    BY <2>1, <2>3, <2>4 DEF LockHeld, Holds
  <2>6. Underway'
    BY <2>1, <2>2, <2>3, <2>4 DEF Underway
  <2>7. PinReported'
    BY <2>1, <2>2, <2>3, <2>4 DEF PinReported
  <2> QED BY <2>4, <2>5, <2>6, <2>7
<1>6. ASSUME NEW b \in Bootstraps, KillBootstrap(b) PROVE BootInv'
  <2>1. BootTyped' /\ boot'[b].at = "silent" /\ boot'[b].says = "nothing"
        /\ \A c \in Bootstraps \ {b} : boot'[c] = boot[c]
    BY <1>6, BootMoves DEF KillBootstrap, Reported
  <2> QED BY <1>6, <2>1 DEF KillBootstrap, LockHeld, Holds, Underway, PinReported
<1> QED
  BY <1>1, <1>2, <1>3, <1>4, <1>5, <1>6
     DEF OpsNext, BootNext, ImportNext, opsVars, bootVars

\* Whatever Secret Manager and the database did with the calls, a bootstrap that
\* left a PIN without an account says that there is something to clean up, and no
\* two bootstraps both make an account (SaysOf and the advisory lock).
THEOREM PinsAreReported == OpsSpec => []NoStrayPin
<1>1. BootInv => NoStrayPin
  BY AtMostOne DEF BootInv, PinReported, LockHeld, NoStrayPin
<1> QED BY <1>1, BootInitInv, BootNextInv, PTL DEF OpsSpec

-----------------------------------------------------------------------------
(* Operations, the roster import: any sources, start table and page edits.  *)
(*                                                                         *)
(* A plan is made against a table that may have changed when it is applied *)
(* (nothing holds the table in between).  What survives is what the plan   *)
(* was made of: its rows are rows of the source, and what it changes are   *)
(* approved corrections (Planned); and a row that was there at first is    *)
(* never taken off the table (StartRowsStay), so that what is free for an  *)
(* insert was free from the start.                                         *)

SourceRows == UNION {src.rows : src \in Plans}

ImportRow ==
    [at : {"idle", "refused", "planned", "failed", "reported", "validated", "inserted",
           "applied"},
     source : Plans \cup {NoStaff},
     plan : [inserts : SUBSET SourceRows, updates : SUBSET SourceRows] \cup {NoStaff},
     inserts : SUBSET SourceRows]

ImportTyped == import \in [Imports -> ImportRow]

Open(i) == import[i].at \in {"planned", "reported", "inserted"}

Planned ==
    \A i \in Imports : Open(i) =>
        /\ import[i].source \in Plans
        /\ import[i].plan.inserts \subseteq import[i].source.rows
        /\ import[i].plan.updates \subseteq import[i].source.rows
        /\ import[i].inserts \subseteq import[i].source.rows
        /\ \A r \in import[i].plan.updates : r.number \in DOMAIN import[i].source.corrections

StartRowsStay ==
    /\ staff = [s \in StaffIds |-> staff[s]]
    /\ \A s \in StaffIds : StartStaff[s] # NoStaff => staff[s] # NoStaff

ImportInv == ImportTyped /\ Planned /\ StartRowsStay /\ ImportIsWhole

LEMMA ImportInitInv == OpsInit => ImportInv
<1> SUFFICES ASSUME OpsInit PROVE ImportInv
  OBVIOUS
<1> USE DEF OpsInit
<1>1. ImportTyped
  BY DEF ImportTyped, ImportRow, NoImport
<1>2. Planned
  BY DEF Planned, Open, NoImport
<1>3. StartRowsStay
  BY OpsAssumption DEF StartRowsStay
<1>4. ImportIsWhole
  BY OpsAssumption DEF ImportIsWhole, Known
<1> QED BY <1>1, <1>2, <1>3, <1>4 DEF ImportInv

\* An update without findings is an approved correction.
LEMMA UpdatesApproved ==
  ASSUME NEW tbl, NEW src, ~Findings(tbl, src)
  PROVE  /\ PlanOf(tbl, src).inserts \subseteq src.rows
         /\ PlanOf(tbl, src).updates \subseteq src.rows
         /\ \A r \in PlanOf(tbl, src).updates : r.number \in DOMAIN src.corrections
<1>1. SUFFICES ASSUME NEW r \in src.rows, r.number \notin DOMAIN src.corrections,
                      NEW s \in Person(tbl, src.corrections, r), Differs(tbl[s], r)
               PROVE  FALSE
  BY DEF PlanOf
<1>2. s \in NumberedIn(tbl, r.number)
  BY <1>1 DEF Person
<1>3. ~Unclear(tbl, src.corrections, r)
  BY DEF Findings
<1> QED BY <1>1, <1>2, <1>3 DEF Unclear

\* One import moves to a state that is not "applied", and the table stands.
LEMMA TableStands ==
  ASSUME ImportInv, NEW i \in Imports, import[i].at # "applied", staff' = staff,
         ImportTyped', Planned', \A j \in Imports \ {i} : import'[j] = import[j]
  PROVE  ImportInv'
<1>1. StartRowsStay'
  BY DEF ImportInv, StartRowsStay
<1>2. ImportIsWhole'
  <2>1. SUFFICES ASSUME NEW s \in Known(staff), staff[s].by \in Imports
                 PROVE  import'[staff[s].by] = import[staff[s].by]
    BY DEF ImportInv, ImportIsWhole, Known, Differs
  <2>2. staff[s].by # i
    BY <2>1 DEF ImportInv, ImportIsWhole
  <2> QED BY <2>1, <2>2
<1> QED BY <1>1, <1>2 DEF ImportInv

LEMMA ImportNextInv == ImportInv /\ [OpsNext]_opsVars => ImportInv'
<1> SUFFICES ASSUME ImportInv, [OpsNext]_opsVars PROVE ImportInv'
  OBVIOUS
<1>0. ImportTyped /\ Planned /\ StartRowsStay /\ ImportIsWhole
  BY DEF ImportInv
<1>1. ASSUME UNCHANGED <<staff, import>> PROVE ImportInv'
  BY <1>1
     DEF ImportInv, ImportTyped, Planned, Open, StartRowsStay, ImportIsWhole,
         Known, Differs
<1>2. ASSUME NEW i \in Imports, PlanImport(i) PROVE ImportInv'
  <2>1. PICK src \in Plans : import' = [import EXCEPT ![i] =
              [at |-> IF Findings(staff, src) THEN "refused" ELSE "planned",
               source |-> src,
               plan |-> IF Findings(staff, src) THEN NoStaff ELSE PlanOf(staff, src),
               inserts |-> {}]]
    BY <1>2 DEF PlanImport
  <2>2. import[i].at = "idle" /\ staff' = staff
    BY <1>2 DEF PlanImport
  <2> DEFINE p == PlanOf(staff, src)
             o == [at |-> IF Findings(staff, src) THEN "refused" ELSE "planned",
                   source |-> src, plan |-> IF Findings(staff, src) THEN NoStaff ELSE p,
                   inserts |-> {}]
  <2>3. p \in [inserts : SUBSET SourceRows, updates : SUBSET SourceRows]
    BY DEF PlanOf, SourceRows
  <2>4. ~Findings(staff, src) => /\ p.inserts \subseteq src.rows
                                 /\ p.updates \subseteq src.rows
                                 /\ \A r \in p.updates : r.number \in DOMAIN src.corrections
    BY UpdatesApproved
  <2> HIDE DEF p
  <2>5. /\ o \in ImportRow
        /\ o.at # "reported" /\ o.at # "inserted"
        /\ o.source = src /\ o.inserts = {}
        /\ o.at = "planned" => ~Findings(staff, src) /\ o.plan = p
    BY <2>3 DEF ImportRow
  <2>6. import' = [import EXCEPT ![i] = o]
    BY <2>1 DEF p
  <2> HIDE DEF o
  <2>7. ImportTyped' /\ import'[i] = o /\ \A j \in Imports \ {i} : import'[j] = import[j]
    BY <1>0, <2>5, <2>6 DEF ImportTyped
  <2>8. Planned'
    BY <1>0, <2>4, <2>5, <2>7 DEF Planned, Open
  <2> QED BY <2>2, <2>7, <2>8, TableStands
<1>3. ASSUME NEW i \in Imports, WriteReport(i) PROVE ImportInv'
  <2>1. PICK next \in {"failed", "reported", "validated"} :
           import' = [import EXCEPT ![i].at = next]
    BY <1>3 DEF WriteReport
  <2>2. import[i].at = "planned" /\ staff' = staff
    BY <1>3 DEF WriteReport
  <2>3. ImportTyped'
    BY <1>0, <2>1 DEF ImportTyped, ImportRow
  <2>4. /\ import'[i].source = import[i].source /\ import'[i].plan = import[i].plan
        /\ import'[i].inserts = import[i].inserts
        /\ \A j \in Imports \ {i} : import'[j] = import[j]
    BY <1>0, <2>1 DEF ImportTyped, ImportRow
  <2>5. Planned'
    BY <1>0, <2>2, <2>4 DEF Planned, Open
  <2> QED BY <2>2, <2>3, <2>4, <2>5, TableStands
<1>4. ASSUME NEW i \in Imports, InsertRows(i) PROVE ImportInv'
  <2> DEFINE new == {r \in import[i].plan.inserts : NumberedIn(staff, r.number) = {}}
             o == [import[i] EXCEPT !.at = "inserted", !.inserts = new]
  <2>1. import' = [import EXCEPT ![i] = o] /\ import[i].at = "reported" /\ staff' = staff
    BY <1>4 DEF InsertRows
  <2>2. new \subseteq import[i].source.rows /\ import[i].source \in Plans
    BY <1>0, <2>1 DEF Planned, Open
  <2>3. new \in SUBSET SourceRows
    BY <2>2 DEF SourceRows
  <2> HIDE DEF new
  <2>4. import[i] \in ImportRow
    BY <1>0 DEF ImportTyped
  <2>5. /\ o \in ImportRow
        /\ o.source = import[i].source /\ o.plan = import[i].plan /\ o.inserts = new
    BY <2>3, <2>4 DEF ImportRow
  <2> HIDE DEF o
  <2>6. ImportTyped' /\ import'[i] = o /\ \A j \in Imports \ {i} : import'[j] = import[j]
    BY <1>0, <2>1, <2>5 DEF ImportTyped
  <2>7. Planned'
    BY <1>0, <2>1, <2>2, <2>5, <2>6 DEF Planned, Open
  <2> QED BY <2>1, <2>6, <2>7, TableStands
<1>5. ASSUME NEW i \in Imports, FailImport(i) PROVE ImportInv'
  <2> DEFINE o == [import[i] EXCEPT !.at = "failed", !.inserts = {}]
  <2>1. import' = [import EXCEPT ![i] = o] /\ import[i].at # "applied" /\ staff' = staff
    BY <1>5 DEF FailImport
  <2>2. ImportTyped' /\ import'[i].at = "failed" /\ \A j \in Imports \ {i} : import'[j] = import[j]
    BY <1>0, <2>1 DEF ImportTyped, ImportRow
  <2>3. Planned'
    BY <1>0, <2>2 DEF Planned, Open
  <2> QED BY <2>1, <2>2, <2>3, TableStands
<1>6. ASSUME NEW i \in Imports, ApplyImport(i) PROVE ImportInv'
  <2> DEFINE imp == import[i]
             Target(r) == imp.source.corrections[r.number]
             Row(r) == [number |-> r.number, name |-> r.name, post |-> r.post, by |-> i]
  <2>1. /\ imp.at = "inserted"
        /\ import' = [import EXCEPT ![i].at = "applied", ![i].inserts = {}]
    BY <1>6 DEF ApplyImport
  <2>2. PICK new \in [imp.inserts -> StaffIds \ Known(staff)] :
           staff' = [s \in StaffIds |->
                 IF \E r \in imp.plan.updates : Target(r) = s
                 THEN Row(CHOOSE r \in imp.plan.updates : Target(r) = s)
                 ELSE IF \E r \in imp.inserts : new[r] = s
                 THEN Row(CHOOSE r \in imp.inserts : new[r] = s)
                 ELSE staff[s]]
    BY <1>6 DEF ApplyImport
  <2>3. /\ imp.source \in Plans
        /\ imp.plan.updates \subseteq imp.source.rows /\ imp.inserts \subseteq imp.source.rows
        /\ \A r \in imp.plan.updates : r.number \in DOMAIN imp.source.corrections
    BY <1>0, <2>1 DEF Planned, Open
  <2>4. /\ ImportTyped'
        /\ import'[i].at = "applied" /\ import'[i].source = imp.source
        /\ \A j \in Imports \ {i} : import'[j] = import[j]
    <3> DEFINE o == [imp EXCEPT !.at = "applied", !.inserts = {}]
    <3>0. import = [j \in Imports |-> import[j]]
      BY <1>0 DEF ImportTyped, ImportRow
    <3>1. import' = [import EXCEPT ![i] = o]
      <4> DEFINE half == [import EXCEPT ![i] = [imp EXCEPT !.at = "applied"]]
      <4>1. import' = [half EXCEPT ![i] = [half[i] EXCEPT !.inserts = {}]]
        BY <2>1
      <4>2. half[i] = [imp EXCEPT !.at = "applied"]
        BY <3>0
      <4>3. import' = [half EXCEPT ![i] = o]
        BY <4>1, <4>2
      <4>4. half = [j \in Imports |-> half[j]] /\ \A j \in Imports \ {i} : half[j] = import[j]
        BY <3>0
      <4> HIDE DEF half, o
      <4> QED BY <3>0, <4>3, <4>4
    <3>2. imp \in ImportRow
      BY <1>0 DEF ImportTyped
    <3>3. o \in ImportRow /\ o.at = "applied" /\ o.source = imp.source
      BY <3>2 DEF ImportRow
    <3> HIDE DEF o
    <3>4. ImportTyped'
      BY <1>0, <3>1, <3>3 DEF ImportTyped
    <3> QED BY <3>0, <3>1, <3>3, <3>4
  <2>5. Planned'
    BY <1>0, <2>4 DEF Planned, Open
  <2>6. ASSUME NEW s \in StaffIds
        PROVE  \/ /\ \E n \in DOMAIN imp.source.corrections : imp.source.corrections[n] = s
                  /\ \E r \in imp.source.rows : staff'[s] = Row(r)
               \/ /\ s \notin Known(staff)
                  /\ \E r \in imp.source.rows : staff'[s] = Row(r)
               \/ staff'[s] = staff[s]
    <3>1. CASE \E r \in imp.plan.updates : Target(r) = s
      <4>1. PICK r \in imp.plan.updates : Target(r) = s /\ staff'[s] = Row(r)
        BY <2>2, <2>6, <3>1
      <4> QED BY <2>3, <4>1
    <3>2. CASE ~(\E r \in imp.plan.updates : Target(r) = s) /\ \E r \in imp.inserts : new[r] = s
      <4>1. PICK r \in imp.inserts : new[r] = s /\ staff'[s] = Row(r)
        BY <2>2, <2>6, <3>2
      <4> QED BY <2>2, <2>3, <4>1
    <3>3. CASE ~(\E r \in imp.plan.updates : Target(r) = s) /\ ~ \E r \in imp.inserts : new[r] = s
      BY <2>2, <2>6, <3>3
    <3> QED BY <3>1, <3>2, <3>3
  <2>7. \A r \in imp.source.rows : /\ Row(r) # NoStaff /\ Row(r).by = i
                                   /\ Row(r).number = r.number /\ Row(r).name = r.name
                                   /\ Row(r).post = r.post
    BY <2>3, OpsAssumption
  <2> HIDE DEF Row, Target
  <2>8. staff' = [s \in StaffIds |-> staff'[s]]
    BY <2>2
  <2> HIDE DEF imp
  <2>9. StartRowsStay'
    BY <1>0, <2>6, <2>7, <2>8 DEF StartRowsStay
  <2>10. ImportIsWhole'
    <3>1. SUFFICES ASSUME NEW s \in StaffIds, staff'[s] # NoStaff, staff'[s].by \in Imports
                   PROVE  /\ import'[staff'[s].by].at = "applied"
                          /\ \E r \in import'[staff'[s].by].source.rows : ~Differs(staff'[s], r)
                          /\ \/ StartStaff[s] = NoStaff
                             \/ \E n \in DOMAIN import'[staff'[s].by].source.corrections :
                                   import'[staff'[s].by].source.corrections[n] = s
      BY DEF ImportIsWhole, Known, Differs
    <3>2. CASE \E r \in imp.source.rows : staff'[s] = Row(r)
      <4>1. staff'[s].by = i /\ \E r \in imp.source.rows : ~Differs(staff'[s], r)
        BY <2>7, <3>2 DEF Differs
      <4>2. \/ StartStaff[s] = NoStaff
            \/ \E n \in DOMAIN imp.source.corrections : imp.source.corrections[n] = s
            \/ staff'[s] = staff[s]
        BY <1>0, <2>6 DEF Known, StartRowsStay
      <4>3. staff'[s] # staff[s]
        <5>1. SUFFICES ASSUME staff'[s] = staff[s] PROVE FALSE
          OBVIOUS
        <5>2. s \in Known(staff) /\ staff[s].by = i
          BY <3>1, <4>1, <5>1 DEF Known
        <5> QED BY <1>0, <2>1, <5>2 DEF ImportIsWhole, imp
      <4> QED BY <2>4, <4>1, <4>2, <4>3
    <3>3. CASE staff'[s] = staff[s]
      <4>1. s \in Known(staff) /\ staff[s].by \in Imports
        BY <3>1, <3>3 DEF Known
      <4>2. /\ import[staff[s].by].at = "applied"
            /\ \E r \in import[staff[s].by].source.rows : ~Differs(staff[s], r)
            /\ \/ StartStaff[s] = NoStaff
               \/ \E n \in DOMAIN import[staff[s].by].source.corrections :
                     import[staff[s].by].source.corrections[n] = s
        BY <1>0, <4>1 DEF ImportIsWhole
      <4>3. staff[s].by # i
        BY <2>1, <4>2 DEF imp
      <4>4. staff'[s].by = staff[s].by /\ import'[staff[s].by] = import[staff[s].by]
        BY <2>4, <3>3, <4>1, <4>3
      <4> QED BY <3>3, <4>2, <4>4
    <3> QED BY <2>6, <3>2, <3>3
  <2> QED BY <2>4, <2>5, <2>9, <2>10 DEF ImportInv
<1>7. ASSUME NEW t \in StaffIds, EditStaff(t) PROVE ImportInv'
  <2>1. PICK row \in [number : Numbers, name : Names, post : Posts, by : {NoStaff}] :
           staff' = [staff EXCEPT ![t] = row]
    BY <1>7 DEF EditStaff
  <2>2. row # NoStaff /\ row.by \notin Imports /\ import' = import
    BY <1>7, OpsAssumption DEF EditStaff
  <2>3. staff'[t] = row /\ \A s \in StaffIds \ {t} : staff'[s] = staff[s]
    BY <1>0, <2>1 DEF StartRowsStay
  <2>4. StartRowsStay'
    BY <1>0, <2>1, <2>2, <2>3 DEF StartRowsStay
  <2>5. ImportTyped' /\ Planned'
    BY <1>0, <2>2 DEF ImportTyped, ImportRow, Planned, Open
  <2>6. ImportIsWhole'
    BY <1>0, <2>2, <2>3 DEF ImportIsWhole, Known, Differs
  <2> QED BY <2>4, <2>5, <2>6 DEF ImportInv
<1> QED
  BY <1>1, <1>2, <1>3, <1>4, <1>5, <1>6, <1>7
  DEF OpsNext, BootNext, ImportNext, opsVars, rosterTableVars

\* An import that was not applied left nothing behind, and an applied one changed
\* only rows of approved corrections and added only rows of its source, although
\* the table was edited between plan and commit (build_roster_plan,
\* import_roster).
THEOREM ImportsAreWhole == OpsSpec => []ImportIsWhole
<1>1. ImportInv => ImportIsWhole
  BY DEF ImportInv
<1> QED BY <1>1, ImportInitInv, ImportNextInv, PTL DEF OpsSpec

-----------------------------------------------------------------------------
(* Exports: any reports, requests, keys and what is asked under them.       *)
(*                                                                         *)
(* An export builds on what it read in earlier statements, so the          *)
(* invariant says what of it still holds at each stage (Sound): its key is *)
(* its own until it ends (OneHolder), hence its claim stands and the rows  *)
(* it found free stay free; and an archive's selection is that of its      *)
(* snapshot.                                                               *)

ExportDocs == [report : ExportReports, revision : Nat]
Moment == [ExportReports -> [revision : Nat, matches : BOOLEAN]]
Completion == [documents : SUBSET ExportDocs, failures : SUBSET ExportDocs]
Exporting ==
    [at : {"idle", "begun", "claimed", "found", "made", "done"}, key : Keys \cup {NoExport},
     moment : Nat, seen : Completion \cup {NoExport}, replay : BOOLEAN, todo : SUBSET ExportDocs,
     found : SUBSET ExportReports, documents : SUBSET ExportDocs,
     failures : SUBSET ExportDocs]
Completed == [key : Keys, documents : SUBSET ExportDocs, failures : SUBSET ExportDocs]

ExportsTyped ==
    /\ moments \in Seq(Moment) /\ Len(moments) >= 1
    /\ exporting \in [ExportRequests -> Exporting]
    /\ exportRecord \in [Keys -> Completion \cup {NoExport}]
    /\ rows \in [Keys -> SUBSET ExportDocs]
    /\ exported \in Seq(Completed)
    /\ archives \subseteq [key : Keys, documents : SUBSET ExportDocs]
    /\ expiries \in Nat

HasKey(x) == x.at \in {"claimed", "found", "made"}

OneHolder ==
    \A p, q \in ExportRequests :
        HasKey(exporting[p]) /\ HasKey(exporting[q]) /\ exporting[p].key = exporting[q].key
            => p = q

Hits(k, view) == {x \in Asked[k].reports : Asked[k].mode = "filters" => view[x].matches}

\* what is true of a request's transaction x at its stage
Started(x) == x.at = "begun" \/ HasKey(x) => x.key \in Keys /\ x.moment \in 1 .. Len(moments)
ClaimStands(x) == HasKey(x) /\ ~x.replay => exportRecord[x.key] = NoExport
RowsOfReplay(x) ==
    x.replay => /\ x.at = "found" => x.todo \subseteq rows[x.key]
                /\ x.at = "made" => x.documents \subseteq rows[x.key]
RowsStayFree(x) == x.at = "made" /\ ~x.replay => x.documents \cap rows[x.key] = {}
Fresh(x) ==
    /\ x.at \in {"begun", "claimed"} => x.failures = {} /\ ~x.replay
    /\ x.at = "begun" => x.found = {}
SnapshotOf(x) ==
    HasKey(x) /\ ~x.replay /\ Asked[x.key].mode # "one" =>
        LET view == moments[x.moment] IN
        /\ x.at = "claimed" => x.found \in {{}, Hits(x.key, view)}
        /\ x.at = "found" => x.todo = Selection(x.key, view) /\ x.failures = {}
        /\ x.at = "made" => x.documents \cup x.failures = Selection(x.key, view)

Sound(x) ==
    /\ Started(x) /\ ClaimStands(x) /\ RowsOfReplay(x) /\ RowsStayFree(x)
    /\ Fresh(x) /\ SnapshotOf(x)

Recorded ==
    /\ \A k \in Keys : exportRecord[k] # NoExport => exportRecord[k].documents \subseteq rows[k]
    /\ \A n \in DOMAIN exported :
          exportRecord[exported[n].key] = NoExport => expiries > 0

ExportsInv ==
    /\ ExportsTyped /\ OneHolder /\ Recorded
    /\ \A q \in ExportRequests : Sound(exporting[q])
    /\ ArchiveIsOneMoment /\ RecordedOnce

LEMMA IdleRequest ==
    /\ NoRequest \in Exporting /\ NoRequest.at = "idle"
    /\ [NoRequest EXCEPT !.at = "done"] \in Exporting
    /\ [NoRequest EXCEPT !.at = "done"].at = "done"
  BY DEF NoRequest, Exporting

\* A transaction that has not begun or has ended holds nothing.
LEMMA IdleIsSound ==
  ASSUME NEW x, x.at \in {"idle", "done"}
  PROVE  Sound(x) /\ ~HasKey(x)
  BY
     DEF Sound, HasKey, Started, ClaimStands, RowsOfReplay, RowsStayFree, Fresh,
         SnapshotOf

LEMMA ExportsInitInv == ExportsInit => ExportsInv
<1> SUFFICES ASSUME ExportsInit PROVE ExportsInv
  OBVIOUS
<1> DEFINE first == [r \in ExportReports |-> [revision |-> 1, matches |-> TRUE]]
<1>1. first \in Moment
  BY DEF Moment
<1> HIDE DEF first
<1>2. moments = <<first>> /\ moments \in Seq(Moment) /\ Len(moments) >= 1
  BY <1>1 DEF ExportsInit, first
<1>3. ExportsTyped
  BY <1>2, IdleRequest DEF ExportsInit, ExportsTyped
<1>4. \A q \in ExportRequests : Sound(exporting[q]) /\ ~HasKey(exporting[q])
  <2>1. Sound(NoRequest) /\ ~HasKey(NoRequest)
    BY IdleRequest, IdleIsSound
  <2> QED BY <2>1 DEF ExportsInit
<1>5. OneHolder
  BY <1>4 DEF OneHolder
<1>6. Recorded /\ ArchiveIsOneMoment /\ RecordedOnce
  BY DEF ExportsInit, Recorded, ArchiveIsOneMoment, RecordedOnce
<1> QED BY <1>3, <1>4, <1>5, <1>6 DEF ExportsInv

\* A step of one transaction that writes nothing the others can see.
LEMMA RequestMoves ==
  ASSUME ExportsInv, NEW q \in ExportRequests, NEW o \in Exporting, Moves(q, o), Sound(o),
         UNCHANGED <<moments, exportRecord, rows, exported, archives, expiries>>,
         HasKey(o) => \/ HasKey(exporting[q]) /\ exporting[q].key = o.key
                      \/ ~Claimed(o.key)
  PROVE  ExportsInv'
<1>1. exporting \in [ExportRequests -> Exporting] /\ exporting' = [exporting EXCEPT ![q] = o]
  BY DEF ExportsInv, ExportsTyped, Moves
<1>2. /\ exporting' \in [ExportRequests -> Exporting] /\ exporting'[q] = o
      /\ \A p \in ExportRequests \ {q} : exporting'[p] = exporting[p]
  BY <1>1
<1>3. ExportsTyped'
  BY <1>2 DEF ExportsInv, ExportsTyped
<1>4. ASSUME NEW p \in ExportRequests PROVE Sound(exporting[p])'
  <2>1. Sound(exporting'[p])
    BY <1>2 DEF ExportsInv
  <2>2. (Started(exporting[p]) /\ ClaimStands(exporting[p]))'
    BY <2>1 DEF Sound, HasKey, Started, ClaimStands
  <2>3. (RowsOfReplay(exporting[p]) /\ RowsStayFree(exporting[p]))'
    BY <2>1 DEF Sound, RowsOfReplay, RowsStayFree
  <2>4. Fresh(exporting[p])'
    BY <2>1 DEF Sound, Fresh
  <2>5. SnapshotOf(exporting[p])'
    BY <2>1 DEF Sound, HasKey, SnapshotOf, Hits, Selection, Current
  <2> QED BY <2>2, <2>3, <2>4, <2>5 DEF Sound
<1>5. OneHolder'
  BY <1>2 DEF ExportsInv, OneHolder, HasKey, Claimed
<1>6. (Recorded /\ ArchiveIsOneMoment /\ RecordedOnce)'
  BY DEF ExportsInv, Recorded, ArchiveIsOneMoment, RecordedOnce, Selection, Current
<1> QED BY <1>3, <1>4, <1>5, <1>6 DEF ExportsInv

-----------------------------------------------------------------------------
(* The actions                                                             *)

\* What every step of a request may use.
LEMMA RequestTyped ==
  ASSUME ExportsInv, NEW q \in ExportRequests
  PROVE  /\ exporting[q] \in Exporting /\ Sound(exporting[q])
         /\ moments \in Seq(Moment) /\ Len(moments) \in Nat \ {0}
         /\ exportRecord \in [Keys -> Completion \cup {NoExport}]
  BY DEF ExportsInv, ExportsTyped

LEMMA BeginKeeps ==
  ASSUME ExportsInv, NEW q \in ExportRequests, NEW k \in Keys, BeginExport(q, k)
  PROVE  ExportsInv'
<1> DEFINE o == [NoRequest EXCEPT !.at = "begun", !.key = k,
                                  !.moment = Len(moments), !.seen = exportRecord[k]]
<1>1. /\ o \in Exporting /\ o.at = "begun" /\ o.key = k /\ o.moment = Len(moments)
      /\ o.failures = {} /\ o.found = {} /\ ~o.replay
  BY RequestTyped DEF NoRequest, Exporting
<1>2. Moves(q, o) /\ UNCHANGED <<moments, exportRecord, rows, exported, archives, expiries>>
  BY DEF BeginExport
<1> HIDE DEF o
<1>3. Sound(o) /\ ~HasKey(o)
  BY <1>1, RequestTyped
  DEF Sound, HasKey, Started, ClaimStands, RowsOfReplay, RowsStayFree, Fresh, SnapshotOf
<1> QED BY <1>1, <1>2, <1>3, RequestMoves

LEMMA ClaimKeeps ==
  ASSUME ExportsInv, NEW q \in ExportRequests, ClaimExport(q)
  PROVE  ExportsInv'
<1> DEFINE req == exporting[q]
           known == exportRecord[req.key]
<1>1. /\ req \in Exporting /\ req.at = "begun" /\ req.key \in Keys
      /\ req.moment \in 1 .. Len(moments)
      /\ req.failures = {} /\ req.found = {} /\ req.replay = FALSE
  BY RequestTyped DEF ClaimExport, Sound, Started, Fresh, Exporting
<1>2. ~Claimed(req.key) /\ UNCHANGED <<moments, exportRecord, rows, exported, archives, expiries>>
  BY DEF ClaimExport
<1>3. CASE known = NoExport
  <2> DEFINE o == [req EXCEPT !.at = "claimed", !.seen = NoExport]
  <2>1. Moves(q, o)
    BY <1>3 DEF ClaimExport, Replays
  <2>2. /\ o \in Exporting /\ o.at = "claimed" /\ o.key = req.key /\ o.moment = req.moment
        /\ o.failures = {} /\ o.found = {} /\ ~o.replay
    BY <1>1 DEF Exporting
  <2> HIDE DEF o
  <2>3. Sound(o)
    BY <1>1, <1>3, <2>2
    DEF Sound, HasKey, Started, ClaimStands, RowsOfReplay, RowsStayFree, Fresh, SnapshotOf
  <2> QED BY <1>2, <2>1, <2>2, <2>3, RequestMoves
<1>4. CASE known # NoExport
  <2> DEFINE o == [req EXCEPT !.at = "found", !.replay = TRUE, !.seen = NoExport,
                              !.todo = known.documents, !.failures = known.failures]
  <2>1. Moves(q, o)
    BY <1>4 DEF ClaimExport, Replays
  <2>2. known \in Completion /\ known.documents \subseteq rows[req.key]
    BY <1>1, <1>4, RequestTyped DEF ExportsInv, Recorded
  <2>3. /\ o \in Exporting /\ o.at = "found" /\ o.key = req.key /\ o.moment = req.moment
        /\ o.replay /\ o.todo = known.documents
    BY <1>1, <2>2 DEF Exporting, Completion
  <2> HIDE DEF o
  <2>4. Sound(o)
    BY <1>1, <2>2, <2>3
    DEF Sound, HasKey, Started, ClaimStands, RowsOfReplay, RowsStayFree, Fresh, SnapshotOf
  <2> QED BY <1>2, <2>1, <2>3, <2>4, RequestMoves
<1> QED BY <1>3, <1>4

LEMMA FindKeeps ==
  ASSUME ExportsInv, NEW q \in ExportRequests, FindReports(q)
  PROVE  ExportsInv'
<1> DEFINE req == exporting[q]
           hits == {r \in Want(q).reports : Want(q).mode = "filters" => View(q)[r].matches}
           o == [req EXCEPT !.found = hits]
<1>1. Moves(q, o) /\ req.at = "claimed"
      /\ UNCHANGED <<moments, exportRecord, rows, exported, archives, expiries>>
  BY DEF FindReports
<1>2. /\ req \in Exporting /\ Sound(req) /\ HasKey(req) /\ req.key \in Keys
  BY <1>1, RequestTyped DEF HasKey, Sound, Started
<1>3. hits \subseteq ExportReports
  BY <1>2, ExportsAssumption DEF Want
<1>4. Asked[req.key].mode # "one" => hits = Hits(req.key, moments[req.moment])
  BY DEF Want, View, Bulk, Hits
<1> HIDE DEF hits
<1>5. /\ o \in Exporting /\ o.at = "claimed" /\ o.key = req.key /\ o.moment = req.moment
      /\ o.failures = req.failures /\ o.replay = req.replay /\ o.found = hits
  BY <1>1, <1>2, <1>3 DEF Exporting
<1> HIDE DEF o, req
<1>6. Sound(o)
  BY <1>1, <1>2, <1>4, <1>5
  DEF Sound, HasKey, Started, ClaimStands, RowsOfReplay, RowsStayFree, Fresh, SnapshotOf
<1> QED BY <1>1, <1>2, <1>5, <1>6, RequestMoves DEF req

LEMMA LoadKeeps ==
  ASSUME ExportsInv, NEW q \in ExportRequests, LoadRevisions(q)
  PROVE  ExportsInv'
<1> DEFINE req == exporting[q]
           loaded == {IF Bulk(q) THEN Current(View(q), r)
                      ELSE [report |-> r, revision |-> Want(q).revision] : r \in req.found}
           o == [req EXCEPT !.at = "found", !.todo = loaded]
<1>1. Moves(q, o) /\ req.at = "claimed" /\ req.found # {}
      /\ UNCHANGED <<moments, exportRecord, rows, exported, archives, expiries>>
  BY DEF LoadRevisions
<1>2. /\ req \in Exporting /\ Sound(req) /\ HasKey(req) /\ req.key \in Keys
      /\ req.moment \in 1 .. Len(moments) /\ req.found \subseteq ExportReports
      /\ req.failures = {} /\ req.replay = FALSE
  BY <1>1, RequestTyped DEF HasKey, Sound, Started, Fresh, Exporting
<1>3. moments[req.moment] \in Moment
  BY <1>2, RequestTyped
<1>4. loaded \in SUBSET ExportDocs
  <2>1. CASE Bulk(q)
    <3>1. loaded = {Current(moments[req.moment], r) : r \in req.found}
      BY <2>1 DEF View
    <3>2. \A r \in req.found : Current(moments[req.moment], r) \in ExportDocs
      BY <1>2, <1>3 DEF Current, Moment, ExportDocs
    <3> HIDE DEF loaded
    <3> QED BY <3>1, <3>2
  <2>2. CASE ~Bulk(q)
    <3>1. loaded = {[report |-> r, revision |-> Want(q).revision] : r \in req.found}
      BY <2>2
    <3>2. Want(q).revision \in Nat
      BY <1>2, ExportsAssumption DEF Want
    <3>3. \A r \in req.found : [report |-> r, revision |-> Want(q).revision] \in ExportDocs
      BY <1>2, <3>2 DEF ExportDocs
    <3> HIDE DEF loaded
    <3> QED BY <3>1, <3>3
  <2> QED BY <2>1, <2>2
<1>5. Asked[req.key].mode # "one" => loaded = Selection(req.key, moments[req.moment])
  <2>1. SUFFICES ASSUME Asked[req.key].mode # "one"
                 PROVE  loaded = Selection(req.key, moments[req.moment])
    OBVIOUS
  <2>2. req.found = Hits(req.key, moments[req.moment])
    BY <1>1, <1>2, <2>1 DEF Sound, SnapshotOf
  <2>3. loaded = {Current(moments[req.moment], r) : r \in req.found}
    BY <2>1 DEF Bulk, Want, View
  <2> QED BY <2>2, <2>3 DEF Selection, Hits
<1> HIDE DEF loaded
<1>6. /\ o \in Exporting /\ o.at = "found" /\ o.key = req.key /\ o.moment = req.moment
      /\ o.failures = {} /\ o.replay = FALSE /\ o.todo = loaded
  BY <1>2, <1>4 DEF Exporting
<1> HIDE DEF o, req
<1>7. Sound(o)
  BY <1>1, <1>2, <1>5, <1>6
  DEF Sound, HasKey, Started, ClaimStands, RowsOfReplay, RowsStayFree, Fresh, SnapshotOf
<1> QED BY <1>1, <1>2, <1>6, <1>7, RequestMoves DEF req

LEMMA MakeKeeps ==
  ASSUME ExportsInv, NEW q \in ExportRequests, MakeDocument(q)
  PROVE  ExportsInv'
<1> DEFINE req == exporting[q]
<1>1. /\ req.at = "found" /\ ~Colliding(q)
      /\ UNCHANGED <<moments, exportRecord, rows, exported, archives, expiries>>
  BY DEF MakeDocument
<1>2. PICK failed \in SUBSET req.todo :
         Moves(q, [req EXCEPT !.at = "made", !.todo = {}, !.documents = req.todo \ failed,
                              !.failures = @ \cup failed])
  BY DEF MakeDocument
<1>3. /\ req \in Exporting /\ Sound(req) /\ HasKey(req) /\ req.key \in Keys
  BY <1>1, RequestTyped DEF HasKey, Sound, Started
<1> DEFINE o == [req EXCEPT !.at = "made", !.todo = {}, !.documents = req.todo \ failed,
                            !.failures = @ \cup failed]
<1>4. /\ o \in Exporting /\ o.at = "made" /\ o.key = req.key /\ o.moment = req.moment
      /\ o.failures = req.failures \cup failed /\ o.replay = req.replay
      /\ o.documents = req.todo \ failed
  BY <1>3 DEF Exporting
<1>5. Moves(q, o)
  BY <1>2
<1>6. ~req.replay => req.todo \cap rows[req.key] = {}
  BY <1>1 DEF Colliding
<1> HIDE DEF o, req
<1>7. Started(o) /\ ClaimStands(o) /\ RowsOfReplay(o) /\ RowsStayFree(o) /\ Fresh(o)
  BY <1>1, <1>3, <1>4, <1>6
  DEF Sound, HasKey, Started, ClaimStands, RowsOfReplay, RowsStayFree, Fresh
<1>8. SnapshotOf(o)
  <2>1. SUFFICES ASSUME ~req.replay, Asked[req.key].mode # "one"
                 PROVE  o.documents \cup o.failures = Selection(req.key, moments[req.moment])
    BY <1>4 DEF SnapshotOf
  <2>2. req.todo = Selection(req.key, moments[req.moment]) /\ req.failures = {}
    BY <1>1, <1>3, <2>1 DEF Sound, SnapshotOf
  <2> QED BY <1>4, <2>2
<1> QED BY <1>1, <1>3, <1>4, <1>5, <1>7, <1>8, RequestMoves DEF req, Sound

LEMMA RefuseKeeps ==
  ASSUME ExportsInv, NEW q \in ExportRequests, RefuseExport(q)
  PROVE  ExportsInv'
<1> DEFINE o == [NoRequest EXCEPT !.at = "done"]
<1>1. o \in Exporting /\ o.at = "done"
  BY IdleRequest
<1>2. Moves(q, o) /\ UNCHANGED <<moments, exportRecord, rows, exported, archives, expiries>>
  BY DEF RefuseExport
<1> HIDE DEF o
<1>3. Sound(o) /\ ~HasKey(o)
  BY <1>1, IdleIsSound
<1> QED BY <1>1, <1>2, <1>3, RequestMoves

\* A replay writes nothing; it answers what the record names.
LEMMA ReplayEnds ==
  ASSUME ExportsInv, NEW q \in ExportRequests, CommitExport(q), exporting[q].replay
  PROVE  ExportsInv'
<1> DEFINE req == exporting[q]
           o == [NoRequest EXCEPT !.at = "done"]
<1>1. o \in Exporting /\ o.at = "done"
  BY IdleRequest
<1>2. /\ exporting' = [exporting EXCEPT ![q] = o] /\ req.at = "made"
      /\ UNCHANGED <<moments, exportRecord, rows, exported, expiries>>
  BY DEF CommitExport, Records, Moves
<1>3. /\ req \in Exporting /\ req.key \in Keys /\ req.documents \subseteq rows[req.key]
  BY <1>2, RequestTyped DEF HasKey, Sound, Started, RowsOfReplay
<1>4. archives' \subseteq archives \cup {[key |-> req.key, documents |-> req.documents]}
  BY DEF CommitExport
<1>5. [key |-> req.key, documents |-> req.documents] \in [key : Keys, documents : SUBSET ExportDocs]
  BY <1>3 DEF Exporting
<1> HIDE DEF o, req
<1>6. ExportsTyped'
  BY <1>1, <1>2, <1>4, <1>5 DEF ExportsInv, ExportsTyped
<1>7. /\ exporting'[q] = o
      /\ \A p \in ExportRequests \ {q} : exporting'[p] = exporting[p]
  BY <1>2 DEF ExportsInv, ExportsTyped
<1>8. ~HasKey(o) /\ Sound(o)
  BY <1>1, IdleIsSound
<1>9. OneHolder'
  BY <1>7, <1>8 DEF ExportsInv, OneHolder, HasKey
<1>10. ASSUME NEW p \in ExportRequests PROVE Sound(exporting[p])'
  <2>1. Sound(exporting'[p])
    BY <1>7, <1>8 DEF ExportsInv
  <2>2. UNCHANGED <<moments, exportRecord, rows>>
    BY <1>2
  <2>3. SnapshotOf(exporting[p])'
    BY <2>1, <2>2 DEF Sound, HasKey, SnapshotOf, Selection, Hits, Current
  <2> QED BY <2>1, <2>2, <2>3 DEF Sound, HasKey, Started, ClaimStands, RowsOfReplay,
                                  RowsStayFree, Fresh
<1>11. Recorded' /\ ArchiveIsOneMoment'
  BY <1>2 DEF ExportsInv, Recorded, ArchiveIsOneMoment, Selection, Current
<1>12. RecordedOnce'
  BY <1>2, <1>3, <1>4 DEF ExportsInv, RecordedOnce
<1> QED BY <1>6, <1>9, <1>10, <1>11, <1>12 DEF ExportsInv

\* The first export of a key, or the first after its record expired: what it adds
\* was free, and stayed free, because the key was its own.
LEMMA FirstEnds ==
  ASSUME ExportsInv, NEW q \in ExportRequests, CommitExport(q), ~exporting[q].replay
  PROVE  ExportsInv'
<1> DEFINE req == exporting[q]
           o == [NoRequest EXCEPT !.at = "done"]
           known == [documents |-> req.documents, failures |-> req.failures]
           done == [key |-> req.key, documents |-> req.documents, failures |-> req.failures]
           answer == [key |-> req.key, documents |-> req.documents]
           added == [rows EXCEPT ![req.key] = @ \cup req.documents]
<1>1. o \in Exporting /\ o.at = "done"
  BY IdleRequest
<1>2. /\ exporting' = [exporting EXCEPT ![q] = o] /\ req.at = "made"
      /\ exportRecord' = [exportRecord EXCEPT ![req.key] = known]
      /\ rows' = added
      /\ exported' = Append(exported, done)
      /\ archives' \subseteq archives \cup {answer}
      /\ UNCHANGED <<moments, expiries>>
  BY DEF CommitExport, Records, Moves
<1>3. /\ req \in Exporting /\ Sound(req) /\ HasKey(req) /\ req.key \in Keys
      /\ req.moment \in 1 .. Len(moments)
  BY <1>2, RequestTyped DEF HasKey, Sound, Started
<1>4. /\ exportRecord[req.key] = NoExport
      /\ req.documents \cap rows[req.key] = {}
      /\ Asked[req.key].mode # "one" =>
            req.documents \cup req.failures = Selection(req.key, moments[req.moment])
  BY <1>2, <1>3 DEF Sound, ClaimStands, RowsStayFree, SnapshotOf
<1>5. /\ known \in Completion /\ known # NoExport /\ known.documents = req.documents
      /\ done \in Completed /\ done.key = req.key /\ done.documents = req.documents
      /\ done.failures = req.failures
      /\ answer \in [key : Keys, documents : SUBSET ExportDocs]
      /\ answer.key = req.key /\ answer.documents = req.documents
  BY <1>3, ExportsAssumption DEF Exporting, Completion, Completed, ExportDocs
<1>6. req.documents \in SUBSET ExportDocs
  BY <1>3 DEF Exporting
<1>7. /\ exporting \in [ExportRequests -> Exporting]
      /\ exportRecord \in [Keys -> Completion \cup {NoExport}]
      /\ rows \in [Keys -> SUBSET ExportDocs] /\ exported \in Seq(Completed)
      /\ archives \subseteq [key : Keys, documents : SUBSET ExportDocs]
      /\ expiries \in Nat
  BY DEF ExportsInv, ExportsTyped
<1> HIDE DEF o, req, known, done, answer
<1>8. /\ added \in [Keys -> SUBSET ExportDocs]
      /\ added[req.key] = rows[req.key] \cup req.documents
      /\ \A k \in Keys \ {req.key} : added[k] = rows[k]
      /\ \A k \in Keys : rows[k] \subseteq added[k]
  BY <1>3, <1>6, <1>7
<1> HIDE DEF added
<1>9. /\ exporting' \in [ExportRequests -> Exporting] /\ exporting'[q] = o
      /\ \A p \in ExportRequests \ {q} : exporting'[p] = exporting[p]
  BY <1>1, <1>2, <1>7
<1>10. /\ exportRecord' \in [Keys -> Completion \cup {NoExport}]
       /\ exportRecord'[req.key] = known
       /\ \A k \in Keys \ {req.key} : exportRecord'[k] = exportRecord[k]
  BY <1>2, <1>3, <1>5, <1>7
<1> PICK len \in Nat : len = Len(exported)
  BY <1>7
<1>11. /\ exported' \in Seq(Completed) /\ DOMAIN exported' = 1 .. len + 1
       /\ DOMAIN exported = 1 .. len
       /\ exported'[len + 1] = done
       /\ \A n \in 1 .. len : exported'[n] = exported[n]
  BY <1>2, <1>5, <1>7
<1>12. 1 .. len + 1 = (1 .. len) \cup {len + 1} /\ len + 1 \notin 1 .. len
  OBVIOUS
<1>13. ExportsTyped'
  BY <1>2, <1>5, <1>7, <1>8, <1>9, <1>10, <1>11 DEF ExportsInv, ExportsTyped
<1>14. ~HasKey(o) /\ Sound(o)
  BY <1>1, IdleIsSound
<1>15. OneHolder'
  BY <1>9, <1>14 DEF ExportsInv, OneHolder, HasKey
<1>16. ASSUME NEW p \in ExportRequests PROVE Sound(exporting[p])'
  <2>1. CASE p = q
    BY <1>1, <1>9, <2>1
    DEF Sound, HasKey, Started, ClaimStands, RowsOfReplay, RowsStayFree, Fresh, SnapshotOf
  <2>2. CASE p # q
    <3>1. exporting'[p] = exporting[p] /\ Sound(exporting[p])
      BY <1>9, <2>2 DEF ExportsInv
    <3>2. HasKey(exporting[p]) => exporting[p].key # req.key
      BY <1>3, <2>2 DEF ExportsInv, OneHolder, req
    <3>3. HasKey(exporting[p]) => exporting[p].key \in Keys
      BY <3>1 DEF Sound, Started
    <3> moments' = moments
      BY <1>2
    <3>4. (Started(exporting[p]) /\ Fresh(exporting[p]))'
      BY <3>1 DEF Sound, HasKey, Started, Fresh
    <3>7. SnapshotOf(exporting[p])'
      BY <3>1 DEF Sound, HasKey, SnapshotOf, Selection, Hits, Current
    <3>5. ClaimStands(exporting[p])'
      BY <1>10, <3>1, <3>2, <3>3 DEF Sound, HasKey, ClaimStands
    <3>6. (RowsOfReplay(exporting[p]) /\ RowsStayFree(exporting[p]))'
      BY <1>2, <1>8, <3>1, <3>2, <3>3 DEF Sound, HasKey, RowsOfReplay, RowsStayFree
    <3> QED BY <3>4, <3>5, <3>6, <3>7 DEF Sound
  <2> QED BY <2>1, <2>2
<1>17. Recorded'
  <2>1. ASSUME NEW k \in Keys, exportRecord'[k] # NoExport
        PROVE  exportRecord'[k].documents \subseteq rows'[k]
    BY <1>2, <1>5, <1>8, <1>10, <2>1 DEF ExportsInv, Recorded
  <2>2. ASSUME NEW n \in DOMAIN exported', exportRecord'[exported'[n].key] = NoExport
        PROVE  expiries' > 0
    <3>1. exported'[n].key # req.key
      BY <1>5, <1>10, <2>2
    <3>2. n \in 1 .. len /\ exported'[n] = exported[n]
      BY <1>5, <1>11, <1>12, <2>2, <3>1
    <3>3. exported[n] \in Completed
      BY <1>7, <1>11, <3>2
    <3>4. exportRecord[exported[n].key] = NoExport
      BY <1>10, <2>2, <3>1, <3>2, <3>3 DEF Completed
    <3>5. expiries' = expiries
      BY <1>2
    <3> QED BY <1>11, <3>2, <3>4, <3>5 DEF ExportsInv, Recorded
  <2> QED BY <2>1, <2>2 DEF Recorded
<1>18. ArchiveIsOneMoment'
  <2>1. SUFFICES ASSUME NEW n \in 1 .. len + 1, Asked[exported'[n].key].mode # "one"
                 PROVE  \E m \in DOMAIN moments :
                           exported'[n].documents \cup exported'[n].failures
                              = Selection(exported'[n].key, moments[m])
    <3>1. moments' = moments /\ DOMAIN exported' = 1 .. len + 1
      BY <1>2, <1>11
    <3> QED BY <3>1 DEF ArchiveIsOneMoment, Selection, Current
  <2>2. CASE n = len + 1
    <3>1. req.moment \in DOMAIN moments
      BY <1>3, RequestTyped
    <3> QED BY <1>4, <1>5, <1>11, <2>1, <2>2, <3>1
  <2>3. CASE n \in 1 .. len
    BY <1>11, <2>1, <2>3 DEF ExportsInv, ArchiveIsOneMoment
  <2> QED BY <1>12, <2>1, <2>2, <2>3
<1>19. RecordedOnce'
  <2>0. RecordedOnce
    BY DEF ExportsInv
  <2>1. \A n \in 1 .. len : exported[n].key \in Keys
                           /\ exported[n].documents \subseteq rows[exported[n].key]
    <3>1. TAKE n \in 1 .. len
    <3>2. exported[n] \in Completed /\ n \in DOMAIN exported
      BY <1>7, <1>11
    <3>3. exported[n].key \in Keys
      BY <3>2 DEF Completed
    <3>4. rows[exported[n].key] = UNION {exported[m].documents : m \in
             {j \in DOMAIN exported : exported[j].key = exported[n].key}}
      BY <2>0, <3>3 DEF RecordedOnce
    <3> QED BY <3>2, <3>3, <3>4
  <2>2. ASSUME NEW n \in 1 .. len, exported[n].key = req.key
        PROVE  expiries > 0 /\ exported[n].documents \cap req.documents = {}
    BY <1>4, <1>11, <2>1, <2>2 DEF ExportsInv, Recorded
  <2>3. ASSUME NEW n \in 1 .. len + 1, NEW m \in 1 .. len + 1, n # m,
               exported'[n].key = exported'[m].key
        PROVE  expiries > 0 /\ exported'[n].documents \cap exported'[m].documents = {}
    <3>1. CASE n \in 1 .. len /\ m \in 1 .. len
      BY <1>11, <2>0, <2>3, <3>1 DEF RecordedOnce
    <3>2. CASE n = len + 1 /\ m \in 1 .. len
      BY <1>5, <1>11, <2>2, <2>3, <3>2
    <3>3. CASE m = len + 1 /\ n \in 1 .. len
      BY <1>5, <1>11, <2>2, <2>3, <3>3
    <3> QED BY <1>12, <2>3, <3>1, <3>2, <3>3
  <2>4. ASSUME NEW k \in Keys
        PROVE  rows'[k] = UNION {exported'[n].documents : n \in {m \in DOMAIN exported' :
                                                                    exported'[m].key = k}}
    <3>1. rows[k] = UNION {exported[n].documents : n \in {m \in DOMAIN exported :
                                                             exported[m].key = k}}
      BY <2>0 DEF RecordedOnce
    <3>2. \A d : d \in rows[k] <=>
                   \E n \in 1 .. len : exported[n].key = k /\ d \in exported[n].documents
      BY <1>11, <3>1
    <3>3. \A d : d \in rows'[k] <=> d \in rows[k] \/ (k = req.key /\ d \in req.documents)
      BY <1>2, <1>8
    <3>4. \A d : d \in rows'[k] <=>
                   \E n \in 1 .. len + 1 : exported'[n].key = k /\ d \in exported'[n].documents
      BY <1>5, <1>11, <1>12, <3>2, <3>3
    <3> QED BY <1>11, <3>4
  <2>5. ASSUME NEW a \in archives' PROVE a.documents \subseteq rows'[a.key]
    <3>1. CASE a \in archives
      BY <1>2, <1>7, <1>8, <2>0, <3>1 DEF RecordedOnce
    <3>2. CASE a = answer
      BY <1>2, <1>5, <1>8, <3>2
    <3> QED BY <1>2, <2>5, <3>1, <3>2
  <2> QED BY <1>2, <1>11, <2>3, <2>4, <2>5 DEF RecordedOnce
<1> QED BY <1>13, <1>15, <1>16, <1>17, <1>18, <1>19 DEF ExportsInv

LEMMA ExpireKeeps ==
  ASSUME ExportsInv, NEW k \in Keys, ExpireRecord(k)
  PROVE  ExportsInv'
<1>1. /\ exportRecord' = [exportRecord EXCEPT ![k] = NoExport] /\ expiries' = expiries + 1
      /\ UNCHANGED <<moments, exporting, rows, exported, archives>>
  BY DEF ExpireRecord
<1>2. exportRecord \in [Keys -> Completion \cup {NoExport}] /\ expiries \in Nat
  BY DEF ExportsInv, ExportsTyped
<1>3. /\ exportRecord' \in [Keys -> Completion \cup {NoExport}] /\ exportRecord'[k] = NoExport
      /\ \A j \in Keys \ {k} : exportRecord'[j] = exportRecord[j]
      /\ expiries' \in Nat /\ expiries' > 0
  BY <1>1, <1>2
<1>4. ExportsTyped'
  BY <1>1, <1>3 DEF ExportsInv, ExportsTyped
<1>5. ASSUME NEW p \in ExportRequests PROVE Sound(exporting[p])'
  <2>1. Sound(exporting[p])
    BY DEF ExportsInv
  <2>2. (Started(exporting[p]) /\ RowsOfReplay(exporting[p]) /\ RowsStayFree(exporting[p])
         /\ Fresh(exporting[p]) /\ SnapshotOf(exporting[p]))'
    BY <1>1, <2>1
       DEF Sound, HasKey, Started, RowsOfReplay, RowsStayFree, Fresh, SnapshotOf,
                      Selection, Hits, Current
  <2>3. ClaimStands(exporting[p])'
    BY <1>1, <1>3, <2>1 DEF Sound, HasKey, ClaimStands, Started
  <2> QED BY <2>2, <2>3 DEF Sound
<1>6. OneHolder' /\ ArchiveIsOneMoment'
  BY <1>1 DEF ExportsInv, OneHolder, HasKey, ArchiveIsOneMoment, Selection, Current
<1>7. Recorded'
  BY <1>1, <1>3 DEF ExportsInv, Recorded
<1>8. RecordedOnce'
  BY <1>1, <1>3 DEF ExportsInv, RecordedOnce
<1> QED BY <1>4, <1>5, <1>6, <1>7, <1>8 DEF ExportsInv

LEMMA ReportRevisedKeeps ==
  ASSUME ExportsInv, NEW r \in ExportReports, ReviseReport(r)
  PROVE  ExportsInv'
<1>1. /\ UNCHANGED <<exporting, exportRecord, rows, exported, archives, expiries>>
      /\ \E m \in BOOLEAN : moments' = Append(moments,
                              [Now EXCEPT ![r] = [revision |-> @.revision + 1, matches |-> m]])
  BY DEF ReviseReport
<1>2. moments \in Seq(Moment) /\ Len(moments) >= 1
  BY DEF ExportsInv, ExportsTyped
<1>3. Now \in Moment
  BY <1>2 DEF Now
<1>4. PICK b \in Moment : moments' = Append(moments, b)
  <2>1. PICK m \in BOOLEAN : moments' = Append(moments,
                              [Now EXCEPT ![r] = [revision |-> @.revision + 1, matches |-> m]])
    BY <1>1
  <2>2. [Now EXCEPT ![r] = [revision |-> @.revision + 1, matches |-> m]] \in Moment
    BY <1>3 DEF Moment
  <2> QED BY <2>1, <2>2
<1>5. /\ moments' \in Seq(Moment) /\ Len(moments') >= 1
      /\ \A m \in 1 .. Len(moments) : m \in 1 .. Len(moments') /\ moments'[m] = moments[m]
      /\ DOMAIN moments = 1 .. Len(moments) /\ DOMAIN moments' = 1 .. Len(moments')
  BY <1>2, <1>4
<1>6. ExportsTyped'
  BY <1>1, <1>5 DEF ExportsInv, ExportsTyped
<1>7. ASSUME NEW p \in ExportRequests PROVE Sound(exporting[p])'
  <2>1. Sound(exporting[p])
    BY DEF ExportsInv
  <2>2. (ClaimStands(exporting[p]) /\ RowsOfReplay(exporting[p]) /\ RowsStayFree(exporting[p])
         /\ Fresh(exporting[p]))'
    BY <1>1, <2>1 DEF Sound, HasKey, ClaimStands, RowsOfReplay, RowsStayFree, Fresh
  <2>3. Started(exporting[p])'
    BY <1>1, <1>5, <2>1 DEF Sound, HasKey, Started
  <2>4. SnapshotOf(exporting[p])'
    <3>1. HasKey(exporting[p]) => moments'[exporting[p].moment] = moments[exporting[p].moment]
      BY <1>5, <2>1 DEF Sound, Started
    <3> QED BY <1>1, <2>1, <3>1 DEF Sound, HasKey, SnapshotOf, Selection, Hits, Current
  <2> QED BY <2>2, <2>3, <2>4 DEF Sound
<1>8. OneHolder' /\ Recorded' /\ RecordedOnce'
  BY <1>1 DEF ExportsInv, OneHolder, HasKey, Recorded, RecordedOnce
<1>9. ArchiveIsOneMoment'
  <2>1. SUFFICES ASSUME NEW n \in DOMAIN exported, Asked[exported[n].key].mode # "one"
                 PROVE  \E m \in DOMAIN moments' :
                           exported[n].documents \cup exported[n].failures
                              = Selection(exported[n].key, moments'[m])
    BY <1>1 DEF ArchiveIsOneMoment, Selection, Current
  <2>2. PICK m \in DOMAIN moments : exported[n].documents \cup exported[n].failures
                                       = Selection(exported[n].key, moments[m])
    BY <2>1 DEF ExportsInv, ArchiveIsOneMoment
  <2> QED BY <1>5, <2>2
<1> QED BY <1>6, <1>7, <1>8, <1>9 DEF ExportsInv

LEMMA ExportsNextInv == ExportsInv /\ [ExportsNext]_exportVars => ExportsInv'
<1> SUFFICES ASSUME ExportsInv, [ExportsNext]_exportVars PROVE ExportsInv'
  OBVIOUS
<1>1. ASSUME UNCHANGED exportVars PROVE ExportsInv'
  <2> USE <1>1 DEF exportVars
  <2>1. ExportsTyped' /\ OneHolder' /\ Recorded' /\ RecordedOnce'
    BY DEF ExportsInv, ExportsTyped, OneHolder, HasKey, Recorded, RecordedOnce
  <2>2. ArchiveIsOneMoment'
    BY DEF ExportsInv, ArchiveIsOneMoment, Selection, Current
  <2>3. ASSUME NEW p \in ExportRequests PROVE Sound(exporting[p])'
    <3>1. Sound(exporting[p])
      BY DEF ExportsInv
    <3>2. SnapshotOf(exporting[p])'
      BY <3>1 DEF Sound, HasKey, SnapshotOf, Selection, Hits, Current
    <3> QED BY <3>1, <3>2 DEF Sound, HasKey, Started, ClaimStands, RowsOfReplay, RowsStayFree,
                              Fresh
  <2> QED BY <2>1, <2>2, <2>3 DEF ExportsInv
<1>2. ASSUME NEW q \in ExportRequests, CommitExport(q) PROVE ExportsInv'
  BY <1>2, ReplayEnds, FirstEnds
<1> QED
  BY <1>1, <1>2, BeginKeeps, ClaimKeeps, FindKeeps, LoadKeeps, MakeKeeps,
     RefuseKeeps,
     ExpireKeeps, ReportRevisedKeeps DEF ExportsNext

\* An archive answers one point in time, although it is put together by several
\* statements while reports are saved (REPEATABLE READ in bulk_export_route).
THEOREM ArchivesAreOneMoment == ExportsSpec => []ArchiveIsOneMoment
<1>1. ExportsInv => ArchiveIsOneMoment
  BY DEF ExportsInv
<1> QED BY <1>1, ExportsInitInv, ExportsNextInv, PTL DEF ExportsSpec

\* Every document that leaves under a key is recorded under it, once, however
\* often the request is sent (claim_idempotency and the derived row ids).
THEOREM ExportsRecordOnce == ExportsSpec => []RecordedOnce
<1>1. ExportsInv => RecordedOnce
  BY DEF ExportsInv
<1> QED BY <1>1, ExportsInitInv, ExportsNextInv, PTL DEF ExportsSpec

-----------------------------------------------------------------------------
(* ReportGeneration: any notes, drafts, people, rules and number of passes. *)
(* Each pass replaces the whole result, and nothing else does (PassesAre). *)

\* A combination of two sets of reports has the kinds of both.
LEMMA CombinedKinds ==
  ASSUME NEW f, NEW g
  PROVE  DOMAIN Over(f, g) = DOMAIN f \cup DOMAIN g
  BY DEF Over

\* What _finalize_generation makes, whatever it is given: its flags are those of
\* all its texts, its kinds those of the drafts and of what is carried over.
LEMMA Finalized ==
  ASSUME NEW carried, NEW drafts, NEW errors, NEW isDeferred, NEW name
  PROVE  LET f == Finalize(carried, drafts, errors, isDeferred, name) IN
         /\ DOMAIN f.texts = DOMAIN drafts \cup DOMAIN carried
         /\ \A k \in DOMAIN f.texts : Invented(f.texts[k], f.sources) \subseteq f.flags
         /\ f.blocking # {} => f.flags # {}
         /\ wizard.notes.written /\ f.flags # {} => f.blocking # {}
<1> DEFINE raw == Over([k \in DOMAIN drafts |-> Written(drafts[k])], carried)
           texts == [k \in DOMAIN raw |-> Repair(raw[k])]
           flags == UNION {Invented(texts[k], Sources) : k \in DOMAIN texts}
           blocking == {k \in DOMAIN texts : "RW-030" \in BlockingRules(texts[k], Sources)}
           f == Finalize(carried, drafts, errors, isDeferred, name)
<1>1. f.texts = texts /\ f.flags = flags /\ f.blocking = blocking /\ f.sources = Sources
  BY Zenon DEF Finalize
<1>2. DOMAIN texts = DOMAIN drafts \cup DOMAIN carried
  <2>1. DOMAIN raw = DOMAIN [k \in DOMAIN drafts |-> Written(drafts[k])] \cup DOMAIN carried
    BY CombinedKinds
  <2> HIDE DEF raw
  <2> QED BY <2>1
<1> HIDE DEF texts, f
<1>3. \A k \in DOMAIN texts :
         "RW-030" \in BlockingRules(texts[k], Sources)
            <=> wizard.notes.written /\ Invented(texts[k], Sources) # {}
  <2>1. SUFFICES ASSUME NEW k \in DOMAIN texts
                 PROVE  "RW-030" \in BlockingRules(texts[k], Sources)
                           <=> wizard.notes.written /\ Invented(texts[k], Sources) # {}
    OBVIOUS
  <2>2. CASE texts[k] = <<>>
    BY <2>2 DEF BlockingRules, Invented, Range
  <2>3. CASE texts[k] # <<>>
    BY <2>3 DEF BlockingRules
  <2> QED BY <2>2, <2>3
<1>4. /\ blocking # {} => flags # {}
      /\ wizard.notes.written /\ flags # {} => blocking # {}
  BY <1>3
<1>5. \A k \in DOMAIN texts : Invented(texts[k], Sources) \subseteq flags
  OBVIOUS
<1> HIDE DEF flags, blocking
<1> QED BY <1>1, <1>2, <1>4, <1>5 DEF f

\* The supplement is no report of the batch.
LEMMA BatchHasNoSupplement == "disciplinary" \notin BatchOf /\ "disciplinary" \notin BatchKinds
  BY DEF BatchOf, BatchKinds

\* The wizard keeps its notes.
WizardOK == {"notes", "phase"} \subseteq DOMAIN wizard /\ wizard.notes \in NotesSeen

LEMMA NotesStay ==
  ASSUME WizardOK, [GenNext]_genVars
  PROVE  WizardOK' /\ wizard'.notes = wizard.notes
<1>1. CASE GenClassify \/ GenRefuseClassification \/ GenExtract \/ GenLose \/ UNCHANGED genVars
  BY <1>1 DEF WizardOK, GenClassify, GenRefuseClassification, GenExtract, GenLose, Move, genVars
<1>2. ASSUME NEW answers, NEW name, NEW confirmed,
             GenAnswer(answers, name, confirmed) \/ GenConfirm(confirmed)
      PROVE  WizardOK' /\ wizard'.notes = wizard.notes
  BY <1>2 DEF WizardOK, GenAnswer, GenConfirm
<1>3. ASSUME NEW i, GenTap(i) PROVE WizardOK' /\ wizard'.notes = wizard.notes
  BY <1>3 DEF WizardOK, GenTap
<1>4. ASSUME NEW drafts, GenGenerate(drafts) PROVE WizardOK' /\ wizard'.notes = wizard.notes
  BY <1>4 DEF WizardOK, GenGenerate
<1>5. ASSUME NEW draft, GenSupplement(draft) PROVE WizardOK' /\ wizard'.notes = wizard.notes
  BY <1>5 DEF WizardOK, GenSupplement, Move
<1>6. ASSUME NEW done, NEW wanted, GenJobEnds(done, wanted)
      PROVE  WizardOK' /\ wizard'.notes = wizard.notes
  BY <1>6 DEF WizardOK, GenJobEnds, Move
<1> QED BY <1>1, <1>2, <1>3, <1>4, <1>5, <1>6 DEF GenNext, GenJob, GenSupplementJob

\* A pass over drafts and over reports of the result, or empty ones, carried along.
Pass(carried, drafts) ==
    /\ \E errors, isDeferred, name :
          outcome' = Finalize(carried, drafts, errors, isDeferred, name)
    /\ \A k \in DOMAIN drafts : drafts[k] \in Drafts \cup {Failed}
    /\ \A k \in DOMAIN carried : IF k \in DOMAIN outcome.texts THEN carried[k] = outcome.texts[k]
                                 ELSE carried[k] = <<>>

\* The result is replaced by a pass, emptied for another officer, or left alone.
LEMMA PassesAre ==
  ASSUME [GenNext]_genVars
  PROVE  \/ outcome' = outcome \/ outcome' = NoOutcome
         \/ \E carried, drafts : Pass(carried, drafts)
<1>1. ASSUME NEW drafts \in [BatchOf -> Drafts \cup {Failed}], GenGenerate(drafts)
      PROVE  Pass(<<>>, drafts)
  BY <1>1 DEF GenGenerate, Pass
<1>2. ASSUME NEW draft \in Drafts \cup {Failed}, GenSupplement(draft)
      PROVE  \E carried, drafts : Pass(carried, drafts)
  <2> DEFINE drafts == SupplementDraft(draft)
             carried == [k \in DOMAIN outcome.texts \cap Resumable |-> outcome.texts[k]]
  <2>1. outcome' = Finalize(carried, drafts, FailedOf(drafts), FALSE, "second")
    BY <1>2 DEF GenSupplement
  <2>2. \A k \in DOMAIN drafts : drafts[k] \in Drafts \cup {Failed}
    BY DEF SupplementDraft
  <2>3. \A k \in DOMAIN carried : k \in DOMAIN outcome.texts /\ carried[k] = outcome.texts[k]
    OBVIOUS
  <2> HIDE DEF drafts, carried
  <2>4. Pass(carried, drafts)
    BY <2>1, <2>2, <2>3 DEF Pass
  <2> QED BY <2>4
<1>3. ASSUME NEW S, NEW drafts \in [S -> Drafts \cup {Failed}], GenJob(drafts)
      PROVE  outcome' = outcome \/ Pass(<<>>, drafts)
  <2>1. \/ outcome' = outcome
        \/ outcome' = Finalize(<<>>, drafts, FailedOf(drafts), FALSE, "job")
    BY <1>3 DEF GenJob, GenJobEnds
  <2>2. DOMAIN <<>> = {} /\ DOMAIN drafts = S
    OBVIOUS
  <2>3. \A k \in DOMAIN drafts : drafts[k] \in Drafts \cup {Failed}
    BY <1>3
  <2> QED BY <2>1, <2>2, <2>3, Zenon DEF Pass
<1>4. ASSUME NEW draft \in Drafts \cup {Failed}, GenSupplementJob(draft)
      PROVE  outcome' = outcome \/ \E carried, drafts : Pass(carried, drafts)
  <2> DEFINE drafts == SupplementDraft(draft)
             told == IF "first_person" \in DOMAIN outcome.texts
                     THEN outcome.texts["first_person"] ELSE <<>>
             carried == [k \in {"first_person"} |-> told]
  <2>1. \/ outcome' = outcome
        \/ outcome' = Finalize(carried, drafts, FailedOf(drafts), FALSE, "supplement job")
    BY <1>4 DEF GenSupplementJob, GenJobEnds
  <2>2. \A k \in DOMAIN drafts : drafts[k] \in Drafts \cup {Failed}
    BY DEF SupplementDraft
  <2>3. \A k \in DOMAIN carried :
           IF k \in DOMAIN outcome.texts THEN carried[k] = outcome.texts[k] ELSE carried[k] = <<>>
    OBVIOUS
  <2> HIDE DEF drafts, carried
  <2>4. outcome' = outcome \/ Pass(carried, drafts)
    BY <2>1, <2>2, <2>3 DEF Pass
  <2> QED BY <2>4
<1>5. ASSUME \/ GenClassify \/ GenRefuseClassification \/ GenExtract \/ GenLose
             \/ \E answers \in Answers, name \in Officers \cup {Nobody},
                   confirmed \in SUBSET Charges : GenAnswer(answers, name, confirmed)
             \/ \E confirmed \in SUBSET Charges : GenConfirm(confirmed)
             \/ UNCHANGED genVars
      PROVE  outcome' = outcome
  BY <1>5
     DEF GenClassify, GenRefuseClassification, GenExtract, GenLose, GenAnswer,
         GenConfirm, genVars
<1>6. ASSUME NEW i, GenTap(i) PROVE outcome' = NoOutcome
  BY <1>6 DEF GenTap
<1> QED BY <1>1, <1>2, <1>3, <1>4, <1>5, <1>6 DEF GenNext

LEMMA NextFlags ==
  ASSUME WizardOK, InventedIsFlagged, [GenNext]_genVars
  PROVE  InventedIsFlagged'
<1>1. wizard'.notes = wizard.notes
  BY NotesStay
<1>2. CASE outcome' = outcome
  BY <1>1, <1>2 DEF InventedIsFlagged
<1>3. CASE outcome' = NoOutcome
  BY <1>3 DEF InventedIsFlagged, NoOutcome
<1>4. ASSUME NEW carried, NEW drafts, Pass(carried, drafts) PROVE InventedIsFlagged'
  <2>1. PICK errors, isDeferred, name :
           outcome' = Finalize(carried, drafts, errors, isDeferred, name)
    BY <1>4 DEF Pass
  <2> DEFINE f == Finalize(carried, drafts, errors, isDeferred, name)
  <2>2. /\ \A k \in DOMAIN f.texts : Invented(f.texts[k], f.sources) \subseteq f.flags
        /\ f.blocking # {} => f.flags # {}
        /\ wizard.notes.written /\ f.flags # {} => f.blocking # {}
    BY Finalized
  <2>3. outcome' = f
    BY <2>1
  <2> HIDE DEF f
  <2> QED BY <1>1, <2>2, <2>3 DEF InventedIsFlagged
<1> QED BY <1>2, <1>3, <1>4, PassesAre

LEMMA InitWizard == GenInit => WizardOK
  BY DEF GenInit, WizardOK

\* Whatever the models write and whichever pass or job wrote last, an invented
\* fact of a report is flagged, and where there are notes the style rules stop a
\* report exactly when something is flagged (_finalize_generation, RW-030).
THEOREM InventionsAreFlagged == GenSpec => []InventedIsFlagged
<1> DEFINE I == WizardOK /\ InventedIsFlagged
<1>1. GenInit => I
  BY InitWizard DEF GenInit, NoOutcome, InventedIsFlagged
<1>2. I /\ [GenNext]_genVars => I'
  BY NotesStay, NextFlags
<1>3. I => InventedIsFlagged
  OBVIOUS
<1> HIDE DEF I
<1> QED BY <1>1, <1>2, <1>3, PTL DEF GenSpec

-----------------------------------------------------------------------------
(* Listings: any rows, readers, lists, walks and edits.                      *)
(*                                                                         *)
(* A page takes the rows of the smallest ranks behind the cursor, and the  *)
(* cursor is the last of them (PageIsWhole); since a row nobody touches    *)
(* keeps its sort key, what is behind the cursor is what has not been      *)
(* shown (Walked).                                                         *)

SortKeys == [time : Times, id : Entries]

Walk == [at : {"closed", "reading", "done", "failed"}, list : Lists \cup {NoList},
         reader : Readers \cup {NoList}, cursor : SortKeys \cup {NoList},
         shown : Seq(Entries), due : SUBSET Entries, touched : SUBSET Entries]

Occurs(s, i) == \E k \in 1 .. Len(s) : s[k] = i
OnceIn(s, i) == \A a, b \in 1 .. Len(s) : s[a] = i /\ s[b] = i => a = b

TableTyped == table \in [Entries -> ListedRow]
WalksTyped == pass \in [Passes -> Walk]

\* what a walk has shown of the rows nobody touched
Walked(w) ==
    /\ w.at = "closed" => w.shown = <<>> /\ w.cursor = NoList
    /\ \A i \in Entries \ w.touched : OnceIn(w.shown, i)
    /\ w.at = "reading" =>
          /\ w.list \in Lists /\ w.reader \in Readers /\ w.cursor \in SortKeys
          /\ \A i \in Entries \ w.touched :
                /\ i \in RowsOf(w.list, w.reader) <=> i \in w.due
                /\ Occurs(w.shown, i) <=>
                      i \in w.due /\ ~ComesAfter(w.list, SortKey(w.list, i), w.cursor)
    /\ w.at = "done" => \A i \in Entries \ w.touched : Occurs(w.shown, i) <=> i \in w.due

ListInv == TableTyped /\ WalksTyped /\ \A p \in Passes : Walked(pass[p])

LEMMA KeyTyped ==
  ASSUME TableTyped, NEW list, NEW i \in Entries
  PROVE  SortKey(list, i) \in SortKeys /\ SortKey(list, i).id = i
  BY DEF TableTyped, ListedRow, SortKey, SortKeys

\* The rows of a list are ordered strictly and totally.
LEMMA OrderIsStrict ==
  ASSUME NEW list, NEW a \in SortKeys, NEW b \in SortKeys, NEW c \in SortKeys
  PROVE  /\ ~ComesAfter(list, a, a)
         /\ ComesAfter(list, a, b) /\ ComesAfter(list, b, c) => ComesAfter(list, a, c)
         /\ a.id # b.id => ComesAfter(list, a, b) \/ ComesAfter(list, b, a)
  <1>1. /\ a.time \in Nat /\ a.id \in Nat /\ b.time \in Nat /\ b.id \in Nat
        /\ c.time \in Nat /\ c.id \in Nat
    BY ListingsAssumption DEF SortKeys
  <1> QED BY <1>1 DEF ComesAfter

\* the rows of a page's query that come before row i
Before(list, query, i) ==
    {j \in query : ComesAfter(list, SortKey(list, i), SortKey(list, j))}
RankOf(list, query, i) == Cardinality(Before(list, query, i))

\* A row that comes after another has the larger rank.
LEMMA RankGrows ==
  ASSUME TableTyped, NEW list, NEW query \in SUBSET Entries, NEW i \in query, NEW j \in query,
         ComesAfter(list, SortKey(list, i), SortKey(list, j))
  PROVE  RankOf(list, query, j) < RankOf(list, query, i)
  <1>1. /\ Before(list, query, j) \subseteq Before(list, query, i)
        /\ j \in Before(list, query, i) /\ j \notin Before(list, query, j)
    <2>1. \A k \in query : SortKey(list, k) \in SortKeys
      BY KeyTyped
    <2>2. ~ComesAfter(list, SortKey(list, j), SortKey(list, j))
      BY <2>1, OrderIsStrict
    <2>3. ASSUME NEW k \in query, ComesAfter(list, SortKey(list, j), SortKey(list, k))
          PROVE  ComesAfter(list, SortKey(list, i), SortKey(list, k))
      BY <2>1, <2>3, OrderIsStrict
    <2> QED BY <2>2, <2>3 DEF Before
  <1>2. IsFiniteSet(Before(list, query, i))
    BY ListingsAssumption, FS_Subset DEF Before
  <1>3. /\ Cardinality(Before(list, query, j)) \in Nat
        /\ Cardinality(Before(list, query, i)) \in Nat
        /\ Cardinality(Before(list, query, j)) <= Cardinality(Before(list, query, i))
        /\ Cardinality(Before(list, query, j)) # Cardinality(Before(list, query, i))
    BY <1>1, <1>2, FS_Subset, FS_CardinalityType
  <1> QED BY <1>3 DEF RankOf

\* Ranks are distinct and, by counting, all numbers below the number of rows.
LEMMA RanksAreAll ==
  ASSUME TableTyped, NEW list, NEW query \in SUBSET Entries
  PROVE  /\ IsFiniteSet(query) /\ Cardinality(query) \in Nat
         /\ \A i \in query : RankOf(list, query, i) \in 0 .. (Cardinality(query) - 1)
         /\ \A i, j \in query : RankOf(list, query, i) = RankOf(list, query, j) => i = j
         /\ \A k \in 0 .. (Cardinality(query) - 1) : \E i \in query : RankOf(list, query, i) = k
  <1> DEFINE n == Cardinality(query)
             f == [i \in query |-> RankOf(list, query, i)]
  <1>1. IsFiniteSet(query) /\ n \in Nat
    BY ListingsAssumption, FS_Subset, FS_CardinalityType
  <1>2. ASSUME NEW i \in query PROVE RankOf(list, query, i) \in 0 .. (n - 1)
    <2>1. Before(list, query, i) \in SUBSET query /\ i \notin Before(list, query, i)
      BY KeyTyped, OrderIsStrict DEF Before
    <2>2. /\ IsFiniteSet(Before(list, query, i))
          /\ Cardinality(Before(list, query, i)) <= n
          /\ Cardinality(Before(list, query, i)) # n
      BY <1>1, <2>1, FS_Subset
    <2>3. Cardinality(Before(list, query, i)) \in Nat
      BY <2>2, FS_CardinalityType
    <2> QED BY <1>1, <2>2, <2>3 DEF RankOf
  <1>3. ASSUME NEW i \in query, NEW j \in query, RankOf(list, query, i) = RankOf(list, query, j)
        PROVE  i = j
    <2>1. RankOf(list, query, i) \in Nat
      BY <1>2
    <2>2. /\ SortKey(list, i) \in SortKeys /\ SortKey(list, i).id = i
          /\ SortKey(list, j) \in SortKeys /\ SortKey(list, j).id = j
      BY KeyTyped
    <2>3. /\ ~ComesAfter(list, SortKey(list, i), SortKey(list, j))
          /\ ~ComesAfter(list, SortKey(list, j), SortKey(list, i))
      BY <1>3, <2>1, RankGrows
    <2> QED BY <2>2, <2>3, OrderIsStrict
  <1>4. f \in Injection(query, 0 .. (n - 1))
    BY <1>2, <1>3 DEF Injection, IsInjective
  <1>5. IsFiniteSet(0 .. (n - 1)) /\ Cardinality(0 .. (n - 1)) = n
    BY <1>1, FS_Interval
  <1>6. f \in Surjection(query, 0 .. (n - 1))
    BY <1>4, <1>5, FS_Injection
  <1>7. \A k \in 0 .. (n - 1) : \E i \in query : RankOf(list, query, i) = k
    BY <1>6 DEF Surjection
  <1> QED BY <1>1, <1>2, <1>3, <1>7

\* The first rows of a query, in order: each once, and those of small rank.
LEMMA FirstRowsAre ==
  ASSUME TableTyped, NEW list, NEW query \in SUBSET Entries, NEW n \in Nat
  PROVE  LET got == FirstRows(list, query, n)
             size == IF Cardinality(query) < n THEN Cardinality(query) ELSE n
         IN  /\ got \in Seq(query) /\ Len(got) = size /\ size \in Nat
             /\ \A k \in 1 .. size : got[k] \in query /\ RankOf(list, query, got[k]) = k - 1
  <1> DEFINE c == Cardinality(query)
             size == IF c < n THEN c ELSE n
             got == [k \in 1 .. size |-> CHOOSE i \in query : RankOf(list, query, i) = k - 1]
  <1>1. c \in Nat /\ size \in Nat /\ size <= c
    BY RanksAreAll
  <1>2. ASSUME NEW k \in 1 .. size
        PROVE  got[k] \in query /\ RankOf(list, query, got[k]) = k - 1
    <2>1. k - 1 \in 0 .. (c - 1)
      BY <1>1
    <2>2. \E i \in query : RankOf(list, query, i) = k - 1
      BY <2>1, RanksAreAll
    <2> QED BY <2>2
  <1>3. got = FirstRows(list, query, n)
    BY DEF FirstRows, RankOf, Before
  <1>4. got \in [1 .. size -> query]
    BY <1>2
  <1> HIDE DEF got
  <1>5. got \in Seq(query) /\ Len(got) = size
    <2> HIDE DEF size
    <2> QED BY <1>1, <1>4
  <1> QED BY <1>1, <1>2, <1>3, <1>5

\* The first rows of a query's answer are its first elements.
LEMMA FirstOf ==
  ASSUME NEW S, NEW s \in Seq(S), NEW n \in Nat, n <= Len(s)
  PROVE  /\ SubSeq(s, 1, n) \in Seq(S) /\ Len(SubSeq(s, 1, n)) = n
         /\ \A k \in 1 .. n : SubSeq(s, 1, n)[k] = s[k]
  OBVIOUS

\* what one request reads, and what it shows of it
Got(list, query)  == FirstRows(list, query, PageSize + 1)
More(list, query) == Len(Got(list, query)) > PageSize
Page(list, query) == IF More(list, query) THEN SubSeq(Got(list, query), 1, PageSize)
                    ELSE Got(list, query)

\* A page shows each of its rows once; they are those not behind its cursor,
\* which is the key of one of them.
LEMMA PageIsWhole ==
  ASSUME TableTyped, NEW list, NEW query \in SUBSET Entries
  PROVE  LET page == Page(list, query)
             cursor == CursorOf(list, Got(list, query))
         IN  /\ page \in Seq(query)
             /\ \A i : OnceIn(page, i)
             /\ ~More(list, query) => \A i \in query : Occurs(page, i)
             /\ More(list, query) =>
                   /\ \E i \in query : cursor = SortKey(list, i)
                   /\ \A i \in query : Occurs(page, i)
                                         <=> ~ComesAfter(list, SortKey(list, i), cursor)
  <1> DEFINE got == Got(list, query)
             page == Page(list, query)
             c == Cardinality(query)
             m == IF More(list, query) THEN PageSize ELSE c
  <1>1. PageSize \in Nat /\ PageSize > 0 /\ PageSize + 1 \in Nat
    <2>1. PageSize \in Nat \ {0}
      BY ListingsAssumption
    <2> QED BY <2>1
  <1>2. /\ got \in Seq(query) /\ c \in Nat
        /\ Len(got) = (IF c < PageSize + 1 THEN c ELSE PageSize + 1)
        /\ \A k \in 1 .. Len(got) : got[k] \in query /\ RankOf(list, query, got[k]) = k - 1
    BY <1>1, FirstRowsAre, RanksAreAll DEF Got
  <1>3. /\ More(list, query) => c > PageSize /\ Len(got) = PageSize + 1
        /\ ~More(list, query) => c <= PageSize /\ Len(got) = c
    BY <1>1, <1>2 DEF More
  <1> HIDE DEF got
  <1>4. /\ page \in Seq(query) /\ Len(page) = m /\ m \in Nat /\ m <= c
        /\ \A k \in 1 .. m : page[k] = got[k] /\ k \in 1 .. Len(got)
    <2>1. CASE More(list, query)
      <3>1. page = SubSeq(got, 1, PageSize)
        BY <2>1 DEF Page, got
      <3>2. /\ page \in Seq(query) /\ Len(page) = PageSize
            /\ \A k \in 1 .. PageSize : page[k] = got[k]
        BY <1>1, <1>2, <1>3, <2>1, <3>1, FirstOf
      <3>3. m = PageSize /\ PageSize <= c /\ PageSize <= Len(got)
        BY <1>1, <1>2, <1>3, <2>1
      <3> HIDE DEF m, c, page
      <3> QED BY <1>1, <3>2, <3>3
    <2>2. CASE ~More(list, query)
      BY <1>2, <1>3, <2>2 DEF Page, got
    <2> QED BY <2>1, <2>2
  <1> HIDE DEF page
  <1>5. \A k \in 1 .. m : page[k] \in query /\ RankOf(list, query, page[k]) = k - 1
    BY <1>2, <1>4
  <1>6. ASSUME NEW i PROVE OnceIn(page, i)
    BY <1>4, <1>5 DEF OnceIn
  <1>7. ASSUME NEW i \in query
        PROVE  Occurs(page, i) <=> RankOf(list, query, i) < m
    <2>1. RankOf(list, query, i) \in 0 .. (c - 1)
      BY RanksAreAll
    <2>2. ASSUME RankOf(list, query, i) < m PROVE Occurs(page, i)
      <3> DEFINE k == RankOf(list, query, i) + 1
      <3>1. k \in 1 .. m
        BY <1>4, <2>1, <2>2
      <3>2. page[k] \in query /\ RankOf(list, query, page[k]) = RankOf(list, query, i)
        BY <1>5, <2>1, <3>1
      <3>3. page[k] = i
        BY <3>2, RanksAreAll
      <3> QED BY <1>4, <3>1, <3>3 DEF Occurs
    <2>3. ASSUME Occurs(page, i) PROVE RankOf(list, query, i) < m
      BY <1>4, <1>5, <2>3 DEF Occurs
    <2> QED BY <2>2, <2>3
  <1>8. ASSUME ~More(list, query), NEW i \in query PROVE Occurs(page, i)
    <2>1. RankOf(list, query, i) \in 0 .. (c - 1)
      BY RanksAreAll
    <2> QED BY <1>2, <1>7, <1>8, <2>1
  <1>9. ASSUME More(list, query)
        PROVE  LET cursor == CursorOf(list, got)
               IN  /\ \E i \in query : cursor = SortKey(list, i)
                   /\ \A i \in query : Occurs(page, i)
                                         <=> ~ComesAfter(list, SortKey(list, i), cursor)
    <2> DEFINE last == got[PageSize]
    <2>1. last \in query /\ RankOf(list, query, last) = PageSize - 1
      BY <1>1, <1>2, <1>3, <1>9
    <2>2. CursorOf(list, got) = SortKey(list, last)
      BY DEF CursorOf
    <2> HIDE DEF last
    <2>3. ASSUME NEW i \in query
          PROVE  Occurs(page, i) <=> ~ComesAfter(list, SortKey(list, i), SortKey(list, last))
      <3>1. RankOf(list, query, i) \in 0 .. (c - 1) /\ m = PageSize
        BY <1>9, RanksAreAll
      <3>2. ASSUME ComesAfter(list, SortKey(list, i), SortKey(list, last))
            PROVE  ~(RankOf(list, query, i) < m)
        <4>1. RankOf(list, query, last) < RankOf(list, query, i)
          BY <2>1, <3>2, RankGrows
        <4> QED BY <1>1, <2>1, <3>1, <4>1
      <3>3. ASSUME ~ComesAfter(list, SortKey(list, i), SortKey(list, last))
            PROVE  RankOf(list, query, i) < m
        <4>1. CASE i = last
          BY <1>1, <2>1, <3>1, <4>1
        <4>2. CASE i # last
          <5>1. /\ SortKey(list, i) \in SortKeys /\ SortKey(list, i).id = i
                /\ SortKey(list, last) \in SortKeys /\ SortKey(list, last).id = last
            BY <2>1, KeyTyped
          <5>2. ComesAfter(list, SortKey(list, last), SortKey(list, i))
            BY <3>3, <4>2, <5>1, OrderIsStrict
          <5>3. RankOf(list, query, i) < RankOf(list, query, last)
            BY <2>1, <5>2, RankGrows
          <5> QED BY <1>1, <2>1, <3>1, <5>3
        <4> QED BY <4>1, <4>2
      <3> QED BY <1>7, <3>2, <3>3
    <2> QED BY <2>1, <2>2, <2>3
  <1> QED BY <1>4, <1>6, <1>8, <1>9 DEF got, page

\* Showing a page after the others.
LEMMA Showing ==
  ASSUME NEW s \in Seq(Entries), NEW t \in Seq(Entries), NEW i
  PROVE  /\ s \o t \in Seq(Entries)
         /\ Occurs(s \o t, i) <=> Occurs(s, i) \/ Occurs(t, i)
         /\ OnceIn(s, i) /\ OnceIn(t, i) /\ ~(Occurs(s, i) /\ Occurs(t, i))
               => OnceIn(s \o t, i)
  <1>1. /\ Len(s) \in Nat /\ Len(t) \in Nat /\ s \o t \in Seq(Entries)
        /\ Len(s \o t) = Len(s) + Len(t)
        /\ \A k \in 1 .. Len(s) : (s \o t)[k] = s[k]
        /\ \A k \in 1 .. Len(t) : (s \o t)[Len(s) + k] = t[k]
    OBVIOUS
  <1> DEFINE u == s \o t
  <1> HIDE DEF u
  <1>2. \A k \in 1 .. Len(u) :
           \/ k \in 1 .. Len(s) /\ u[k] = s[k]
           \/ k - Len(s) \in 1 .. Len(t) /\ u[k] = t[k - Len(s)]
    <2>1. ASSUME NEW k \in 1 .. Len(u), k \notin 1 .. Len(s)
          PROVE  k - Len(s) \in 1 .. Len(t) /\ u[k] = t[k - Len(s)]
      <3>1. k - Len(s) \in 1 .. Len(t) /\ Len(s) + (k - Len(s)) = k
        BY <1>1, <2>1 DEF u
      <3> QED BY <1>1, <3>1 DEF u
    <2> QED BY <1>1, <2>1 DEF u
  <1>3. Occurs(u, i) => Occurs(s, i) \/ Occurs(t, i)
    BY <1>2 DEF Occurs
  <1>4. Occurs(s, i) => Occurs(u, i)
    <2>1. \A k \in 1 .. Len(s) : k \in 1 .. Len(u) /\ u[k] = s[k]
      BY <1>1 DEF u
    <2> QED BY <2>1 DEF Occurs
  <1>5. Occurs(t, i) => Occurs(u, i)
    <2>1. \A k \in 1 .. Len(t) : Len(s) + k \in 1 .. Len(u) /\ u[Len(s) + k] = t[k]
      BY <1>1 DEF u
    <2> QED BY <2>1 DEF Occurs
  <1>6. ASSUME OnceIn(s, i), OnceIn(t, i), ~(Occurs(s, i) /\ Occurs(t, i)) PROVE OnceIn(u, i)
    <2> SUFFICES ASSUME NEW a \in 1 .. Len(u), NEW b \in 1 .. Len(u), u[a] = i, u[b] = i
                 PROVE  a = b
      BY DEF OnceIn
    <2>1. CASE ~Occurs(s, i)
      <3>1. /\ a - Len(s) \in 1 .. Len(t) /\ t[a - Len(s)] = i
            /\ b - Len(s) \in 1 .. Len(t) /\ t[b - Len(s)] = i
        BY <1>2, <2>1 DEF Occurs
      <3>2. a - Len(s) = b - Len(s)
        BY <1>6, <3>1 DEF OnceIn
      <3>3. Len(u) \in Nat
        BY <1>1 DEF u
      <3> QED BY <1>1, <3>2, <3>3
    <2>2. CASE ~Occurs(t, i)
      <3>1. a \in 1 .. Len(s) /\ s[a] = i /\ b \in 1 .. Len(s) /\ s[b] = i
        BY <1>2, <2>2 DEF Occurs
      <3> QED BY <1>6, <3>1 DEF OnceIn
    <2> QED BY <1>6, <2>1, <2>2
  <1> QED BY <1>1, <1>3, <1>4, <1>5, <1>6 DEF u

LEMMA InitListInv == ListingsInit => ListInv
  <1> SUFFICES ASSUME ListingsInit PROVE ListInv
    OBVIOUS
  <1>1. TableTyped
    BY ListingsAssumption DEF ListingsInit, TableTyped
  <1>2. ASSUME NEW p \in Passes PROVE pass[p] = Closed
    BY DEF ListingsInit
  <1>3. Closed \in Walk
    <2>1. <<>> \in Seq(Entries)
      OBVIOUS
    <2> QED BY <2>1 DEF Closed, Walk
  <1>4. Walked(Closed)
    BY DEF Walked, Closed, OnceIn
  <1> QED BY <1>1, <1>2, <1>3, <1>4 DEF ListInv, WalksTyped, ListingsInit

LEMMA RowsOfTyped ==
  ASSUME NEW list \in Lists, NEW r
  PROVE  RowsOf(list, r) \subseteq Entries
  BY ListingsAssumption DEF RowsOf, SharedRows, OwnRows, AllRows, There

\* what a walk knows of the rows nobody touched when it asks for a page: those
\* on its list, and that the query leaves out just what it has shown
Ready(p, list, r, due) ==
    /\ list \in Lists /\ r \in Readers /\ due \in SUBSET Entries
    /\ \A i \in Entries \ pass[p].touched :
          /\ i \in RowsOf(list, r) <=> i \in due
          /\ Occurs(pass[p].shown, i) <=> i \in due /\ i \notin Remaining(p, list, r)

LEMMA OpensReady ==
  ASSUME ListInv, NEW p \in Passes, NEW list \in Lists, NEW r \in Readers,
         pass[p].at = "closed"
  PROVE  Ready(p, list, r, RowsOf(list, r))
  <1>1. pass[p].shown = <<>> /\ pass[p].cursor = NoList
    BY DEF ListInv, Walked
  <1>2. ASSUME NEW i PROVE ~Occurs(pass[p].shown, i)
    BY <1>1 DEF Occurs
  <1> QED BY <1>1, <1>2, RowsOfTyped DEF Ready, Remaining

LEMMA GoesOnReady ==
  ASSUME ListInv, NEW p \in Passes, pass[p].at = "reading"
  PROVE  Ready(p, pass[p].list, pass[p].reader, pass[p].due)
  <1>1. pass[p] \in Walk /\ Walked(pass[p])
    BY DEF ListInv, WalksTyped
  <1>2. pass[p].cursor # NoList
    BY <1>1, ListingsAssumption DEF Walked, SortKeys
  <1>3. /\ pass[p].list \in Lists /\ pass[p].reader \in Readers
        /\ pass[p].due \in SUBSET Entries
    BY <1>1 DEF Walked, Walk
  <1> QED BY <1>1, <1>2, <1>3 DEF Ready, Remaining, Walked

\* While the table stays, a walk's list and reader say what it sees.
LEMMA SameView ==
  ASSUME UNCHANGED table, NEW q, NEW list, NEW r, pass'[q].list = list, pass'[q].reader = r
  PROVE  /\ RowsOf(pass[q].list, pass[q].reader)' = RowsOf(list, r)
         /\ \A k : SortKey(pass[q].list, k)' = SortKey(list, k)
  BY DEF RowsOf, SharedRows, OwnRows, AllRows, There, SortKey, NewestFirst

\* A request leaves the walk as it should be.
LEMMA ReadKeepsWalks ==
  ASSUME ListInv, NEW p \in Passes, NEW list, NEW r, NEW due, Ready(p, list, r, due),
         ReadRows(p, list, r, due), UNCHANGED table
  PROVE  ListInv'
  <1> DEFINE w == pass[p]
             query == Remaining(p, list, r)
             got == Got(list, query)
             cursor == CursorOf(list, got)
             page == Page(list, query)
             more == More(list, query)
             failing == more /\ ~CanEncode(list)
             v == [at |-> IF more THEN "reading" ELSE "done", list |-> list, reader |-> r,
                   cursor |-> IF more THEN cursor ELSE NoList,
                   shown |-> w.shown \o page, due |-> due, touched |-> w.touched]
             f == [w EXCEPT !.at = "failed", !.list = list, !.reader = r, !.due = due]
  <1>1. /\ TableTyped /\ w \in Walk /\ Walked(w) /\ list \in Lists /\ r \in Readers
        /\ due \in SUBSET Entries /\ pass \in [Passes -> Walk]
    BY DEF ListInv, WalksTyped, Ready
  <1>2. query \in SUBSET Entries /\ query \subseteq RowsOf(list, r)
    BY <1>1, RowsOfTyped DEF Remaining
  <1>3. pass' = [pass EXCEPT ![p] = IF failing THEN f ELSE v]
    BY <1>1 DEF ReadRows, Got, Page, More
  <1> HIDE DEF query, got, cursor, page, more
  <1>4. /\ page \in Seq(query) /\ page \in Seq(Entries) /\ w.shown \in Seq(Entries)
        /\ \A i : OnceIn(page, i)
        /\ ~more => \A i \in query : Occurs(page, i)
        /\ more => /\ \E i \in query : cursor = SortKey(list, i)
                   /\ \A i \in query : Occurs(page, i)
                                         <=> ~ComesAfter(list, SortKey(list, i), cursor)
    <2>1. page \in Seq(query) => page \in Seq(Entries)
      BY <1>2
    <2>2. w.shown \in Seq(Entries)
      BY <1>1 DEF Walk
    <2> QED BY <1>1, <1>2, <2>1, <2>2, PageIsWhole DEF page, more, cursor, got
  <1>5. ASSUME NEW i, i \notin query PROVE ~Occurs(page, i)
    BY <1>4, <1>5 DEF Occurs
  <1>6. ASSUME NEW i \in Entries \ w.touched
        PROVE  /\ i \in RowsOf(list, r) <=> i \in due
               /\ Occurs(w.shown, i) <=> i \in due /\ i \notin query
               /\ OnceIn(w.shown, i)
    BY <1>1 DEF Ready, Walked, query
  <1>7. ASSUME NEW i \in Entries \ w.touched
        PROVE  /\ OnceIn(w.shown \o page, i)
               /\ Occurs(w.shown \o page, i) <=> Occurs(w.shown, i) \/ Occurs(page, i)
    BY <1>4, <1>5, <1>6, Showing
  <1>8. w.shown \o page \in Seq(Entries)
    BY <1>4
  <1>9. ASSUME more
        PROVE  /\ cursor \in SortKeys
               /\ \A i \in Entries \ w.touched :
                     Occurs(w.shown \o page, i)
                        <=> i \in due /\ ~ComesAfter(list, SortKey(list, i), cursor)
    <2>1. PICK last \in query : cursor = SortKey(list, last)
      BY <1>4, <1>9
    <2>2. cursor \in SortKeys
      BY <1>1, <1>2, <2>1, KeyTyped
    <2>3. ASSUME NEW i \in Entries \ w.touched
          PROVE  Occurs(w.shown \o page, i)
                    <=> i \in due /\ ~ComesAfter(list, SortKey(list, i), cursor)
      <3>1. CASE i \in query
        <4>1. i \in due /\ ~Occurs(w.shown, i)
          BY <1>2, <1>6, <2>3, <3>1
        <4> QED BY <1>4, <1>7, <1>9, <2>3, <3>1, <4>1
      <3>2. CASE i \notin query
        <4>1. Occurs(w.shown \o page, i) <=> i \in due
          BY <1>5, <1>6, <1>7, <2>3, <3>2
        <4>2. ASSUME i \in due PROVE ~ComesAfter(list, SortKey(list, i), cursor)
          <5>1. i \in RowsOf(list, r)
            BY <1>6, <2>3, <4>2
          <5>2. w.cursor # NoList /\ ~ComesAfter(list, SortKey(list, i), w.cursor)
            BY <3>2, <5>1 DEF Remaining, query
          <5>3. w.cursor \in SortKeys
            BY <1>1, <5>2 DEF Walk
          <5>4. ComesAfter(list, SortKey(list, last), w.cursor)
            BY <2>1, <5>2 DEF Remaining, query
          <5>5. SortKey(list, i) \in SortKeys
            BY <1>1, <2>3, KeyTyped
          <5> QED BY <2>1, <2>2, <5>2, <5>3, <5>4, <5>5, OrderIsStrict
        <4> QED BY <4>1, <4>2
      <3> QED BY <3>1, <3>2
    <2> QED BY <2>2, <2>3
  <1>10. ASSUME ~more, NEW i \in Entries \ w.touched
         PROVE  Occurs(w.shown \o page, i) <=> i \in due
    <2>1. i \in query => i \in due
      BY <1>2, <1>6, <1>10
    <2> QED BY <1>4, <1>5, <1>6, <1>7, <1>10, <2>1
  <1>11. v \in Walk
    <2>1. more => cursor \in SortKeys
      BY <1>9
    <2>2. w.touched \in SUBSET Entries
      BY <1>1 DEF Walk
    <2> QED BY <1>1, <1>8, <2>1, <2>2 DEF Walk
  <1>12. f \in Walk /\ f.at = "failed" /\ f.shown = w.shown /\ f.touched = w.touched
    BY <1>1 DEF Walk
  <1>13. /\ more => v.at = "reading" /\ v.cursor = cursor
         /\ ~more => v.at = "done"
         /\ v.list = list /\ v.reader = r /\ v.shown = w.shown \o page /\ v.due = due
         /\ v.touched = w.touched
    OBVIOUS
  <1> HIDE DEF v, f, failing
  <1>14. pass' \in [Passes -> Walk]
    BY <1>1, <1>3, <1>11, <1>12
  <1>15. pass'[p] = v \/ pass'[p] = f
    BY <1>1, <1>3
  <1>16. ASSUME pass'[p] = v PROVE Walked(pass[p])'
    <2>1. /\ RowsOf(pass[p].list, pass[p].reader)' = RowsOf(list, r)
          /\ \A k : SortKey(pass[p].list, k)' = SortKey(list, k)
      <3>1. pass'[p].list = list /\ pass'[p].reader = r
        BY <1>13, <1>16
      <3> QED BY <3>1 DEF RowsOf, SharedRows, OwnRows, AllRows, There, SortKey, NewestFirst
    <2>2. CASE more
      <3>1. /\ pass'[p].at = "reading" /\ pass'[p].list = list /\ pass'[p].reader = r
            /\ pass'[p].cursor = cursor /\ pass'[p].shown = w.shown \o page
            /\ pass'[p].due = due /\ pass'[p].touched = w.touched
        BY <1>13, <1>16, <2>2
      <3>2. ASSUME NEW i \in Entries \ w.touched
            PROVE  /\ OnceIn(w.shown \o page, i)
                   /\ i \in RowsOf(list, r) <=> i \in due
                   /\ Occurs(w.shown \o page, i)
                         <=> i \in due /\ ~ComesAfter(list, SortKey(list, i), cursor)
        BY <1>6, <1>7, <1>9, <2>2, <3>2
      <3>3. cursor \in SortKeys
        BY <1>9, <2>2
      <3> QED BY <1>1, <2>1, <3>1, <3>2, <3>3 DEF Walked
    <2>3. CASE ~more
      BY <1>7, <1>10, <1>13, <1>16, <2>3 DEF Walked
    <2> QED BY <2>2, <2>3
  <1>17. ASSUME pass'[p] = f PROVE Walked(pass[p])'
    BY <1>6, <1>12, <1>17 DEF Walked
  <1>18. ASSUME NEW q \in Passes, q # p PROVE Walked(pass[q])'
    <2>1. pass'[q] = pass[q] /\ Walked(pass[q])
      BY <1>1, <1>3, <1>18 DEF ListInv
    <2>2. /\ RowsOf(pass[q].list, pass[q].reader)' = RowsOf(pass[q].list, pass[q].reader)
          /\ \A k : SortKey(pass[q].list, k)' = SortKey(pass[q].list, k)
      BY <2>1, SameView
    <2> QED BY <2>1, <2>2 DEF Walked
  <1>19. TableTyped'
    BY <1>1 DEF TableTyped
  <1> QED BY <1>14, <1>15, <1>16, <1>17, <1>18, <1>19 DEF ListInv, WalksTyped

\* An edit touches its row for the walks that are under way, and no other.
LEMMA EditKeepsWalks ==
  ASSUME ListInv, NEW i \in Entries, NEW row \in ListedRow, Edited(i, row)
  PROVE  ListInv'
  <1>1. /\ table' = [table EXCEPT ![i] = row] /\ table \in [Entries -> ListedRow]
        /\ pass \in [Passes -> Walk]
    BY DEF Edited, ListInv, TableTyped, WalksTyped
  <1>2. TableTyped'
    BY <1>1 DEF TableTyped
  <1>3. ASSUME NEW q \in Passes
        PROVE  pass'[q] = IF pass[q].at = "reading"
                          THEN [pass[q] EXCEPT !.touched = @ \cup {i}] ELSE pass[q]
    BY DEF Edited
  <1>4. ASSUME NEW q \in Passes PROVE pass'[q] \in Walk /\ Walked(pass[q])'
    <2>1. pass[q] \in Walk /\ Walked(pass[q])
      BY <1>1 DEF ListInv
    <2>2. CASE pass[q].at # "reading"
      <3>1. pass'[q] = pass[q]
        BY <1>3, <2>2
      <3> QED BY <2>1, <2>2, <3>1 DEF Walked
    <2>3. CASE pass[q].at = "reading"
      <3>1. pass'[q] = [pass[q] EXCEPT !.touched = @ \cup {i}]
        BY <1>3, <2>3
      <3>2. /\ pass'[q] \in Walk
            /\ pass'[q].at = "reading" /\ pass'[q].list = pass[q].list
            /\ pass'[q].reader = pass[q].reader /\ pass'[q].cursor = pass[q].cursor
            /\ pass'[q].shown = pass[q].shown /\ pass'[q].due = pass[q].due
            /\ pass'[q].touched = pass[q].touched \cup {i}
        BY <2>1, <2>3, <3>1 DEF Walk
      <3>3. ASSUME NEW j \in Entries \ pass'[q].touched
            PROVE  /\ j \in RowsOf(pass[q].list, pass[q].reader)'
                         <=> j \in RowsOf(pass[q].list, pass[q].reader)
                   /\ SortKey(pass[q].list, j)' = SortKey(pass[q].list, j)
        <4>1. table'[j] = table[j] /\ j \in Entries
          BY <1>1, <3>2, <3>3
        <4>2. pass[q].list \in Lists
          BY <2>1, <2>3 DEF Walked
        <4> QED BY <3>2, <4>1, <4>2, ListingsAssumption
              DEF RowsOf, SharedRows, OwnRows, AllRows, There, SortKey, NewestFirst
      <3> QED BY <2>1, <2>3, <3>2, <3>3 DEF Walked
    <2> QED BY <2>2, <2>3, <2>1, <1>3
  <1>5. pass' \in [Passes -> Walk]
    <2>1. DOMAIN pass' = Passes /\ pass' = [q \in Passes |-> pass'[q]]
      BY DEF Edited
    <2> QED BY <1>4, <2>1
  <1> QED BY <1>2, <1>4, <1>5 DEF ListInv, WalksTyped

LEMMA NextListInv == ListInv /\ [ListingsNext]_listVars => ListInv'
  <1> SUFFICES ASSUME ListInv, [ListingsNext]_listVars PROVE ListInv'
    OBVIOUS
  <1>1. ASSUME NEW p \in Passes, OpenList(p) PROVE ListInv'
    BY <1>1, OpensReady, ReadKeepsWalks DEF OpenList
  <1>2. ASSUME NEW p \in Passes, NextPage(p) PROVE ListInv'
    BY <1>2, GoesOnReady, ReadKeepsWalks DEF NextPage
  <1>3. ASSUME NEW i \in Entries PROVE table[i] \in ListedRow
    BY DEF ListInv, TableTyped
  <1>4. ASSUME NEW i \in Entries, SaveRow(i) PROVE ListInv'
    <2>1. PICK t \in Times : Edited(i, [table[i] EXCEPT !.updated = t])
      BY <1>4 DEF SaveRow
    <2>2. [table[i] EXCEPT !.updated = t] \in ListedRow
      BY <1>3 DEF ListedRow
    <2> QED BY <2>1, <2>2, EditKeepsWalks
  <1>5. ASSUME NEW i \in Entries, AddRow(i) PROVE ListInv'
    <2>1. PICK t \in Times, r \in Readers :
             Edited(i, [there |-> TRUE, created |-> t, updated |-> t,
                        sharedWith |-> {r}, author |-> r])
      BY <1>5 DEF AddRow
    <2>2. [there |-> TRUE, created |-> t, updated |-> t, sharedWith |-> {r}, author |-> r]
             \in ListedRow
      BY DEF ListedRow
    <2> QED BY <2>1, <2>2, EditKeepsWalks
  <1>6. ASSUME NEW i \in Entries, ShareRow(i) PROVE ListInv'
    <2>1. PICK r \in Readers :
             Edited(i, [table[i] EXCEPT !.sharedWith = IF r \in @ THEN @ \ {r} ELSE @ \cup {r}])
      BY <1>6 DEF ShareRow
    <2>2. [table[i] EXCEPT !.sharedWith = IF r \in @ THEN @ \ {r} ELSE @ \cup {r}] \in ListedRow
      BY <1>3 DEF ListedRow
    <2> QED BY <2>1, <2>2, EditKeepsWalks
  <1>7. CASE UNCHANGED listVars
    <2>1. table' = table /\ pass' = pass
      BY <1>7 DEF listVars
    <2>2. ASSUME NEW q \in Passes PROVE Walked(pass[q])'
      <3>1. /\ RowsOf(pass[q].list, pass[q].reader)' = RowsOf(pass[q].list, pass[q].reader)
            /\ \A k : SortKey(pass[q].list, k)' = SortKey(pass[q].list, k)
        BY <2>1, SameView
      <3> QED BY <2>1, <3>1 DEF ListInv, Walked
    <2> QED BY <2>1, <2>2 DEF ListInv, TableTyped, WalksTyped
  <1> QED BY <1>1, <1>2, <1>4, <1>5, <1>6, <1>7 DEF ListingsNext

LEMMA ListInvShownOnce == ListInv => UntouchedShownOnce
  <1> SUFFICES ASSUME ListInv, NEW p \in Passes, NEW i \in Entries \ pass[p].touched
               PROVE  LET n == Cardinality({k \in DOMAIN pass[p].shown : pass[p].shown[k] = i})
                      IN  n <= 1 /\ (pass[p].at = "done" => (n = 1 <=> i \in pass[p].due))
    BY DEF UntouchedShownOnce
  <1> DEFINE s == pass[p].shown
             places == {k \in DOMAIN s : s[k] = i}
  <1>1. /\ s \in Seq(Entries) /\ OnceIn(s, i)
        /\ pass[p].at = "done" => (Occurs(s, i) <=> i \in pass[p].due)
    BY DEF ListInv, WalksTyped, Walk, Walked
  <1>2. DOMAIN s = 1 .. Len(s)
    BY <1>1
  <1>3. CASE Occurs(s, i)
    <2>1. PICK k \in 1 .. Len(s) : s[k] = i
      BY <1>3 DEF Occurs
    <2>2. places = {k}
      BY <1>1, <1>2, <2>1 DEF OnceIn
    <2>3. Cardinality(places) = 1
      BY <2>2, FS_Singleton
    <2> QED BY <1>1, <1>3, <2>3
  <1>4. CASE ~Occurs(s, i)
    <2>1. places = {}
      BY <1>2, <1>4 DEF Occurs
    <2>2. Cardinality(places) = 0
      BY <2>1, FS_EmptySet
    <2> QED BY <1>1, <1>4, <2>2
  <1> QED BY <1>3, <1>4

\* Whoever reads a list to its end has been shown every row nobody touched
\* meanwhile exactly once, and no untouched row that was not on it.
THEOREM UntouchedRowsShownOnce == ListingsSpec => []UntouchedShownOnce
  <1>1. ListingsSpec => []ListInv
    BY InitListInv, NextListInv, PTL DEF ListingsSpec
  <1> QED BY <1>1, ListInvShownOnce, PTL

-----------------------------------------------------------------------------
(* PolicySearch: any passages, results, summaries, drafts and limits.       *)
(*                                                                         *)
(* A sequence cut down to some places keeps their order: its n-th element  *)
(* is at the place that n - 1 of the kept ones precede (PlacesRanked).     *)

Below(K, i) == {j \in K : j < i}
PlaceOf(K, i) == Cardinality(Below(K, i))

\* Places are distinct and, by counting, all numbers below the number of places.
LEMMA PlacesRanked ==
  ASSUME NEW K, IsFiniteSet(K), K \subseteq Nat
  PROVE  /\ Cardinality(K) \in Nat
         /\ \A i \in K : PlaceOf(K, i) \in 0 .. (Cardinality(K) - 1)
         /\ \A i, j \in K : PlaceOf(K, i) = PlaceOf(K, j) => i = j
         /\ \A k \in 0 .. (Cardinality(K) - 1) : \E i \in K : PlaceOf(K, i) = k
  <1> DEFINE n == Cardinality(K)
             f == [i \in K |-> PlaceOf(K, i)]
  <1>1. n \in Nat
    BY FS_CardinalityType
  <1>2. ASSUME NEW i \in K PROVE PlaceOf(K, i) \in 0 .. (n - 1)
    <2>1. Below(K, i) \in SUBSET K /\ i \notin Below(K, i)
      BY DEF Below
    <2>2. /\ IsFiniteSet(Below(K, i))
          /\ Cardinality(Below(K, i)) <= n
          /\ Cardinality(Below(K, i)) # n
      BY <2>1, FS_Subset
    <2>3. Cardinality(Below(K, i)) \in Nat
      BY <2>2, FS_CardinalityType
    <2> QED BY <1>1, <2>2, <2>3 DEF PlaceOf
  <1>3. ASSUME NEW i \in K, NEW j \in K, i < j PROVE PlaceOf(K, i) # PlaceOf(K, j)
    <2>1. /\ Below(K, i) \in SUBSET Below(K, j)
          /\ i \in Below(K, j) /\ i \notin Below(K, i)
      <3>1. i \in Nat /\ j \in Nat /\ \A x \in K : x \in Nat
        OBVIOUS
      <3>2. \A x \in K : x < i => x < j
        BY <1>3, <3>1
      <3>3. Below(K, i) \in SUBSET Below(K, j)
        BY <3>2 DEF Below
      <3>4. i \in Below(K, j)
        BY <1>3 DEF Below
      <3>5. ~(i < i)
        BY <3>1
      <3> QED BY <3>3, <3>4, <3>5 DEF Below
    <2>2. IsFiniteSet(Below(K, j))
      BY FS_Subset DEF Below
    <2>3. Cardinality(Below(K, i)) # Cardinality(Below(K, j))
      BY <2>1, <2>2, FS_Subset
    <2> QED BY <2>3 DEF PlaceOf
  <1>4. \A i, j \in K : PlaceOf(K, i) = PlaceOf(K, j) => i = j
    BY <1>3
  <1>5. f \in Injection(K, 0 .. (n - 1))
    BY <1>2, <1>4 DEF Injection, IsInjective
  <1>6. IsFiniteSet(0 .. (n - 1)) /\ Cardinality(0 .. (n - 1)) = n
    <2>1. 0 \in Int /\ n - 1 \in Int /\ (IF 0 > n - 1 THEN 0 ELSE n - 1 - 0 + 1) = n
      BY <1>1
    <2> QED BY <2>1, FS_Interval, Zenon
  <1>7. f \in Surjection(K, 0 .. (n - 1))
    BY <1>5, <1>6, FS_Injection
  <1>8. \A k \in 0 .. (n - 1) : \E i \in K : PlaceOf(K, i) = k
    BY <1>7 DEF Surjection
  <1> QED BY <1>1, <1>2, <1>4, <1>8

\* A set of places has a least one.
LEMMA LeastPlace ==
  ASSUME NEW K, IsFiniteSet(K), K \subseteq Nat, K # {}
  PROVE  Min(K) \in K /\ \A j \in K : Min(K) <= j
  <1>1. Cardinality(K) \in Nat /\ Cardinality(K) # 0
    BY FS_CardinalityType, FS_EmptySet
  <1>2. 0 \in 0 .. (Cardinality(K) - 1)
    BY <1>1
  <1>3. PICK i \in K : PlaceOf(K, i) = 0
    BY <1>2, PlacesRanked
  <1>4. IsFiniteSet(Below(K, i))
    BY FS_Subset DEF Below
  <1>5. Below(K, i) = {}
    BY <1>3, <1>4, FS_EmptySet DEF PlaceOf
  <1>6. \A j \in K : i <= j
    BY <1>5 DEF Below
  <1> QED BY <1>6 DEF Min

\* e holds what s has at the places of K, in their order
Enumerates(e, s, K) ==
    /\ e \in [1 .. Cardinality(K) -> {s[i] : i \in K}]
    /\ \A n \in 1 .. Cardinality(K) : \E i \in K : PlaceOf(K, i) = n - 1 /\ e[n] = s[i]
    /\ \A i \in K : \E n \in 1 .. Cardinality(K) : e[n] = s[i]

LEMMA ElementsAre ==
  ASSUME NEW s, NEW K, IsFiniteSet(K), K \subseteq Nat
  PROVE  Cardinality(K) \in Nat /\ Enumerates(Elements(s, K), s, K)
  <1> DEFINE c == Cardinality(K)
             nth(n) == CHOOSE i \in K : PlaceOf(K, i) = n - 1
             e == [n \in 1 .. c |-> s[nth(n)]]
  <1>1. e = Elements(s, K)
    BY DEF Elements, PlaceOf, Below
  <1>2. c \in Nat
    BY PlacesRanked
  <1>3. ASSUME NEW n \in 1 .. c PROVE nth(n) \in K /\ PlaceOf(K, nth(n)) = n - 1
    <2>1. n - 1 \in 0 .. (c - 1)
      BY <1>2
    <2>2. \E i \in K : PlaceOf(K, i) = n - 1
      BY <2>1, PlacesRanked
    <2> QED BY <2>2
  <1>4. ASSUME NEW i \in K PROVE \E n \in 1 .. c : e[n] = s[i]
    <2> DEFINE n == PlaceOf(K, i) + 1
    <2>1. PlaceOf(K, i) \in 0 .. (c - 1)
      BY PlacesRanked
    <2>2. n \in 1 .. c /\ n - 1 = PlaceOf(K, i)
      BY <1>2, <2>1
    <2>3. nth(n) \in K /\ PlaceOf(K, nth(n)) = PlaceOf(K, i)
      BY <1>3, <2>2
    <2>4. nth(n) = i
      BY <2>3, PlacesRanked
    <2> HIDE DEF nth, n
    <2> QED BY <2>2, <2>4
  <1>5. ASSUME NEW n \in 1 .. c PROVE \E i \in K : PlaceOf(K, i) = n - 1 /\ e[n] = s[i]
    BY <1>3
  <1>6. e \in [1 .. c -> {s[i] : i \in K}]
    BY <1>3
  <1> HIDE DEF e
  <1> QED BY <1>1, <1>2, <1>4, <1>5, <1>6 DEF Enumerates

\* Nothing left out, nothing changed.
LEMMA AllElements ==
  ASSUME NEW S, NEW s \in Seq(S)
  PROVE  Elements(s, 1 .. Len(s)) = s
  <1> DEFINE K == 1 .. Len(s)
             e == Elements(s, K)
  <1>1. Len(s) \in Nat /\ IsFiniteSet(K) /\ K \subseteq Nat /\ Cardinality(K) = Len(s)
    <2>1. Len(s) \in Nat /\ K \subseteq Nat
      OBVIOUS
    <2>2. 1 \in Int /\ Len(s) \in Int
          /\ (IF 1 > Len(s) THEN 0 ELSE Len(s) - 1 + 1) = Len(s)
      BY <2>1
    <2> QED BY <2>1, <2>2, FS_Interval, Zenon
  <1>2. ASSUME NEW i \in K PROVE PlaceOf(K, i) = i - 1
    <2>1. Below(K, i) = 1 .. (i - 1)
      BY <1>1 DEF Below
    <2>2. i - 1 \in Nat /\ Cardinality(1 .. (i - 1)) = i - 1
      BY <1>1, FS_Interval
    <2> QED BY <2>1, <2>2 DEF PlaceOf
  <1>3. Enumerates(e, s, K)
    <2> HIDE DEF K
    <2> QED BY <1>1, ElementsAre
  <1> HIDE DEF e
  <1>4. /\ e \in [1 .. Len(s) -> {s[i] : i \in K}]
        /\ \A n \in 1 .. Len(s) : \E i \in K : PlaceOf(K, i) = n - 1 /\ e[n] = s[i]
    BY <1>1, <1>3 DEF Enumerates
  <1>5. ASSUME NEW n \in 1 .. Len(s) PROVE e[n] = s[n]
    <2>1. PICK i \in K : PlaceOf(K, i) = n - 1 /\ e[n] = s[i]
      BY <1>4
    <2>2. i - 1 = n - 1
      BY <1>2, <2>1
    <2>3. i = n
      BY <1>1, <2>2
    <2> QED BY <2>1, <2>3
  <1>6. s = [n \in 1 .. Len(s) |-> s[n]]
    OBVIOUS
  <1>7. e = s
    BY <1>4, <1>5, <1>6
  <1> QED BY <1>7 DEF e


\* The numbers cited: valid ones, each once, so no more than there are passages.
LEMMA CitedOnce ==
  ASSUME NEW S, NEW marks \in Seq(S), NEW n \in Nat
  PROVE  LET cited == CitedIndices(marks, n) IN
         /\ cited \in Seq(1 .. n) /\ Len(cited) <= n
         /\ \A j \in DOMAIN marks :
               marks[j] \in 1 .. n => \E k \in DOMAIN cited : cited[k] = marks[j]
  <1> DEFINE K == {j \in DOMAIN marks :
                      marks[j] \in 1 .. n /\ \A i \in 1 .. j - 1 : marks[i] # marks[j]}
             c == Cardinality(K)
             cited == CitedIndices(marks, n)
  <1>1. DOMAIN marks = 1 .. Len(marks) /\ Len(marks) \in Nat
    OBVIOUS
  <1>2. IsFiniteSet(DOMAIN marks) /\ DOMAIN marks \subseteq Nat
    <2>1. IsFiniteSet(1 .. Len(marks))
      BY <1>1, FS_Interval
    <2> QED BY <1>1, <2>1
  <1>3. IsFiniteSet(K) /\ K \subseteq Nat
    BY <1>2, FS_Subset
  <1>4. cited = Elements(marks, K)
    BY DEF CitedIndices
  <1>5. ASSUME NEW j \in DOMAIN marks, marks[j] \in 1 .. n
        PROVE  \E i \in K : marks[i] = marks[j]
    <2> DEFINE same == {i \in DOMAIN marks : marks[i] = marks[j]}
    <2>1. IsFiniteSet(same) /\ same \subseteq Nat /\ same # {}
      BY <1>2, <1>5, FS_Subset
    <2>2. Min(same) \in same /\ \A i \in same : Min(same) <= i
      BY <2>1, LeastPlace
    <2> DEFINE m == Min(same)
    <2> HIDE DEF m
    <2>3. m \in DOMAIN marks /\ marks[m] = marks[j] /\ m \in 1 .. Len(marks)
      BY <1>1, <2>2 DEF m
    <2>4. ASSUME NEW i \in 1 .. m - 1 PROVE marks[i] # marks[m]
      <3>1. i \in DOMAIN marks /\ ~(m <= i)
        BY <1>1, <2>3
      <3> QED BY <2>2, <2>3, <3>1 DEF m
    <2> QED BY <1>5, <2>3, <2>4
  <1>6. ASSUME NEW i \in K, NEW j \in K, marks[i] = marks[j] PROVE i = j
    <2>1. i \in Nat /\ j \in Nat /\ i >= 1 /\ j >= 1
      BY <1>1
    <2>2. ~(i < j) /\ ~(j < i)
      <3>1. i < j => i \in 1 .. j - 1
        BY <2>1
      <3>2. j < i => j \in 1 .. i - 1
        BY <2>1
      <3> QED BY <1>6, <3>1, <3>2
    <2> QED BY <2>1, <2>2
  <1>7. \A i \in K : marks[i] \in 1 .. n
    OBVIOUS
  <1> HIDE DEF K
  <1>8. /\ c \in Nat /\ cited \in [1 .. c -> {marks[i] : i \in K}]
        /\ \A k \in 1 .. c : \E i \in K : PlaceOf(K, i) = k - 1 /\ cited[k] = marks[i]
        /\ \A i \in K : \E k \in 1 .. c : cited[k] = marks[i]
    <2>1. c \in Nat /\ Enumerates(cited, marks, K)
      BY <1>3, <1>4, ElementsAre
    <2> HIDE DEF cited
    <2> QED BY <2>1 DEF Enumerates
  <1> HIDE DEF cited, c
  <1>9. cited \in [1 .. c -> 1 .. n]
    BY <1>7, <1>8
  <1>10. cited \in Seq(1 .. n) /\ Len(cited) = c /\ DOMAIN cited = 1 .. c
    <2>1. c \in Nat /\ DOMAIN cited = 1 .. c
      BY <1>8
    <2>2. cited \in Seq(1 .. n)
      BY <1>9, <2>1
    <2> QED BY <2>1, <2>2
  <1>11. c <= n
    <2>1. ASSUME NEW k \in 1 .. c, NEW l \in 1 .. c, cited[k] = cited[l] PROVE k = l
      <3>1. PICK i \in K : PlaceOf(K, i) = k - 1 /\ cited[k] = marks[i]
        BY <1>8
      <3>2. PICK j \in K : PlaceOf(K, j) = l - 1 /\ cited[l] = marks[j]
        BY <1>8
      <3>3. k - 1 = l - 1
        BY <1>6, <2>1, <3>1, <3>2
      <3> QED BY <1>8, <3>3
    <2>2. cited \in Injection(1 .. c, 1 .. n)
      BY <1>9, <2>1 DEF Injection, IsInjective
    <2>3. Cardinality(1 .. c) = c /\ Cardinality(1 .. n) = n /\ IsFiniteSet(1 .. n)
      <3>1. 1 \in Int /\ c \in Int /\ n \in Int
            /\ (IF 1 > c THEN 0 ELSE c - 1 + 1) = c
            /\ (IF 1 > n THEN 0 ELSE n - 1 + 1) = n
        BY <1>8
      <3> QED BY <3>1, FS_Interval, Zenon
    <2> QED BY <2>2, <2>3, FS_Injection
  <1>12. ASSUME NEW j \in DOMAIN marks, marks[j] \in 1 .. n
         PROVE  \E k \in DOMAIN cited : cited[k] = marks[j]
    <2>1. PICK i \in K : marks[i] = marks[j]
      BY <1>5, <1>12
    <2>2. PICK k \in 1 .. c : cited[k] = marks[i]
      BY <1>8
    <2> QED BY <1>10, <2>1, <2>2
  <1> QED BY <1>10, <1>11, <1>12 DEF cited


LEMMA ElementsSeq ==
  ASSUME NEW s, NEW K, IsFiniteSet(K), K \subseteq Nat
  PROVE  /\ Elements(s, K) \in Seq({s[i] : i \in K})
         /\ Len(Elements(s, K)) = Cardinality(K) /\ Cardinality(K) \in Nat
  <1> DEFINE e == Elements(s, K)
             S == {s[i] : i \in K}
  <1>1. Cardinality(K) \in Nat /\ Enumerates(e, s, K)
    BY ElementsAre
  <1> HIDE DEF e
  <1>2. e \in [1 .. Cardinality(K) -> S]
    BY <1>1 DEF Enumerates
  <1> HIDE DEF S
  <1>3. e \in Seq(S) /\ Len(e) = Cardinality(K)
    BY <1>1, <1>2
  <1> QED BY <1>1, <1>3 DEF e, S

LEMMA UpToSeq ==
  ASSUME NEW S, NEW n \in Nat, NEW s \in UpTo(S, n)
  PROVE  s \in Seq(S)
  <1>1. PICK k \in 0 .. n : s \in [1 .. k -> S]
    BY DEF UpTo
  <1> QED BY <1>1

LEMMA TextsTyped ==
  ASSUME NEW w \in ModelTexts
  PROVE  w.marks \in Seq(0 .. MaxResults) /\ w.support \in Seq(0 .. 1)
  <1>1. w.marks \in UpTo(0 .. MaxResults, MaxMarks) /\ w.support \in UpTo(0 .. 1, 1)
    BY DEF ModelTexts
  <1>2. MaxMarks \in Nat /\ 1 \in Nat
    BY SearchAssumption
  <1> QED BY <1>1, <1>2, UpToSeq

\* Results kept in number are all kept.
LEMMA ReadableWhole ==
  ASSUME NEW S, NEW rs \in Seq(S)
  PROVE  /\ \E T : Readable(rs) \in Seq(T)
         /\ Len(Readable(rs)) = Len(rs) => Readable(rs) = rs
  <1> DEFINE K == {i \in DOMAIN rs : rs[i] # Unreadable}
  <1>1. DOMAIN rs = 1 .. Len(rs) /\ Len(rs) \in Nat
    OBVIOUS
  <1>2. /\ IsFiniteSet(1 .. Len(rs)) /\ Cardinality(1 .. Len(rs)) = Len(rs)
        /\ 1 .. Len(rs) \subseteq Nat
    <2>1. 1 \in Int /\ Len(rs) \in Int
          /\ (IF 1 > Len(rs) THEN 0 ELSE Len(rs) - 1 + 1) = Len(rs)
      BY <1>1
    <2>2. 1 .. Len(rs) \subseteq Nat
      BY <1>1
    <2> QED BY <2>1, <2>2, FS_Interval, Zenon
  <1>3. K \in SUBSET (1 .. Len(rs)) /\ IsFiniteSet(K) /\ K \subseteq Nat
    BY <1>1, <1>2, FS_Subset
  <1>4. Readable(rs) = Elements(rs, K)
    BY DEF Readable
  <1> HIDE DEF K
  <1>5. /\ Readable(rs) \in Seq({rs[i] : i \in K})
        /\ Len(Readable(rs)) = Cardinality(K)
    BY <1>3, <1>4, ElementsSeq
  <1>6. ASSUME Cardinality(K) = Len(rs) PROVE Readable(rs) = rs
    <2>1. K = 1 .. Len(rs)
      BY <1>2, <1>3, <1>6, FS_Subset
    <2> QED BY <1>4, <2>1, AllElements
  <1> QED BY <1>5, <1>6

LEMMA SelectedSeq ==
  ASSUME NEW S, NEW ps \in Seq(S)
  PROVE  \E T : SelectPassages(ps) \in Seq(T)
  <1>1. PICK K \in SUBSET DOMAIN ps : SelectPassages(ps) = Elements(ps, K)
    BY DEF SelectPassages
  <1>2. IsFiniteSet(DOMAIN ps) /\ DOMAIN ps \subseteq Nat
    <2>1. DOMAIN ps = 1 .. Len(ps) /\ Len(ps) \in Nat /\ 1 .. Len(ps) \subseteq Nat
      OBVIOUS
    <2> QED BY <2>1, FS_Interval
  <1>3. IsFiniteSet(K) /\ K \subseteq Nat
    BY <1>2, FS_Subset
  <1>4. Elements(ps, K) \in Seq({ps[i] : i \in K})
    BY <1>3, ElementsSeq
  <1> QED BY <1>1, <1>4

\* what CitationsAreMeant says of an answer made from w over the passages ps
Meant(built, w, ps) ==
    \A j \in DOMAIN built.marks :
        LET m == w.marks[j]  n == built.marks[j] IN
        IF m \in DOMAIN ps THEN n \in DOMAIN built.cited /\ built.cited[n] = ps[m]
        ELSE n \notin DOMAIN built.cited

\* An answer's numbers lead where its writer meant, for the passages he was shown.
LEMMA GroundedMeant ==
  ASSUME NEW w \in ModelTexts, NEW T, NEW ps \in Seq(T)
  PROVE  Meant(BuildGrounded(w, ps), w, ps)
  <1> DEFINE n == Len(ps)
             marked == CitedIndices(w.marks, n)
             inferred == InferCitations(w.support, n)
             cited == IF marked # <<>> THEN marked ELSE inferred
             marks == IF marked # <<>> THEN Renumber(w.marks, marked) ELSE w.marks
             shown == [k \in DOMAIN cited |-> ps[cited[k]]]
  <1>1. BuildGrounded(w, ps) = [marks |-> marks, cited |-> shown]
    BY DEF BuildGrounded
  <1>2. /\ w.marks \in Seq(0 .. MaxResults) /\ w.support \in Seq(0 .. 1)
        /\ n \in Nat /\ DOMAIN ps = 1 .. n
    BY TextsTyped
  <1> HIDE DEF n
  <1>3. /\ marked \in Seq(1 .. n) /\ Len(marked) <= n
        /\ \A j \in DOMAIN w.marks :
              w.marks[j] \in 1 .. n => \E k \in DOMAIN marked : marked[k] = w.marks[j]
    BY <1>2, CitedOnce
  <1>4. inferred \in Seq(1 .. n) /\ Len(inferred) <= n
    <2>1. CASE inferred = <<>>
      <3>1. <<>> \in Seq(1 .. n) /\ Len(<<>>) = 0
        OBVIOUS
      <3> HIDE DEF inferred
      <3> QED BY <1>2, <2>1, <3>1
    <2>2. CASE inferred = CitedIndices(w.support, n)
      <3>1. /\ CitedIndices(w.support, n) \in Seq(1 .. n)
            /\ Len(CitedIndices(w.support, n)) <= n
        BY <1>2, CitedOnce
      <3> HIDE DEF inferred
      <3> QED BY <2>2, <3>1
    <2> QED BY <2>1, <2>2 DEF InferCitations
  <1> HIDE DEF marked, inferred
  <1>5. cited \in Seq(1 .. n) /\ Len(cited) <= n
    BY <1>3, <1>4
  <1>6. DOMAIN cited = 1 .. Len(cited) /\ Len(cited) \in Nat
    BY <1>5
  <1>7. DOMAIN marks = DOMAIN w.marks
    BY DEF Renumber
  <1>8. ASSUME NEW j \in DOMAIN w.marks
        PROVE  IF w.marks[j] \in 1 .. n
               THEN marks[j] \in DOMAIN cited /\ cited[marks[j]] = w.marks[j]
               ELSE marks[j] \notin DOMAIN cited
    <2>1. CASE marked = <<>>
      <3>1. w.marks[j] \notin 1 .. n
        BY <1>3, <2>1
      <3>2. marks[j] = w.marks[j]
        BY <2>1
      <3>3. DOMAIN cited \subseteq 1 .. n
        BY <1>2, <1>5, <1>6
      <3> QED BY <3>1, <3>2, <3>3
    <2>2. CASE marked # <<>>
      <3>1. cited = marked /\ marks = Renumber(w.marks, marked) /\ DOMAIN marked = 1 .. Len(marked)
        BY <1>3, <2>2
      <3>2. Contains(marked, w.marks[j]) <=> \E k \in DOMAIN marked : marked[k] = w.marks[j]
        BY <3>1 DEF Contains
      <3>3. CASE w.marks[j] \in 1 .. n
        <4>1. \E k \in DOMAIN marked : marked[k] = w.marks[j]
          BY <1>3, <3>3
        <4>2. marks[j] = CHOOSE k \in DOMAIN marked : marked[k] = w.marks[j]
          BY <1>8, <3>1, <3>2, <4>1 DEF Renumber
        <4>3. marks[j] \in DOMAIN marked /\ marked[marks[j]] = w.marks[j]
          BY <4>1, <4>2
        <4> QED BY <3>1, <3>3, <4>3
      <3>4. CASE w.marks[j] \notin 1 .. n
        <4>1. ~Contains(marked, w.marks[j])
          <5> DEFINE S == 1 .. n
          <5>1. marked \in Seq(S)
            BY <1>3
          <5>2. \A k \in DOMAIN marked : marked[k] \in S
            <6> HIDE DEF S
            <6> QED BY <5>1
          <5> QED BY <3>2, <3>4, <5>2
        <4>2. marks[j] = w.marks[j]
          BY <1>8, <3>1, <4>1 DEF Renumber
        <4>3. DOMAIN marked \subseteq 1 .. n
          BY <1>2, <1>3, <3>1
        <4> QED BY <3>1, <3>4, <4>2, <4>3
      <3> QED BY <3>3, <3>4
    <2> QED BY <2>1, <2>2
  <1> HIDE DEF cited, marks
  <1> QED BY <1>1, <1>2, <1>7, <1>8 DEF Meant


SearchTyped ==
    /\ results \in UpTo(Passages \cup {Unreadable}, MaxResults)
    /\ summary \in ModelTexts

LEMMA NoTextIsText == NoText \in ModelTexts
  <1>1. <<>> \in [1 .. 0 -> 0 .. MaxResults] /\ <<>> \in [1 .. 0 -> 0 .. 1]
    OBVIOUS
  <1>2. 0 \in 0 .. MaxMarks /\ 0 \in 0 .. 1
    BY SearchAssumption
  <1>3. <<>> \in UpTo(0 .. MaxResults, MaxMarks) /\ <<>> \in UpTo(0 .. 1, 1)
    BY <1>1, <1>2 DEF UpTo
  <1> QED BY <1>3 DEF NoText, ModelTexts

\* An answer ends the question as CitationsAreMeant says.
LEMMA AnswersMeant ==
  ASSUME NEW w \in ModelTexts, NEW T, NEW ps \in Seq(T), 
         EndQuestion("answer", w, ps, BuildGrounded(w, ps))
  PROVE  CitationsAreMeant'
  <1> DEFINE built == BuildGrounded(w, ps)
  <1>1. Meant(built, w, ps)
    BY GroundedMeant
  <1> HIDE DEF built
  <1>2. /\ reply'.kind = "answer" /\ reply'.marks = built.marks /\ reply'.cited = built.cited
        /\ reply'.written = w /\ reply'.shown = ps
        /\ reply'.warned = (built.cited = <<>>)
    BY DEF EndQuestion, built
  <1> QED BY <1>1, <1>2 DEF Meant, CitationsAreMeant

LEMMA StopMeant ==
  ASSUME NEW kind, kind # "answer", Stop(kind)
  PROVE  CitationsAreMeant'
  BY DEF Stop, EndQuestion, CitationsAreMeant

LEMMA NextSearch ==
  ASSUME SearchTyped, CitationsAreMeant, [SearchNext]_searchVars
  PROVE  (SearchTyped /\ CitationsAreMeant)'
  <1>1. results \in Seq(Passages \cup {Unreadable})
    BY SearchAssumption, UpToSeq DEF SearchTyped
  <1>2. ASSUME reply' = reply PROVE CitationsAreMeant'
    BY <1>2 DEF CitationsAreMeant
  <1>3. ASSUME NEW kind, Stop(kind) PROVE UNCHANGED <<results, summary>>
    BY <1>3 DEF Stop, EndQuestion
  <1>4. ASSUME UNCHANGED <<results, summary>> PROVE SearchTyped'
    BY <1>4 DEF SearchTyped
  <1>5. ASSUME RunOutOfTime PROVE (SearchTyped /\ CitationsAreMeant)'
    BY <1>2, <1>4, <1>5 DEF RunOutOfTime
  <1>6. ASSUME Gate PROVE (SearchTyped /\ CitationsAreMeant)'
    <2>1. CASE \E step : GoTo(step)
      BY <1>2, <1>4, <2>1 DEF GoTo
    <2>2. CASE Stop("timeout") \/ Stop("off_topic")
      BY <1>3, <1>4, <2>2, StopMeant
    <2> QED BY <1>6, <2>1, <2>2 DEF Gate
  <1>7. ASSUME Classify PROVE (SearchTyped /\ CitationsAreMeant)'
    <2>1. CASE \E step : GoTo(step)
      BY <1>2, <1>4, <2>1 DEF GoTo
    <2>2. CASE Stop("timeout") \/ Stop("off_topic")
      BY <1>3, <1>4, <2>2, StopMeant
    <2> QED BY <1>7, <2>1, <2>2 DEF Classify
  <1>8. ASSUME Search PROVE (SearchTyped /\ CitationsAreMeant)'
    <2>1. CASE \E step : GoTo(step)
      BY <1>2, <1>4, <2>1 DEF GoTo
    <2>2. CASE Stop("timeout") \/ Stop("search_error")
      BY <1>3, <1>4, <2>2, StopMeant
    <2>3. CASE /\ reply' = reply
               /\ \E rs \in UpTo(Passages \cup {Unreadable}, MaxResults) :
                  \E w \in IF at = "search" /\ WantsSummary THEN ModelTexts ELSE {NoText} :
                     results' = rs /\ summary' = w
      <3>1. results' \in UpTo(Passages \cup {Unreadable}, MaxResults)
        BY <2>3
      <3>2. summary' \in ModelTexts
        BY <2>3, NoTextIsText
      <3> QED BY <1>2, <2>3, <3>1, <3>2 DEF SearchTyped
    <2> QED BY <1>8, <2>1, <2>2, <2>3 DEF Search
  <1>9. ASSUME Read PROVE (SearchTyped /\ CitationsAreMeant)'
    <2>1. CASE \E step : GoTo(step)
      BY <1>2, <1>4, <2>1 DEF GoTo
    <2>2. CASE Stop("nothing_found") \/ Stop("unreadable")
      BY <1>3, <1>4, <2>2, StopMeant
    <2>3. CASE /\ UsesSummary
               /\ EndQuestion("answer", summary, results,
                              BuildGrounded(summary, Readable(results)))
      <3>1. Readable(results) = results
        BY <1>1, <2>3, ReadableWhole DEF UsesSummary
      <3>2. EndQuestion("answer", summary, results, BuildGrounded(summary, results))
        BY <2>3, <3>1
      <3>3. summary \in ModelTexts
        BY DEF SearchTyped
      <3>4. CitationsAreMeant'
        BY <1>1, <3>2, <3>3, AnswersMeant
      <3> QED BY <1>4, <2>3, <3>4 DEF EndQuestion
    <2> QED BY <1>9, <2>1, <2>2, <2>3 DEF Read
  <1>10. ASSUME Draft PROVE (SearchTyped /\ CitationsAreMeant)'
    <2> DEFINE contexts == SelectPassages(Readable(results))
    <2>1. PICK T : contexts \in Seq(T)
      <3>1. PICK R : Readable(results) \in Seq(R)
        BY <1>1, ReadableWhole
      <3> QED BY <3>1, SelectedSeq
    <2>2. CASE Stop("timeout") \/ Stop("answer_error")
      BY <1>3, <1>4, <2>2, StopMeant
    <2>3. CASE \E w \in ModelTexts :
                  EndQuestion("answer", w, contexts, BuildGrounded(w, contexts))
      <3>1. PICK w \in ModelTexts :
               EndQuestion("answer", w, contexts, BuildGrounded(w, contexts))
        BY <2>3
      <3> HIDE DEF contexts
      <3>2. CitationsAreMeant'
        BY <2>1, <3>1, AnswersMeant
      <3> QED BY <1>4, <3>1, <3>2 DEF EndQuestion
    <2>4. CASE UNCHANGED <<at, asking, expired, results, summary, reply>>
      BY <1>2, <1>4, <2>4
    <2>5. CASE UNCHANGED <<asking, expired, results, summary, reply>>
      BY <1>2, <1>4, <2>5
    <2> QED BY <1>10, <2>2, <2>3, <2>5 DEF Draft
  <1>11. CASE UNCHANGED searchVars
    BY <1>2, <1>4, <1>11 DEF searchVars
  <1> QED BY <1>5, <1>6, <1>7, <1>8, <1>9, <1>10, <1>11 DEF SearchNext

LEMMA InitSearch == SearchInit => SearchTyped /\ CitationsAreMeant
  <1>1. <<>> \in UpTo(Passages \cup {Unreadable}, MaxResults)
    <2>1. 0 \in 0 .. MaxResults /\ <<>> \in [1 .. 0 -> Passages \cup {Unreadable}]
      BY SearchAssumption
    <2> QED BY <2>1 DEF UpTo
  <1> QED BY <1>1, NoTextIsText DEF SearchInit, SearchTyped, CitationsAreMeant, NoReply

\* Whoever wrote the answer, of whatever was found, a number leads to the passage
\* its writer cited by it (build_grounded, answer_question).
THEOREM CitationsLeadWhereMeant == SearchSpec => []CitationsAreMeant
  <1> DEFINE I == SearchTyped /\ CitationsAreMeant
  <1>1. SearchInit => I
    BY InitSearch
  <1>2. I /\ [SearchNext]_searchVars => I'
    BY NextSearch
  <1>3. I => CitationsAreMeant
    OBVIOUS
  <1> HIDE DEF I
  <1> QED BY <1>1, <1>2, <1>3, PTL DEF SearchSpec

\* Fewer than b others before each of them, so at most b.
LEMMA RankBound ==
  ASSUME NEW M, IsFiniteSet(M), M \subseteq Nat, NEW b \in Nat,
         \A i \in M : Cardinality(Below(M, i)) < b
  PROVE  Cardinality(M) <= b
  <1> DEFINE c == Cardinality(M)
  <1>1. c \in Nat
    BY PlacesRanked
  <1>2. CASE c > 0
    <2>1. c - 1 \in 0 .. (c - 1)
      BY <1>1, <1>2
    <2>2. PICK i \in M : PlaceOf(M, i) = c - 1
      BY <2>1, PlacesRanked
    <2> QED BY <1>1, <2>2 DEF PlaceOf
  <1> QED BY <1>1, <1>2

LEMMA FewerInSubset ==
  ASSUME NEW B, IsFiniteSet(B), NEW A \in SUBSET B, NEW b \in Nat, Cardinality(B) < b
  PROVE  Cardinality(A) < b
  <1>1. Cardinality(A) <= Cardinality(B) /\ IsFiniteSet(A)
    BY FS_Subset
  <1>2. Cardinality(A) \in Nat /\ Cardinality(B) \in Nat
    BY <1>1, FS_CardinalityType
  <1> QED BY <1>1, <1>2

\* What the officer's question is answered from is never more than asked for,
\* never more of one source than allowed, no passage twice, and never nothing
\* while there is a passage: the best one always survives (select_passages).
THEOREM SelectionStaysSmall ==
  ASSUME NEW S, NEW ps \in Seq(S)
  PROVE  LET got == SelectPassages(ps) IN
         /\ Len(got) <= MaxPassages
         /\ \A m, n \in DOMAIN got : got[m] = got[n] => m = n
         /\ \A x : Cardinality({n \in DOMAIN got : got[n].source = x}) <= MaxPerSource
         /\ ps # <<>> => got # <<>> /\ got[1] = ps[1]
  <1> DEFINE fresh == {i \in DOMAIN ps : \A j \in 1 .. i - 1 : ps[j] # ps[i]}
             rivals(i) == {j \in fresh : j < i /\ ps[j].source = ps[i].source}
             usable == {i \in fresh : Cardinality(rivals(i)) < MaxPerSource}
             before(i) == {j \in usable : j < i}
             fits(i) == before(i) # {} =>
                 /\ Cardinality(before(i)) < MaxPassages
                 /\ MaxChars > 0 => CharsOf(ps, before(i)) + ps[i].size <= MaxChars
             K == {i \in usable : \A j \in usable : j <= i => fits(j)}
             got == SelectPassages(ps)
             c == Cardinality(K)
  <1>0. MaxPassages \in Nat /\ MaxPassages > 0 /\ MaxPerSource \in Nat /\ MaxPerSource > 0
    BY SearchAssumption
  <1>1. got = Elements(ps, K)
    BY DEF SelectPassages
  <1>2. IsFiniteSet(DOMAIN ps) /\ DOMAIN ps = 1 .. Len(ps) /\ Len(ps) \in Nat
    <2>1. DOMAIN ps = 1 .. Len(ps) /\ Len(ps) \in Nat
      OBVIOUS
    <2> QED BY <2>1, FS_Interval
  <1>3. /\ IsFiniteSet(fresh) /\ IsFiniteSet(usable) /\ IsFiniteSet(K)
        /\ K \subseteq usable /\ usable \subseteq fresh /\ fresh \subseteq 1 .. Len(ps)
    <2>1. K \in SUBSET DOMAIN ps /\ usable \in SUBSET DOMAIN ps /\ fresh \in SUBSET DOMAIN ps
      OBVIOUS
    <2> QED BY <1>2, <2>1, FS_Subset
  <1>4. \A i \in K : Cardinality(Below(K, i)) < MaxPassages
    <2>1. TAKE i \in K
    <2>2. Below(K, i) \in SUBSET before(i) /\ before(i) \in SUBSET usable
      BY <1>3 DEF Below
    <2>3. IsFiniteSet(before(i))
      <3> HIDE DEF before, usable
      <3> QED BY <1>3, <2>2, FS_Subset
    <2>4. Cardinality(before(i)) < MaxPassages
      <3>1. CASE before(i) = {}
        <4>1. Cardinality(before(i)) = 0
          BY <3>1, FS_EmptySet
        <4> HIDE DEF before
        <4> QED BY <1>0, <4>1
      <3>2. CASE before(i) # {}
        <4>1. i \in usable /\ i \in 1 .. Len(ps)
          BY <1>3
        <4>2. i <= i
          BY <1>2, <4>1
        <4>3. fits(i)
          <5> HIDE DEF usable, fits
          <5> QED BY <4>1, <4>2
        <4> QED BY <3>2, <4>3
      <3> QED BY <3>1, <3>2
    <2> HIDE DEF before, K
    <2> QED BY <1>0, <2>2, <2>3, <2>4, FewerInSubset
  <1>5. \A i, j \in K : ps[i] = ps[j] => i = j
    <2>1. TAKE i, j \in K
    <2>2. i \in 1 .. Len(ps) /\ j \in 1 .. Len(ps) /\ i \in fresh /\ j \in fresh
      BY <1>3
    <2>3. /\ i < j => i \in 1 .. j - 1
          /\ j < i => j \in 1 .. i - 1
      BY <2>2
    <2> HIDE DEF K
    <2> QED BY <2>2, <2>3
  <1>6. ASSUME NEW x PROVE Cardinality({i \in K : ps[i].source = x}) <= MaxPerSource
    <2> DEFINE M == {i \in K : ps[i].source = x}
    <2>1. M \in SUBSET K /\ IsFiniteSet(M)
      <3>1. M \in SUBSET K
        OBVIOUS
      <3> HIDE DEF M, K
      <3> QED BY <1>3, <3>1, FS_Subset
    <2>2. ASSUME NEW i \in M PROVE Cardinality(Below(M, i)) < MaxPerSource
      <3>1. i \in usable /\ Below(M, i) \in SUBSET rivals(i) /\ rivals(i) \in SUBSET fresh
        BY <1>3 DEF Below
      <3>2. IsFiniteSet(rivals(i)) /\ Cardinality(rivals(i)) < MaxPerSource
        BY <1>3, <3>1, FS_Subset
      <3> HIDE DEF rivals, M
      <3> QED BY <1>0, <3>1, <3>2, FewerInSubset
    <2> HIDE DEF M
    <2>3. M \subseteq Nat
      <3> HIDE DEF K, usable, fresh
      <3> QED BY <1>2, <1>3, <2>1
    <2>4. Cardinality(M) <= MaxPerSource
      BY <1>0, <2>1, <2>2, <2>3, RankBound
    <2> QED BY <2>4 DEF M
  <1>7. ps # <<>> => 1 \in K
    <2>1. SUFFICES ASSUME ps # <<>> PROVE 1 \in K
      OBVIOUS
    <2>2. 1 \in 1 .. Len(ps)
      BY <1>2, <2>1
    <2>3. 1 \in fresh
      BY <1>2, <2>2
    <2>4. \A j \in fresh : ~(j < 1) /\ (j <= 1 => j = 1)
      BY <1>2, <1>3
    <2>5. 1 \in usable
      <3>1. rivals(1) = {}
        BY <2>4
      <3> QED BY <1>0, <2>3, <3>1, FS_EmptySet
    <2>6. before(1) = {} /\ \A j \in usable : j <= 1 => j = 1
      BY <1>3, <2>4
    <2> QED BY <2>5, <2>6
  <1>8. K \subseteq 1 .. Len(ps) /\ K \subseteq Nat
    BY <1>3
  <1> HIDE DEF K, usable, fresh
  <1>9. c \in Nat /\ c <= MaxPassages
    BY <1>0, <1>3, <1>4, <1>8, RankBound, PlacesRanked
  <1>10. /\ got \in [1 .. c -> {ps[i] : i \in K}]
         /\ \A n \in 1 .. c : \E i \in K : PlaceOf(K, i) = n - 1 /\ got[n] = ps[i]
    <2>1. Enumerates(got, ps, K)
      BY <1>1, <1>3, <1>8, ElementsAre
    <2> HIDE DEF got
    <2> QED BY <2>1 DEF Enumerates
  <1> HIDE DEF got
  <1>11. DOMAIN got = 1 .. c /\ Len(got) = c
    <2>1. got \in Seq({ps[i] : i \in K})
      BY <1>9, <1>10
    <2> QED BY <1>9, <1>10, <2>1
  <1> DEFINE place(n) == CHOOSE i \in K : PlaceOf(K, i) = n - 1 /\ got[n] = ps[i]
  <1>12. \A n \in 1 .. c : /\ place(n) \in K /\ PlaceOf(K, place(n)) = n - 1
                           /\ got[n] = ps[place(n)]
    BY <1>10
  <1> HIDE DEF place, c
  <1>13. \A m, n \in 1 .. c : place(m) = place(n) => m = n
    <2>1. TAKE m, n \in 1 .. c
    <2>2. place(m) = place(n) => m - 1 = n - 1
      BY <1>12
    <2> QED BY <2>2
  <1>14. \A m, n \in DOMAIN got : got[m] = got[n] => m = n
    BY <1>5, <1>11, <1>12, <1>13
  <1>15. ASSUME NEW x
         PROVE  Cardinality({n \in DOMAIN got : got[n].source = x}) <= MaxPerSource
    <2> DEFINE D == {n \in DOMAIN got : got[n].source = x}
               M == {i \in K : ps[i].source = x}
               f == [n \in D |-> place(n)]
    <2>1. IsFiniteSet(M)
      BY <1>3, FS_Subset
    <2>2. f \in Injection(D, M)
      <3>1. \A n \in D : n \in 1 .. c /\ place(n) \in M
        BY <1>11, <1>12
      <3> HIDE DEF D, M
      <3> QED BY <1>13, <3>1 DEF Injection, IsInjective
    <2> HIDE DEF D, M, f
    <2>3. IsFiniteSet(D) /\ Cardinality(D) <= Cardinality(M)
      BY <2>1, <2>2, FS_Injection
    <2>4. Cardinality(D) \in Nat /\ Cardinality(M) \in Nat /\ Cardinality(M) <= MaxPerSource
      BY <1>6, <2>1, <2>3, FS_CardinalityType DEF M
    <2>5. Cardinality(D) <= MaxPerSource
      BY <1>0, <2>3, <2>4
    <2> QED BY <2>5 DEF D
  <1>16. ASSUME ps # <<>> PROVE got # <<>> /\ got[1] = ps[1]
    <2>1. 1 \in K
      BY <1>7, <1>16
    <2>2. Below(K, 1) = {} /\ PlaceOf(K, 1) = 0
      <3>1. \A i \in K : ~(i < 1)
        BY <1>2, <1>8
      <3>2. Below(K, 1) = {}
        BY <3>1 DEF Below
      <3> QED BY <3>2, FS_EmptySet DEF PlaceOf
    <2>3. PlaceOf(K, 1) \in 0 .. (c - 1)
      BY <1>3, <1>8, <2>1, PlacesRanked DEF c
    <2>4. 1 \in 1 .. c
      BY <1>9, <2>2, <2>3 DEF c
    <2>5. PlaceOf(K, place(1)) = PlaceOf(K, 1) /\ place(1) \in K /\ got[1] = ps[place(1)]
      BY <1>12, <2>2, <2>4
    <2>6. place(1) = 1
      BY <1>3, <1>8, <2>1, <2>5, PlacesRanked
    <2> QED BY <1>11, <2>4, <2>5, <2>6
  <1> QED BY <1>9, <1>11, <1>14, <1>15, <1>16 DEF got, c

-----------------------------------------------------------------------------
(* ReportGeneration, the mentions: any people, notes and drafts.            *)
(*                                                                         *)
(* A mention that stands for somebody on the list is matched as a whole or *)
(* not at all: a match inside it needs a mention whose own person, or      *)
(* title, is not on the list (RewritingKeeps).  repair only cuts the end   *)
(* of a text (RepairCuts), so what was kept once stays kept through a      *)
(* second pass.                                                            *)

IsText(t) == \E S : t \in Seq(S)

\* The match of a mention is on the list and one of those it was chosen from.
LEMMA MatchedIs ==
  ASSUME NEW persons \in Seq(People), NEW t, Matched(t, persons) # Nobody
  PROVE  /\ Matched(t, persons) \in Range(persons)
         /\ IF MatchWhole(t, persons) # {} THEN Matched(t, persons) \in MatchWhole(t, persons)
            ELSE Matched(t, persons) \in MatchPart(t, persons)
  <1> DEFINE who == IF MatchWhole(t, persons) # {} THEN MatchWhole(t, persons)
                    ELSE MatchPart(t, persons)
             named == {i \in DOMAIN persons : persons[i] \in who}
  <1>1. who # {} /\ Matched(t, persons) = FirstAmong(persons, who)
    BY DEF Matched
  <1>2. who \subseteq Range(persons)
    BY DEF MatchWhole, MatchPart, Denotes
  <1>3. /\ DOMAIN persons = 1 .. Len(persons) /\ Len(persons) \in Nat
        /\ 1 .. Len(persons) \subseteq Nat
    OBVIOUS
  <1>4. IsFiniteSet(DOMAIN persons)
    BY <1>3, FS_Interval
  <1>5. FirstAmong(persons, who) \in who
    <2>1. named # {}
      BY <1>1, <1>2 DEF Range
    <2>2. IsFiniteSet(named) /\ named \subseteq Nat
      BY <1>3, <1>4, FS_Subset
    <2>3. Min(named) \in named
      BY <2>1, <2>2, LeastPlace
    <2> HIDE DEF who
    <2> QED BY <2>3 DEF FirstAmong
  <1> QED BY <1>1, <1>2, <1>5

\* A surname that is not ambiguous is that of one person of the list.
LEMMA OneOfTheName ==
  ASSUME NEW persons \in Seq(People), NEW p \in Range(persons), NEW q \in Range(persons),
         Surname[p] = Surname[q], ~Ambiguous(Surname[p], persons)
  PROVE  p = q
  <1> DEFINE places == {i \in DOMAIN persons : Surname[persons[i]] = Surname[p]}
  <1>1. /\ DOMAIN persons = 1 .. Len(persons) /\ Len(persons) \in Nat
    OBVIOUS
  <1>2. IsFiniteSet(places)
    <2>1. IsFiniteSet(DOMAIN persons) /\ places \in SUBSET DOMAIN persons
      BY <1>1, FS_Interval
    <2> HIDE DEF places
    <2> QED BY <2>1, FS_Subset
  <1>3. PICK i \in places, j \in places : persons[i] = p /\ persons[j] = q
    BY DEF Range
  <1>4. ~(Cardinality(places) > 1)
    BY DEF Ambiguous
  <1> HIDE DEF places
  <1>5. SUFFICES ASSUME i # j PROVE FALSE
    BY <1>3
  <1>6. Cardinality(places) \in Nat /\ Cardinality({i}) = 1 /\ {i} \in SUBSET places
    BY <1>2, <1>3, FS_CardinalityType, FS_Singleton
  <1>7. Cardinality({i}) <= Cardinality(places)
    BY <1>2, <1>6, FS_Subset
  <1>8. Cardinality(places) = Cardinality({i})
    BY <1>4, <1>6, <1>7
  <1>9. {i} = places
    BY <1>2, <1>6, <1>8, FS_Subset
  <1> QED BY <1>3, <1>5, <1>9

\* _rewrite keeps a mention, or spoils one that stood for nobody on the list.
LEMMA RewritingKeeps ==
  ASSUME NEW persons \in Seq(People), NEW t, Mention(t), Matched(t, persons) # Nobody,
         NEW again
  PROVE  LET new == Rewritten(t, Matched(t, persons), again, persons)
         IN  new.is # "closer" /\ MentionKept(t, new, persons)
  <1> DEFINE p == Matched(t, persons)
             new == Rewritten(t, p, again, persons)
             told == \A x, y \in Range(persons) : Qualified(x) = Qualified(y) => x = y
  <1>1. /\ p \in Range(persons)
        /\ IF MatchWhole(t, persons) # {} THEN p \in MatchWhole(t, persons)
           ELSE p \in MatchPart(t, persons)
    BY MatchedIs
  <1> HIDE DEF p
  <1>2. Surname[p] = Surname[t.of]
    <2>1. CASE MatchWhole(t, persons) # {}
      BY <1>1, <2>1 DEF MatchWhole, Denotes, Qualified
    <2>2. CASE MatchWhole(t, persons) = {}
      BY <1>1, <2>2 DEF MatchPart
    <2> QED BY <2>1, <2>2
  <1>3. CASE MatchWhole(t, persons) # {}
    <2>1. PICK form \in {"short", "full"} : new = [is |-> form, of |-> p]
      BY <1>3 DEF Rewritten
    <2>2. ASSUME told PROVE Denotes(t, persons) = {p}
      <3>1. p \in Denotes(t, persons) /\ (t.is = "bare" => ~Ambiguous(Surname[p], persons))
        BY <1>1, <1>3 DEF MatchWhole
      <3>2. CASE t.is = "bare"
        <4>1. \A q \in Denotes(t, persons) : q \in Range(persons) /\ Surname[q] = Surname[p]
          BY <1>2, <3>2 DEF Denotes
        <4>2. \A q \in Denotes(t, persons) : q = p
          BY <1>1, <3>1, <3>2, <4>1, OneOfTheName
        <4> QED BY <3>1, <4>2
      <3>3. CASE t.is = "short"
        <4>1. \A q \in Denotes(t, persons) : q \in Range(persons) /\ Qualified(q) = Qualified(t.of)
          BY <3>3 DEF Denotes
        <4> HIDE DEF told
        <4>2. \A q \in Denotes(t, persons) : q = p
          BY <1>1, <2>2, <3>1, <4>1 DEF told
        <4> QED BY <3>1, <4>2
      <3>4. CASE t.is = "full"
        BY <3>1, <3>4 DEF Denotes
      <3> QED BY <3>2, <3>3, <3>4 DEF Mention
    <2>3. ASSUME told PROVE Denotes([is |-> form, of |-> p], persons) = {p}
      <3>1. CASE form = "full"
        BY <1>1, <3>1 DEF Denotes
      <3>2. CASE form = "short"
        <4>1. Denotes([is |-> form, of |-> p], persons)
                 = {q \in Range(persons) : Qualified(q) = Qualified(p)}
          BY <3>2 DEF Denotes
        <4> QED BY <1>1, <2>3, <4>1
      <3> QED BY <3>1, <3>2
    <2>4. told => Denotes(new, persons) = Denotes(t, persons)
      BY <2>1, <2>2, <2>3
    <2>5. new.is # "closer"
      BY <2>1
    <2> HIDE DEF new
    <2> QED BY <1>1, <1>2, <2>4, <2>5 DEF MentionKept, new, p
  <1>4. CASE MatchWhole(t, persons) = {}
    <2>1. Denotes(t, persons) = {}
      <3>1. SUFFICES ASSUME Denotes(t, persons) # {} PROVE FALSE
        OBVIOUS
      <3>2. t.is = "bare" /\ \A q \in Denotes(t, persons) : Ambiguous(Surname[q], persons)
        BY <1>4, <3>1 DEF MatchWhole
      <3>3. p \in Denotes(t, persons)
        BY <1>1, <1>2, <3>2 DEF Denotes
      <3>4. ~Ambiguous(Surname[p], persons)
        BY <1>1, <1>4, <3>2 DEF MatchPart
      <3> QED BY <3>2, <3>3, <3>4
    <2>2. new.is # "closer"
      <3>1. new = t \/ new = [is |-> "mixed", of |-> p]
        BY <1>4 DEF Rewritten
      <3> HIDE DEF new
      <3> QED BY <3>1 DEF Mention
    <2> HIDE DEF new
    <2> QED BY <1>1, <1>2, <2>1, <2>2 DEF MentionKept, new, p
  <1> QED BY <1>3, <1>4

\* Each mention of a draft is still in the text, and no other mention now.
ReadsAsWritten(text, draft, persons) ==
    /\ IsText(text)
    /\ draft # Failed =>
          \A i \in DOMAIN draft : Mention(draft[i]) =>
              /\ i \in DOMAIN text /\ text[i].is # "closer"
              /\ MentionKept(draft[i], text[i], persons)

LEMMA NamingKeeps ==
  ASSUME NEW persons \in Seq(People), NEW text, IsText(text)
  PROVE  ReadsAsWritten(EnforceNaming(text, persons), text, persons)
  <1> DEFINE new == EnforceNaming(text, persons)
             S == {new[i] : i \in 1 .. Len(text)}
  <1>1. DOMAIN text = 1 .. Len(text) /\ Len(text) \in Nat
    BY DEF IsText
  <1>2. new = [i \in DOMAIN text |-> new[i]]
    BY DEF EnforceNaming
  <1>3. ASSUME NEW i \in DOMAIN text, Mention(text[i])
        PROVE  new[i].is # "closer" /\ MentionKept(text[i], new[i], persons)
    <2> DEFINE p == Matched(text[i], persons)
    <2>1. CASE p = Nobody
      <3>1. new[i] = text[i]
        BY <1>3, <2>1 DEF EnforceNaming
      <3> HIDE DEF new
      <3> QED BY <1>3, <3>1 DEF MentionKept, Mention
    <2>2. CASE p # Nobody
      <3>1. PICK again : new[i] = Rewritten(text[i], p, again, persons)
        <4>1. new[i] = Rewritten(text[i], p, \E j \in 1 .. i - 1 : Matched(text[j], persons) = p,
                                 persons)
          BY <1>3, <2>2 DEF EnforceNaming
        <4> QED BY <4>1
      <3> HIDE DEF new
      <3> QED BY <1>3, <2>2, <3>1, RewritingKeeps
    <2> QED BY <2>1, <2>2
  <1> HIDE DEF new
  <1>4. new \in [1 .. Len(text) -> S]
    BY <1>1, <1>2
  <1> HIDE DEF S
  <1>5. new \in Seq(S)
    BY <1>1, <1>4
  <1>6. IsText(new) /\ DOMAIN new = DOMAIN text
    BY <1>1, <1>4, <1>5 DEF IsText
  <1> QED BY <1>3, <1>6 DEF ReadsAsWritten, new

\* repair takes at most a closing phrase off the end.
LEMMA RepairCuts ==
  ASSUME NEW text, IsText(text)
  PROVE  IsText(Repair(text)) /\ OnlyClosersCut(text, Repair(text))
  <1>1. CASE ~(text # <<>> /\ Last(text).is = "closer")
    BY <1>1 DEF Repair, OnlyClosersCut
  <1>2. CASE text # <<>> /\ Last(text).is = "closer"
    <2>1. PICK S : text \in Seq(S)
      BY DEF IsText
    <2>2. Len(text) \in Nat /\ Len(text) # 0 /\ DOMAIN text = 1 .. Len(text)
      BY <1>2, <2>1
    <2> DEFINE n == Len(text) - 1
               new == SubSeq(text, 1, n)
    <2>3. n \in Nat /\ n <= Len(text) /\ 1 .. Len(text) = (1 .. n) \cup {Len(text)}
      BY <2>2
    <2>4. /\ new \in Seq(S) /\ Len(new) = n /\ \A k \in 1 .. n : new[k] = text[k]
      BY <2>1, <2>3, FirstOf
    <2>5. Repair(text) = new
      BY <1>2 DEF Repair, Front
    <2>6. text[Len(text)].is = "closer"
      BY <1>2 DEF Last
    <2> HIDE DEF new, n
    <2>7. DOMAIN new = 1 .. n
      BY <2>4
    <2>8. OnlyClosersCut(text, new)
      BY <2>2, <2>3, <2>4, <2>6, <2>7 DEF OnlyClosersCut
    <2> QED BY <2>4, <2>5, <2>8 DEF IsText
  <1> QED BY <1>1, <1>2

LEMMA RepairKeeps ==
  ASSUME NEW text, NEW draft, NEW persons, ReadsAsWritten(text, draft, persons)
  PROVE  ReadsAsWritten(Repair(text), draft, persons)
  <1>1. IsText(Repair(text)) /\ OnlyClosersCut(text, Repair(text))
    BY RepairCuts DEF ReadsAsWritten
  <1>2. \A i \in DOMAIN text : text[i].is # "closer" =>
           i \in DOMAIN Repair(text) /\ Repair(text)[i] = text[i]
    BY <1>1 DEF OnlyClosersCut
  <1> QED BY <1>1, <1>2 DEF ReadsAsWritten

LEMMA WrittenReads ==
  ASSUME WizardOK, NEW draft \in Drafts \cup {Failed}
  PROVE  ReadsAsWritten(Repair(Written(draft)), draft, wizard.notes.persons)
  <1>1. wizard.notes.persons \in Seq(People)
    BY GenAssumption DEF WizardOK
  <1>2. CASE draft = Failed
    <2>1. ErrorText \in Seq({[is |-> "error", of |-> Nobody]})
      BY DEF ErrorText
    <2>2. Written(draft) = ErrorText /\ IsText(ErrorText)
      BY <1>2, <2>1 DEF Written, IsText
    <2> QED BY <1>2, <2>2, RepairKeeps DEF ReadsAsWritten
  <1>3. CASE draft # Failed
    <2>1. IsText(draft)
      BY <1>3, GenAssumption DEF IsText
    <2>2. Written(draft) = EnforceNaming(draft, wizard.notes.persons)
      BY <1>3 DEF Written
    <2> QED BY <1>1, <2>1, <2>2, NamingKeeps, RepairKeeps
  <1> QED BY <1>2, <1>3

\* The texts of the result are texts, and read as the drafts they were made from.
TextsRead ==
    /\ DOMAIN outcome.drafts \subseteq DOMAIN outcome.texts
    /\ \A k \in DOMAIN outcome.texts : IsText(outcome.texts[k])
    /\ \A k \in DOMAIN outcome.drafts :
          ReadsAsWritten(outcome.texts[k], outcome.drafts[k], wizard.notes.persons)

\* What a pass leaves of what it carries over, whatever it writes.
LEMMA PassTexts ==
  ASSUME NEW carried, NEW drafts, NEW errors, NEW isDeferred, NEW name
  PROVE  LET f == Finalize(carried, drafts, errors, isDeferred, name) IN
         /\ DOMAIN f.texts = DOMAIN drafts \cup DOMAIN carried
         /\ DOMAIN f.drafts = DOMAIN drafts \cup (DOMAIN carried \cap DOMAIN outcome.drafts)
         /\ \A k \in DOMAIN drafts :
               f.texts[k] = Repair(Written(drafts[k])) /\ f.drafts[k] = drafts[k]
         /\ \A k \in DOMAIN carried \ DOMAIN drafts :
               /\ f.texts[k] = Repair(carried[k])
               /\ k \in DOMAIN outcome.drafts => f.drafts[k] = outcome.drafts[k]
  <1> DEFINE raw == Over([k \in DOMAIN drafts |-> Written(drafts[k])], carried)
             texts == [k \in DOMAIN raw |-> Repair(raw[k])]
             old == DraftsOf(DOMAIN carried)
             of == Over(drafts, old)
             f == Finalize(carried, drafts, errors, isDeferred, name)
  <1>1. f.texts = texts /\ f.drafts = of
    BY Zenon DEF Finalize
  <1>2. /\ DOMAIN raw = DOMAIN drafts \cup DOMAIN carried
        /\ \A k \in DOMAIN raw :
              raw[k] = IF k \in DOMAIN drafts THEN Written(drafts[k]) ELSE carried[k]
    BY DEF Over
  <1>3. /\ DOMAIN of = DOMAIN drafts \cup DOMAIN old
        /\ \A k \in DOMAIN of : of[k] = IF k \in DOMAIN drafts THEN drafts[k] ELSE old[k]
    BY DEF Over
  <1>4. /\ DOMAIN old = DOMAIN carried \cap DOMAIN outcome.drafts
        /\ \A k \in DOMAIN old : old[k] = outcome.drafts[k]
    BY DEF DraftsOf
  <1>5. DOMAIN texts = DOMAIN raw /\ \A k \in DOMAIN raw : texts[k] = Repair(raw[k])
    OBVIOUS
  <1> HIDE DEF raw, texts, old, of, f
  <1> QED BY <1>1, <1>2, <1>3, <1>4, <1>5 DEF f

LEMMA NextReads ==
  ASSUME WizardOK, TextsRead, [GenNext]_genVars
  PROVE  TextsRead'
  <1>1. wizard'.notes = wizard.notes
    BY NotesStay
  <1>2. CASE outcome' = outcome
    BY <1>1, <1>2 DEF TextsRead
  <1>3. CASE outcome' = NoOutcome
    BY <1>3 DEF TextsRead, NoOutcome
  <1>4. ASSUME NEW carried, NEW drafts, Pass(carried, drafts) PROVE TextsRead'
    <2>1. PICK errors, isDeferred, name :
             outcome' = Finalize(carried, drafts, errors, isDeferred, name)
      BY <1>4 DEF Pass
    <2> DEFINE f == Finalize(carried, drafts, errors, isDeferred, name)
    <2>2. /\ DOMAIN f.texts = DOMAIN drafts \cup DOMAIN carried
          /\ DOMAIN f.drafts = DOMAIN drafts \cup (DOMAIN carried \cap DOMAIN outcome.drafts)
          /\ \A k \in DOMAIN drafts :
                f.texts[k] = Repair(Written(drafts[k])) /\ f.drafts[k] = drafts[k]
          /\ \A k \in DOMAIN carried \ DOMAIN drafts :
                /\ f.texts[k] = Repair(carried[k])
                /\ k \in DOMAIN outcome.drafts => f.drafts[k] = outcome.drafts[k]
      BY PassTexts
    <2>3. outcome' = f
      BY <2>1
    <2> HIDE DEF f
    <2>4. ASSUME NEW k \in DOMAIN drafts
          PROVE  ReadsAsWritten(f.texts[k], f.drafts[k], wizard.notes.persons)
      BY <1>4, <2>2, WrittenReads DEF Pass
    <2>5. ASSUME NEW k \in DOMAIN carried \ DOMAIN drafts
          PROVE  /\ IsText(f.texts[k])
                 /\ k \in DOMAIN outcome.drafts =>
                       ReadsAsWritten(f.texts[k], f.drafts[k], wizard.notes.persons)
      <3>1. CASE k \in DOMAIN outcome.texts
        <4>1. carried[k] = outcome.texts[k]
          BY <1>4, <3>1 DEF Pass
        <4> QED BY <2>2, <3>1, <4>1, RepairCuts, RepairKeeps DEF TextsRead
      <3>2. CASE k \notin DOMAIN outcome.texts
        <4>1. carried[k] = <<>> /\ k \notin DOMAIN outcome.drafts
          BY <1>4, <3>2 DEF Pass, TextsRead
        <4>2. IsText(<<>>)
          <5>1. <<>> \in Seq({})
            OBVIOUS
          <5> QED BY <5>1 DEF IsText
        <4> QED BY <2>2, <4>1, <4>2, RepairCuts
      <3> QED BY <3>1, <3>2
    <2> QED BY <1>1, <2>2, <2>3, <2>4, <2>5 DEF TextsRead, ReadsAsWritten
  <1> QED BY <1>2, <1>3, <1>4, PassesAre

LEMMA InitReads == GenInit => TextsRead
  BY DEF GenInit, TextsRead, NoOutcome

LEMMA TextsReadKept == TextsRead => MentionsAreKept
  BY DEF TextsRead, ReadsAsWritten, MentionsAreKept

\* Whatever the models write and however many passes go over it, no mention moves
\* to somebody else (enforce_naming, repair).
THEOREM MentionsStand == GenSpec => []MentionsAreKept
  <1> DEFINE I == WizardOK /\ TextsRead
  <1>1. GenInit => I
    BY InitWizard, InitReads
  <1>2. I /\ [GenNext]_genVars => I'
    BY NotesStay, NextReads
  <1>3. I => MentionsAreKept
    BY TextsReadKept
  <1> HIDE DEF I
  <1> QED BY <1>1, <1>2, <1>3, PTL DEF GenSpec

-----------------------------------------------------------------------------
(* The second request: while the supplement is awaited the result is that  *)
(* of the batch alone, all of which the second pass resumes.               *)

Awaited == wizard.phase \in {"deferred", "lost"} => DOMAIN outcome.texts \subseteq BatchKinds

LEMMA NextAwaits ==
  ASSUME WizardOK, Awaited, [GenNext]_genVars
  PROVE  Awaited'
  <1>1. CASE GenClassify \/ GenRefuseClassification \/ GenExtract \/ GenLose \/ UNCHANGED genVars
    BY <1>1 DEF WizardOK, Awaited, GenClassify, GenRefuseClassification, GenExtract, GenLose,
                At, Move, genVars
  <1>2. ASSUME NEW answers, NEW name, NEW confirmed, GenAnswer(answers, name, confirmed)
        PROVE  Awaited'
    BY <1>2 DEF WizardOK, Awaited, GenAnswer
  <1>3. ASSUME NEW confirmed, GenConfirm(confirmed) PROVE Awaited'
    BY <1>3 DEF WizardOK, Awaited, GenConfirm, At
  <1>4. ASSUME NEW i, GenTap(i) PROVE Awaited'
    BY <1>4 DEF WizardOK, Awaited, GenTap
  <1>5. ASSUME NEW drafts \in [BatchOf -> Drafts \cup {Failed}], GenGenerate(drafts)
        PROVE  Awaited'
    <2> DEFINE carried == <<>>
    <2>1. \E errors, isDeferred, name :
             outcome' = Finalize(carried, drafts, errors, isDeferred, name)
      BY <1>5 DEF GenGenerate
    <2>2. DOMAIN drafts = BatchOf /\ DOMAIN carried = {}
      OBVIOUS
    <2> HIDE DEF carried
    <2>3. DOMAIN outcome'.texts = DOMAIN drafts \cup DOMAIN carried
      BY <2>1, PassTexts
    <2> QED BY <2>2, <2>3 DEF Awaited, BatchOf, BatchKinds
  <1>6. ASSUME NEW draft, GenSupplement(draft) PROVE Awaited'
    BY <1>6 DEF WizardOK, Awaited, GenSupplement, Move
  <1>7. ASSUME NEW done, NEW wanted, wizard.phase \in {"answered", "accepted"},
               GenJobEnds(done, wanted)
        PROVE  Awaited'
    BY <1>7 DEF WizardOK, Awaited, GenJobEnds, Move
  <1>8. ASSUME NEW drafts, GenJob(drafts) PROVE Awaited'
    <2>1. /\ wizard.phase \in {"answered", "accepted"}
          /\ \E done, wanted : GenJobEnds(done, wanted)
      BY <1>8 DEF GenJob, JobMayRun
    <2> QED BY <1>7, <2>1
  <1>9. ASSUME NEW draft, GenSupplementJob(draft) PROVE Awaited'
    <2>1. /\ wizard.phase \in {"answered", "accepted"}
          /\ \E done, wanted : GenJobEnds(done, wanted)
      BY <1>9 DEF GenSupplementJob, JobMayRun
    <2> QED BY <1>7, <2>1
  <1> QED BY <1>1, <1>2, <1>3, <1>4, <1>5, <1>6, <1>8, <1>9 DEF GenNext

\* The step of ReportsAreKept.
KeepsReports ==
    outcome'.pass = "second" =>
        \A k \in DOMAIN outcome.texts :
            /\ k \in DOMAIN outcome'.texts
            /\ OnlyClosersCut(outcome.texts[k], outcome'.texts[k])

LEMMA SecondPassKeeps ==
  ASSUME Awaited, TextsRead, NEW draft, GenSupplement(draft)
  PROVE  KeepsReports
  <1> DEFINE drafts == SupplementDraft(draft)
             carried == [k \in DOMAIN outcome.texts \cap Resumable |-> outcome.texts[k]]
  <1>1. DOMAIN outcome.texts \subseteq BatchKinds
    BY DEF GenSupplement, Awaited
  <1>2. DOMAIN carried = DOMAIN outcome.texts
    BY <1>1 DEF Resumable
  <1>3. \A k \in DOMAIN outcome.texts : k \notin DOMAIN drafts
    BY <1>1, BatchHasNoSupplement DEF SupplementDraft
  <1>4. \A k \in DOMAIN carried : carried[k] = outcome.texts[k]
    OBVIOUS
  <1>5. \E errors, isDeferred, name :
           outcome' = Finalize(carried, drafts, errors, isDeferred, name)
    BY DEF GenSupplement
  <1> HIDE DEF carried, drafts
  <1>6. /\ DOMAIN outcome'.texts = DOMAIN drafts \cup DOMAIN carried
        /\ \A k \in DOMAIN carried \ DOMAIN drafts : outcome'.texts[k] = Repair(carried[k])
    BY <1>5, PassTexts
  <1> QED BY <1>2, <1>3, <1>4, <1>6, RepairCuts DEF TextsRead, KeepsReports

LEMMA NextKeepsReports ==
  ASSUME Awaited, TextsRead, [GenNext]_genVars
  PROVE  KeepsReports
  <1>1. ASSUME outcome' = outcome PROVE KeepsReports
    BY <1>1 DEF KeepsReports, OnlyClosersCut
  <1>2. ASSUME NEW carried, NEW drafts, NEW errors, NEW isDeferred, NEW name, name # "second",
               outcome' = Finalize(carried, drafts, errors, isDeferred, name)
        PROVE  KeepsReports
    <2>1. outcome'.pass = name
      BY <1>2, Zenon DEF Finalize
    <2> QED BY <1>2, <2>1 DEF KeepsReports
  <1>3. ASSUME NEW drafts, GenGenerate(drafts) PROVE KeepsReports
    BY <1>2, <1>3 DEF GenGenerate
  <1>4. ASSUME NEW drafts, GenJob(drafts) PROVE KeepsReports
    <2>1. \/ outcome' = outcome
          \/ outcome' = Finalize(<<>>, drafts, FailedOf(drafts), FALSE, "job")
      BY <1>4 DEF GenJob, GenJobEnds
    <2> QED BY <1>1, <1>2, <2>1
  <1>5. ASSUME NEW draft, GenSupplementJob(draft) PROVE KeepsReports
    <2>1. \/ outcome' = outcome
          \/ \E carried, drafts : outcome' = Finalize(carried, drafts, FailedOf(drafts), FALSE,
                                                      "supplement job")
      BY <1>5 DEF GenSupplementJob, GenJobEnds
    <2> QED BY <1>1, <1>2, <2>1
  <1>6. ASSUME NEW i, GenTap(i) PROVE KeepsReports
    BY <1>6 DEF GenTap, NoOutcome, KeepsReports
  <1>7. ASSUME \/ GenClassify \/ GenRefuseClassification \/ GenExtract \/ GenLose
               \/ \E answers \in Answers, name \in Officers \cup {Nobody},
                     confirmed \in SUBSET Charges : GenAnswer(answers, name, confirmed)
               \/ \E confirmed \in SUBSET Charges : GenConfirm(confirmed)
               \/ UNCHANGED genVars
        PROVE  outcome' = outcome
    BY <1>7
       DEF GenClassify, GenRefuseClassification, GenExtract, GenLose, GenAnswer,
           GenConfirm, genVars
  <1> QED BY <1>1, <1>3, <1>4, <1>5, <1>6, <1>7, SecondPassKeeps DEF GenNext

\* The second request's result holds every report of the first, cut at most by
\* closing phrases, whatever the officer ticked in between and whether or not the
\* supplement was written (_generate_disciplinary_report).
THEOREM SecondPassKeepsReports == GenSpec => ReportsAreKept
  <1> DEFINE I == WizardOK /\ TextsRead /\ Awaited
  <1>1. GenInit => I
    BY InitWizard, InitReads DEF GenInit, Awaited
  <1>2. I /\ [GenNext]_genVars => I'
    BY NotesStay, NextReads, NextAwaits
  <1>3. I /\ [GenNext]_genVars => KeepsReports
    BY NextKeepsReports
  <1> HIDE DEF I
  <1>4. GenSpec => [][KeepsReports]_genVars
    BY <1>1, <1>2, <1>3, PTL DEF GenSpec
  <1> QED BY <1>4 DEF ReportsAreKept, KeepsReports
=============================================================================
