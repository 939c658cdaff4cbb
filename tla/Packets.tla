------------------------------- MODULE Packets -------------------------------
(***************************************************************************)
(* The paperwork packet of an incident: the forms its checklist asks for,  *)
(* the digital forms filled from its facts, the acknowledgment of forms    *)
(* kept on paper and the record of what was printed                        *)
(* (backend/forms/packets.py, population.py, manual.py, physical.py,       *)
(* output_events.py, webapp/web_api/forms.py).                             *)
(*                                                                         *)
(* A request about the whole packet reads the incident without a lock      *)
(* (BeginPacket) and locks the rows of the packet afterwards (Build,       *)
(* AddForm, RecordAction), so the incident may have moved on.  A request   *)
(* about one item locks it first and then reads the incident: one step.    *)
(*                                                                         *)
(* The facts of a revision are one answer, which some forms depend on.     *)
(***************************************************************************)
EXTENDS Naturals, Sequences

CONSTANTS
    Forms,          \* packet keys: a template, with an officer or without
    Conditions,     \* [Forms -> the conditions of the requirements naming it]
    Physical,       \* forms of output kind physical_only
    NeedsReport,    \* forms filled from a saved report too
    OfficerForms,   \* forms made for each officer, never added by hand
    PacketCalls,    \* requests about the whole packet
    MaxRevisions,   \* bound on the revisions of the incident
    NoForm

ASSUME PacketAssumption ==
    /\ Physical \cup OfficerForms \cup NeedsReport \subseteq Forms
    /\ MaxRevisions \in Nat /\ NoForm \notin Forms

FactAnswers == {"yes", "no", "open"}

VARIABLES
    facts,      \* incident revisions: [answer, reviewed]
    report,     \* incident revision of the saved first-person report, or 0
    item,       \* incident_packet_items
    instance,   \* form_instances
    ack,        \* items with a physical_paperwork_acknowledgments row
    asked       \* the requests about the packet

packetVars == <<facts, report, item, instance, ack, asked>>

NoItem == [group |-> "none", state |-> "none", source |-> 0]
Groups == {"required", "recommended", "additional"}
States == {"selected", "not_applicable", "removed"}
NoInstance == [source |-> 0, answer |-> "open", manual |-> FALSE, done |-> FALSE]
NoCall == [kind |-> "none", at |-> 0, form |-> NoForm]

CurrentRevision == Len(facts)

PacketsInit ==
    /\ facts \in {<<[answer |-> a, reviewed |-> TRUE]>> : a \in FactAnswers}
    /\ report = 0
    /\ item = [f \in Forms |-> NoItem]
    /\ instance = [f \in Forms |-> NoInstance]
    /\ ack = {}
    /\ asked = [c \in PacketCalls |-> NoCall]

-----------------------------------------------------------------------------
(* The checklist                                                           *)

\* _group_for: what a condition asks of an answer
GroupFor(condition, answer) ==
    CASE condition = "always" \/ answer = "yes" -> "required"
      [] condition # "always" /\ answer = "open" -> "recommended"
      [] OTHER -> "none"

\* plan_incident_packet, _merge_plan: requirements naming the same form
Plan(n) ==
    [f \in Forms |->
        LET groups == {GroupFor(c, facts[n].answer) : c \in Conditions[f]} IN
        IF "required" \in groups THEN "required"
        ELSE IF "recommended" \in groups THEN "recommended" ELSE "none"]

-----------------------------------------------------------------------------
(* The incident and its report (external to the packet)                    *)

Revise(answer, reviewed) ==
    /\ CurrentRevision < MaxRevisions
    /\ facts' = Append(facts, [answer |-> answer, reviewed |-> reviewed])
    /\ UNCHANGED <<report, item, instance, ack, asked>>

\* a report saved or generated for the current revision
ReportSaved ==
    /\ report' = CurrentRevision
    /\ UNCHANGED <<facts, item, instance, ack, asked>>

-----------------------------------------------------------------------------
(* Requests about the packet                                               *)

\* _current_revision; get_incident of record_document_action
BeginPacket(c, kind, form) ==
    /\ asked[c] = NoCall
    /\ kind = "add" => form \notin OfficerForms
    /\ asked' = [asked EXCEPT ![c] =
                    [kind |-> kind, at |-> CurrentRevision, form |-> form]]
    /\ UNCHANGED <<facts, report, item, instance, ack>>

EndPacketCall(c) == asked' = [asked EXCEPT ![c] = NoCall]

\* A refusal, a deadlock or a unique violation: nothing is written.
RefusePacket(c) ==
    /\ asked[c] # NoCall
    /\ EndPacketCall(c)
    /\ UNCHANGED <<facts, report, item, instance, ack>>

\* a planned form that has a row
Updated(row, group, n) ==
    [group |-> group, source |-> n,
     state |-> CASE group = "required" /\ row.state = "removed" -> "selected"
                 [] group = "recommended" /\ row.state = "not_applicable" -> "removed"
                 [] OTHER -> IF row.group = "additional" THEN "selected" ELSE row.state]
\* a row whose form the plan does not name
Dropped(row, n) == [row EXCEPT !.state = "removed", !.source = n]

\* Faulty: a form that is no longer required keeps what was said of it, and
\* one that is required again stays removed.
BuildPlain(c) ==
    LET n == asked[c].at IN
    /\ asked[c].kind = "build"
    /\ item' = [f \in Forms |->
          IF Plan(n)[f] = "none" THEN item[f]
          ELSE [group |-> Plan(n)[f], source |-> n,
                state |-> IF item[f] = NoItem THEN "selected" ELSE item[f].state]]
    /\ EndPacketCall(c)
    /\ UNCHANGED <<facts, report, instance, ack>>
\* build_incident_packet, after it has read the revision and planned
Build(c) ==
    LET n == asked[c].at IN
    /\ asked[c].kind = "build"
    /\ item' = [f \in Forms |->
          IF Plan(n)[f] = "none"
          THEN IF item[f] = NoItem \/ item[f].group = "additional"
               THEN item[f] ELSE Dropped(item[f], n)
          ELSE IF item[f] = NoItem
               THEN [group |-> Plan(n)[f], state |-> "selected", source |-> n]
               ELSE Updated(item[f], Plan(n)[f], n)]
    /\ EndPacketCall(c)
    /\ UNCHANGED <<facts, report, instance, ack>>

\* add_additional_form: a required form is left as it is
AddForm(c) ==
    LET f == asked[c].form IN
    /\ asked[c].kind = "add"
    /\ item' = IF item[f].group = "required" THEN item
               ELSE [item EXCEPT ![f] =
                  [group |-> IF item[f] = NoItem THEN "additional" ELSE item[f].group,
                   state |-> "selected", source |-> asked[c].at]]
    /\ EndPacketCall(c)
    /\ UNCHANGED <<facts, report, instance, ack>>

\* the document a selected item of the packet of revision n has
ActsOn(f, n) == f \notin Physical /\ item[f].state = "selected" /\ item[f].source = n

\* record_document_action of a form, whose choice nothing depends on before: the
\* event itself is only written
RecordAction(c) ==
    /\ asked[c].kind = "act"
    /\ \E f \in Forms : ActsOn(f, asked[c].at)
    /\ EndPacketCall(c)
    /\ UNCHANGED <<facts, report, item, instance, ack>>

-----------------------------------------------------------------------------
(* Requests about one item                                                 *)

\* remove_recommended_form
RemoveForm(f) ==
    /\ item[f].group = "recommended"
    /\ item' = [item EXCEPT ![f].state = "removed"]
    /\ UNCHANGED <<facts, report, instance, ack, asked>>

\* mark_not_applicable
MarkNotApplicable(f) ==
    /\ item[f].group = "required"
    /\ item' = [item EXCEPT ![f].state = "not_applicable"]
    /\ UNCHANGED <<facts, report, instance, ack, asked>>

UpToDate(f) == item[f].state = "selected" /\ item[f].source = CurrentRevision

\* calculate_form_completeness: what the facts leave open is typed in
Complete(answer, manual) == answer # "open" \/ manual

\* _source_report: the report is of revision n itself
HasReport(f, n) == f \in NeedsReport => report = n

\* Faulty: does not ask which revision is the current one.
PopulateAny(f) ==
    LET n == item[f].source IN
    /\ f \notin Physical /\ item[f].state = "selected"
    /\ facts[n].reviewed /\ HasReport(f, n)
    /\ instance' = [instance EXCEPT ![f] =
          [source |-> n, answer |-> facts[n].answer, manual |-> @.manual,
           done |-> Complete(facts[n].answer, @.manual)]]
    /\ UNCHANGED <<facts, report, item, ack, asked>>
\* populate_form_instance
Populate(f) ==
    LET n == item[f].source IN
    /\ f \notin Physical /\ UpToDate(f)
    /\ facts[n].reviewed /\ HasReport(f, n)
    /\ instance' = [instance EXCEPT ![f] =
          [source |-> n, answer |-> facts[n].answer, manual |-> @.manual,
           done |-> Complete(facts[n].answer, @.manual)]]
    /\ UNCHANGED <<facts, report, item, ack, asked>>

\* save_form_manual_fields, from a page that shows revision n
SaveManual(f, manual) ==
    /\ f \notin Physical /\ UpToDate(f) /\ instance[f].source = CurrentRevision
    /\ instance' = [instance EXCEPT ![f].manual = manual,
                                    ![f].done = Complete(instance[f].answer, manual)]
    /\ UNCHANGED <<facts, report, item, ack, asked>>

\* _locked_item
PhysicalItem(f) == f \in Physical /\ UpToDate(f)

\* acknowledge_physical_paperwork, clear_physical_acknowledgment
Acknowledge(f) ==
    /\ PhysicalItem(f)
    /\ ack' = ack \cup {f}
    /\ UNCHANGED <<facts, report, item, instance, asked>>
ClearAcknowledgment(f) ==
    /\ PhysicalItem(f)
    /\ ack' = ack \ {f}
    /\ UNCHANGED <<facts, report, item, instance, asked>>

PacketsNext ==
    \/ \E a \in FactAnswers, reviewed \in BOOLEAN : Revise(a, reviewed)
    \/ ReportSaved
    \/ \E c \in PacketCalls :
          \/ BeginPacket(c, "build", NoForm) \/ BeginPacket(c, "act", NoForm)
          \/ \E f \in Forms : BeginPacket(c, "add", f)
          \/ Build(c) \/ AddForm(c) \/ RecordAction(c) \/ RefusePacket(c)
    \/ \E f \in Forms :
          \/ RemoveForm(f) \/ MarkNotApplicable(f) \/ Populate(f)
          \/ \E manual \in BOOLEAN : SaveManual(f, manual)
          \/ Acknowledge(f) \/ ClearAcknowledgment(f)

PacketsSpec == PacketsInit /\ [][PacketsNext]_packetVars

-----------------------------------------------------------------------------
(* Properties                                                              *)

\* Rows have the shapes of the schema and name revisions that exist.
PacketsTypeOK ==
    /\ facts \in Seq([answer : FactAnswers, reviewed : BOOLEAN])
    /\ report \in 0 .. CurrentRevision
    /\ item \in [Forms -> {NoItem} \cup
                    [group : Groups, state : States, source : 1 .. CurrentRevision]]
    /\ instance \in [Forms -> [source : 0 .. CurrentRevision, answer : FactAnswers,
                               manual : BOOLEAN, done : BOOLEAN]]
    /\ ack \subseteq Physical
    /\ asked \in [PacketCalls -> [kind : {"none", "build", "add", "act"},
                                  at : 0 .. CurrentRevision, form : Forms \cup {NoForm}]]

\* A form is "not applicable" only while it is required, and a required form
\* is out of the packet only if the plan of the revision its row names does
\* not ask for it: through any order of rebuilds, some for an older revision,
\* of dismissals and of additions from the library.
RequiredIsAnswered ==
    \A f \in Forms :
        /\ item[f].state = "not_applicable" => item[f].group = "required"
        /\ item[f].group = "required" /\ item[f].state = "removed" =>
              Plan(item[f].source)[f] = "none"

\* A form is never filled again from an older revision, although a packet may
\* be rebuilt for one.
FormsNeverGoBack ==
    [][\A f \in Forms : instance'[f].source >= instance[f].source]_packetVars
=============================================================================
