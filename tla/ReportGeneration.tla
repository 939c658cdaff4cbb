--------------------------- MODULE ReportGeneration ---------------------------
(***************************************************************************)
(* From an officer's notes to a checked set of reports                     *)
(* (backend/reports/service.py, generator.py, validate.py, name_fixer.py,  *)
(* report_validator.py, schema.py, extraction.py, classifier.py), asked    *)
(* for by the browser's report page (webapp/routes/reports.py) or by an AI *)
(* job (worker/routes.py).                                                 *)
(*                                                                         *)
(* The models are outside: they may classify, extract and write anything   *)
(* of the shapes below, or fail.  A text is a sequence of tokens: a fact   *)
(* (an ADC number, time or date), a mention of a person, a closing phrase. *)
(* A mention in short form is a title and a surname, a bare one only the   *)
(* surname, so both may stand for several people.  People with one title   *)
(* and surname differ in their full form.                                  *)
(***************************************************************************)
EXTENDS Naturals, FiniteSets, SequencesExt

CONSTANTS
    Officers,       \* security staff
    Inmates,
    Surname,        \* the surname of each of them
    Slots, Rules,   \* checklist: [require, when, blocking], when a slot or Always
    Always,
    Charges,        \* codes of the charge catalogue
    Nobody,
    NotesSeen,      \* what the notes say, as the models read them, if anything
    Drafts,         \* texts the model may write
    MaxPasses       \* bound on the passes of one wizard

VARIABLES
    wizard,     \* the officer's page, or the incident the job reads
    outcome     \* the last result and what it was made from

genVars == <<wizard, outcome>>

People == Officers \cup Inmates

\* the notes name people, Nobody is none of them, and a draft is a text
ASSUME GenAssumption ==
    /\ Nobody \notin People
    /\ \A n \in NotesSeen : n.persons \in Seq(People)
    /\ \A d \in Drafts : d \in Seq(Range(d))

BatchKinds == {"first_person", "supervisor_summary", "cover_letter", "investigation"}
Kinds == BatchKinds \cup {"disciplinary"}

ErrorText == <<[is |-> "error", of |-> Nobody]>>        \* [Error generating ...]
Failed == <<[is |-> "failed", of |-> Nobody]>>
NoOutcome == [texts |-> <<>>, drafts |-> <<>>, errors |-> {}, flags |-> {}, markers |-> {},
              blocking |-> {}, header |-> Nobody, sources |-> {}, deferred |-> FALSE,
              charged |-> FALSE, pass |-> "none"]

GenInit ==
    /\ wizard \in [route : {"browser", "job"}, notes : NotesSeen, phase : {"notes"},
                   slots : {[s \in Slots |-> "null"]}, charges : {{}},
                   typed : {Nobody}, reporter : {1}, passes : {0}]
    /\ outcome = NoOutcome

-----------------------------------------------------------------------------
(* The rule loop (validate.py)                                             *)

Active(r, slots) == r.when = Always \/ slots[r.when] = "yes"
Gaps(slots) == {r \in Rules : Active(r, slots) /\ slots[r.require] = "null"}
Markers(slots) ==
    {r.require : r \in {q \in Rules : Active(q, slots) /\ slots[q.require] = "UNKNOWN"}}
InvestigationOccurred == wizard.notes.findings

\* has_charges over the slots both passes derive: confirmed charges win, the
\* extracted ones remain when none is confirmed
HasCharges == wizard.charges # {} \/ wizard.notes.charged

SecurityStaff == SelectSeq(wizard.notes.persons, LAMBDA p : p \in Officers)

\* every ADC number, time and date the officer or the pipeline itself supplied
Sources == wizard.notes.facts
Invented(text, sources) == {t.of : t \in {u \in Range(text) : u.is = "fact"}} \ sources

-----------------------------------------------------------------------------
(* Names (name_fixer.py) and mechanical repairs (report_validator.py)      *)

Qualified(p) == <<p \in Inmates, Surname[p]>>
Mention(t) == t.is \in {"bare", "short", "full"}

\* the people a reader of the text can take a mention for; "mixed" is what is
\* left of one that was rewritten in part, and stands for nobody
Denotes(t, persons) ==
    {p \in Range(persons) : \/ t.is = "full" /\ p = t.of
                            \/ t.is = "short" /\ Qualified(p) = Qualified(t.of)
                            \/ t.is = "bare" /\ Surname[p] = Surname[t.of]}

\* _ambiguous_last_names
Ambiguous(surname, persons) ==
    Cardinality({i \in DOMAIN persons : Surname[persons[i]] = surname}) > 1

\* Faulty: a bare surname is given to whoever has it
MatchAnyBare(t, persons) == Denotes(t, persons)

\* the people one of whose patterns is the whole mention: the bare surname is
\* a pattern only of those who share it with nobody on the list
MatchWhole(t, persons) ==
    {p \in Denotes(t, persons) : t.is = "bare" => ~Ambiguous(Surname[p], persons)}

\* those one of whose patterns is a part of it: the bare surname inside a longer
\* name, "inmate Last" at the head of another inmate's full form
MatchPart(t, persons) ==
    {p \in Range(persons) :
        /\ Mention(t) /\ Surname[p] = Surname[t.of]
        /\ \/ ~Ambiguous(Surname[p], persons)
           \/ t.is = "full" /\ {p, t.of} \subseteq Inmates}

\* the first of a list who is one of them
FirstAmong(persons, who) == persons[Min({i \in DOMAIN persons : persons[i] \in who})]

\* _collect_spans, _select_spans: the longest match at a place, the first person
\* of the list when several match alike
Matched(t, persons) ==
    LET who == IF MatchWhole(t, persons) # {} THEN MatchWhole(t, persons)
               ELSE MatchPart(t, persons)
    IN  IF who = {} THEN Nobody ELSE FirstAmong(persons, who)

\* _rewrite: a person's first match becomes the full form, later ones short.  A
\* match inside a mention spoils the mention, unless "inmate Last" replaces itself
Rewritten(t, p, again, persons) ==
    IF MatchWhole(t, persons) # {} THEN [is |-> IF again THEN "short" ELSE "full", of |-> p]
    ELSE IF again /\ t.is = "full" /\ {p, t.of} \subseteq Inmates THEN t
    ELSE [is |-> "mixed", of |-> p]

EnforceNaming(text, persons) ==
    LET who(i) == Matched(text[i], persons) IN
    [i \in DOMAIN text |->
        IF who(i) = Nobody THEN text[i]
        ELSE Rewritten(text[i], who(i), \E j \in 1 .. i - 1 : who(j) = who(i), persons)]

\* repair: of the faults a text still has only the last closer is cut off
Repair(text) == IF text # <<>> /\ Last(text).is = "closer" THEN Front(text) ELSE text

\* validate_report, the rules that stop a report: RW-000, RW-014, RW-030, the
\* last of which is not applied when there are no notes to compare with
BlockingRules(text, sources) ==
    IF text = <<>> THEN {"RW-000"}
    ELSE (IF \E t \in Range(text) : t.is = "closer" THEN {"RW-014"} ELSE {})
         \cup (IF wizard.notes.written /\ Invented(text, sources) # {} THEN {"RW-030"} ELSE {})

-----------------------------------------------------------------------------
(* One generation pass (service.py, generator.py)                          *)

\* _run: one report, an error text in its place when the model fails
Written(draft) ==
    IF draft = Failed THEN ErrorText ELSE EnforceNaming(draft, wizard.notes.persons)

\* generate_all_reports with the disciplinary supplement left out
BatchOf == IF InvestigationOccurred THEN BatchKinds ELSE BatchKinds \ {"investigation"}

\* _prepare_generation: the reporter of the page is bound first, and bound again
\* to the first of the staff unless the officer typed a name
Header ==
    LET staff == SecurityStaff IN
    IF wizard.typed # Nobody THEN wizard.typed
    ELSE IF staff # <<>> THEN staff[1] ELSE Nobody

\* one dict updated by another
Over(new, old) ==
    [k \in DOMAIN new \cup DOMAIN old |-> IF k \in DOMAIN new THEN new[k] ELSE old[k]]

\* what the reports that are carried over were made from
DraftsOf(kinds) == [k \in kinds \cap DOMAIN outcome.drafts |-> outcome.drafts[k]]

\* Faulty: the second pass checks only the supplement it wrote
FinalizeNew(carried, drafts, errors, isDeferred, name) ==
    LET whole == [k \in DOMAIN drafts |-> Repair(Written(drafts[k]))] IN
    [texts |-> Over(whole, carried),
     drafts |-> Over(drafts, DraftsOf(DOMAIN carried)), errors |-> errors,
     flags |-> UNION {Invented(whole[k], Sources) : k \in DOMAIN whole},
     markers |-> Markers(wizard.slots),
     blocking |-> {k \in DOMAIN whole : "RW-030" \in BlockingRules(whole[k], Sources)},
     header |-> Header, sources |-> Sources, deferred |-> isDeferred,
     charged |-> HasCharges, pass |-> name]

\* _finalize_generation over `carried` reports and the new `drafts`
Finalize(carried, drafts, errors, isDeferred, name) ==
    LET raw == Over([k \in DOMAIN drafts |-> Written(drafts[k])], carried)
        texts == [k \in DOMAIN raw |-> Repair(raw[k])]
    IN [texts |-> texts,
        drafts |-> Over(drafts, DraftsOf(DOMAIN carried)),
        errors |-> errors,
        flags |-> UNION {Invented(texts[k], Sources) : k \in DOMAIN texts},
        markers |-> Markers(wizard.slots),
        blocking |-> {k \in DOMAIN texts : "RW-030" \in BlockingRules(texts[k], Sources)},
        header |-> Header, sources |-> Sources, deferred |-> isDeferred,
        charged |-> HasCharges, pass |-> name]

FailedOf(drafts) == {k \in DOMAIN drafts : drafts[k] = Failed}

-----------------------------------------------------------------------------
(* The steps of the wizard, and of the jobs                                *)

At(phase) == wizard.phase = phase
Move(phase) == wizard' = [wizard EXCEPT !.phase = phase]

\* classify_incident: every suggested charge of the catalogue becomes a record
Suggested == {[code |-> c, inmate |-> Nobody] : c \in wizard.notes.suggested \cap Charges}

\* _normalize_engine_result: the charges of a job's classification must be codes
UsableByJob == Suggested \subseteq Charges

\* the browser's routes refuse empty notes, a job reads what the incident has
GenClassify ==
    /\ At("notes")
    /\ IF wizard.route = "browser" THEN wizard.notes.written ELSE UsableByJob
    /\ Move("classified") /\ UNCHANGED outcome

\* job_output_invalid
GenRefuseClassification ==
    /\ At("notes") /\ wizard.route = "job" /\ ~UsableByJob
    /\ Move("unclassified") /\ UNCHANGED outcome

\* extract_incident_notes: whatever the notes did not state stays null
GenExtract ==
    /\ At("classified")
    /\ wizard' = [wizard EXCEPT !.phase = "extracted", !.slots = wizard.notes.told]
    /\ UNCHANGED outcome

\* the gap panel: Continue opens once nothing blocking is left; an incident of
\* the workspace may be generated with questions left open
GenAnswer(answers, name, confirmed) ==
    /\ At("extracted")
    /\ DOMAIN answers \subseteq {g.require : g \in Gaps(wizard.slots)}
    /\ wizard.route = "browser" =>
          /\ {g.require : g \in {h \in Gaps(wizard.slots) : h.blocking}} \subseteq DOMAIN answers
          /\ wizard.notes.unnamed => name # Nobody
    /\ ~wizard.notes.unnamed => name = Nobody
    /\ confirmed \subseteq wizard.notes.suggested
    /\ wizard' = [wizard EXCEPT !.phase = "answered", !.slots = Over(answers, @),
                                !.typed = name, !.charges = confirmed]
    /\ UNCHANGED outcome

\* an officer's button: the page empties the reports and asks again for him
GenTap(i) ==
    /\ wizard.phase \in {"shown", "lost"} /\ wizard.passes < MaxPasses
    /\ i \in DOMAIN SecurityStaff
    /\ wizard' = [wizard EXCEPT !.phase = "answered", !.reporter = i]
    /\ outcome' = NoOutcome

\* runGenerate: the page asks for the batch and leaves the supplement to a
\* second request
GenGenerate(drafts) ==
    /\ wizard.route = "browser" /\ At("answered")
    /\ outcome' = Finalize(<<>>, drafts, FailedOf(drafts), HasCharges, "first")
    /\ wizard' = [wizard EXCEPT !.phase = IF HasCharges THEN "deferred" ELSE "shown",
                                !.passes = @ + 1]

\* the second request fails or its answer is lost; the page offers to try again
GenLose ==
    /\ At("deferred") /\ Move("lost") /\ UNCHANGED outcome

\* before that the officer may tick other charges
GenConfirm(confirmed) ==
    /\ At("lost") /\ confirmed \subseteq wizard.notes.suggested
    /\ wizard' = [wizard EXCEPT !.charges = confirmed]
    /\ UNCHANGED outcome

\* generate_disciplinary_only: without charges there is nothing to write
SupplementDraft(draft) == IF HasCharges THEN [k \in {"disciplinary"} |-> draft] ELSE <<>>

\* Faulty: the investigation is not among the reports that are resumed
ResumeBasic == BatchKinds \ {"investigation"}
\* RESUMABLE_REPORT_KEYS
Resumable == BatchKinds

\* _generate_disciplinary_report over the reports the page hands back
GenSupplement(draft) ==
    /\ wizard.phase \in {"deferred", "lost"}
    /\ LET drafts == SupplementDraft(draft) IN
       outcome' = Finalize([k \in DOMAIN outcome.texts \cap Resumable |-> outcome.texts[k]],
                           drafts, FailedOf(drafts), FALSE, "second")
    /\ Move("shown")

\* a text the worker takes: not blank and not an error text
Acceptable(text) == text # <<>> /\ text # ErrorText

\* _normalize_engine_result for reports: a pass with a failed report is tried
\* again, one without the texts that were asked for, or with bad ones, is refused
GenJobEnds(done, asked) ==
    IF done.errors # {}
    THEN /\ wizard' = [wizard EXCEPT !.passes = @ + 1]
         /\ UNCHANGED outcome
    ELSE IF \A k \in asked : k \in DOMAIN done.texts /\ Acceptable(done.texts[k])
    THEN /\ wizard' = [wizard EXCEPT !.passes = @ + 1, !.phase = "accepted"]
         /\ outcome' = done
    ELSE Move("job_output_invalid") /\ UNCHANGED outcome

JobMayRun ==
    /\ wizard.route = "job" /\ wizard.phase \in {"answered", "accepted"}
    /\ wizard.passes < MaxPasses

\* a generate job: everything in one pass
GenJob(drafts) ==
    /\ JobMayRun
    /\ DOMAIN drafts = BatchOf \cup (IF HasCharges THEN {"disciplinary"} ELSE {})
    /\ GenJobEnds(Finalize(<<>>, drafts, FailedOf(drafts), FALSE, "job"), DOMAIN drafts)

\* a disciplinary job: over the owner's first-person narrative, empty if there is
\* none; of the result only the supplement is taken, and asked for in any case
GenSupplementJob(draft) ==
    /\ JobMayRun
    /\ LET drafts == SupplementDraft(draft)
           told == IF "first_person" \in DOMAIN outcome.texts
                   THEN outcome.texts["first_person"] ELSE <<>>
       IN  GenJobEnds(Finalize([k \in {"first_person"} |-> told], drafts, FailedOf(drafts),
                               FALSE, "supplement job"), {"disciplinary"})

Answers == UNION {[S -> {"yes", "UNKNOWN"}] : S \in SUBSET Slots}

GenNext ==
    \/ GenClassify \/ GenRefuseClassification \/ GenExtract \/ GenLose
    \/ \E answers \in Answers, name \in Officers \cup {Nobody}, confirmed \in SUBSET Charges :
          GenAnswer(answers, name, confirmed)
    \/ \E confirmed \in SUBSET Charges : GenConfirm(confirmed)
    \/ \E i \in 1 .. Cardinality(Officers) : GenTap(i)
    \/ \E drafts \in [BatchOf -> Drafts \cup {Failed}] : GenGenerate(drafts)
    \/ \E draft \in Drafts \cup {Failed} : GenSupplement(draft) \/ GenSupplementJob(draft)
    \/ \E drafts \in UNION {[S -> Drafts \cup {Failed}] :
                              S \in {BatchOf, BatchOf \cup {"disciplinary"}}} :
          GenJob(drafts)

GenSpec == GenInit /\ [][GenNext]_genVars

-----------------------------------------------------------------------------
(* Properties                                                              *)

\* Every number, time and date of the reports an officer is shown that came from
\* nowhere is flagged, also after the second pass replaced the whole result, and
\* the style rules stop no report for a fact that is not flagged.  The two checks
\* "can never disagree" wherever there are notes: a job may run without any, and
\* then only the flags tell.
InventedIsFlagged ==
    outcome.pass # "none" =>
        /\ \A k \in DOMAIN outcome.texts :
              Invented(outcome.texts[k], outcome.sources) \subseteq outcome.flags
        /\ outcome.blocking # {} => outcome.flags # {}
        /\ wizard.notes.written /\ outcome.flags # {} => outcome.blocking # {}

\* a reader takes the new mention for whom he took the old one for
MentionKept(old, new, persons) ==
    /\ \/ \E p, q \in Range(persons) : Qualified(p) = Qualified(q) /\ p # q
       \/ Denotes(old, persons) = {}
       \/ Denotes(new, persons) = Denotes(old, persons)
    /\ (\A p \in Range(persons) : Surname[p] # Surname[old.of]) => new = old

\* Naming enforcement never moves a mention to someone else: whoever a reader
\* could take a mention of the model's draft for, he can of the finished text, as
\* long as no two people on the list share both title and surname; and a surname
\* nobody on the list has is left alone.  (A mention that names nobody on the list
\* but shares a surname with one may be spoilt: nothing is said of it.)
MentionsAreKept ==
    \A k \in DOMAIN outcome.texts \cap DOMAIN outcome.drafts :
        outcome.drafts[k] # Failed =>
            \A i \in DOMAIN outcome.drafts[k] :
                Mention(outcome.drafts[k][i]) =>
                    /\ i \in DOMAIN outcome.texts[k]
                    /\ MentionKept(outcome.drafts[k][i], outcome.texts[k][i],
                                   wizard.notes.persons)

\* of a text only closing phrases at its end are gone
OnlyClosersCut(old, new) ==
    /\ DOMAIN new \subseteq DOMAIN old
    /\ \A i \in DOMAIN old : IF i \in DOMAIN new THEN new[i] = old[i] ELSE old[i].is = "closer"

\* The second request's result replaces the page's whole result, yet costs the
\* officer nothing of the first: every report that was shown is still there, error
\* texts too, with its facts and mentions untouched, whatever the officer ticked
\* in between and whether or not the supplement could be written.
ReportsAreKept ==
    [][outcome'.pass = "second" =>
          \A k \in DOMAIN outcome.texts :
              /\ k \in DOMAIN outcome'.texts
              /\ OnlyClosersCut(outcome.texts[k], outcome'.texts[k])]_genVars

\* A classification job whose model answered properly is not thrown away.
ClassificationIsUsable == ~At("unclassified")
=============================================================================
