------------------------------ MODULE MCLibrary ------------------------------
(***************************************************************************)
(* Small instances of the parts of the system that share no state with the *)
(* job pipeline: each behaviour picks one of Parts and is a behaviour of   *)
(* that part's module, the variables of the others standing still.         *)
(***************************************************************************)
EXTENDS IncidentRecord, AdminControls, Packets, PolicySearch, ReportGeneration, RosterStore,
        Operations, Exports, Listings, TLC

CONSTANTS Parts, charge
VARIABLE part

-----------------------------------------------------------------------------
(* AdminControls: two sessions of one administrator; Packets: a form that   *)
(* depends on the facts, one that is always wanted, one made per officer    *)

BothAnna == [s \in Sessions |-> "anna"]
TwoCommands == {AccountResetPin, HandoffIssue}

AskedFor == "weapon form" :> {"weapon"} @@ "chain of custody" :> {"weapon", "always"}
            @@ "statement" :> {"always"}

-----------------------------------------------------------------------------
(* PolicySearch: two passages of one source and one of another              *)

ThreePassages == {[text |-> "a", source |-> 1, size |-> 2],
                  [text |-> "b", source |-> 1, size |-> 1],
                  [text |-> "c", source |-> 2, size |-> 2]}

-----------------------------------------------------------------------------
(* ReportGeneration: an officer and an inmate of one surname; a slot that   *)
(* is only asked about when another is answered with yes                    *)

Surnames == "o1" :> "Bell" @@ "o2" :> "Cole" @@ "i1" :> "Cole" @@ "i2" :> "Dorn"
            @@ "i3" :> "Dorn"
TwoRules == {[require |-> "first", when |-> Always, blocking |-> TRUE],
             [require |-> "second", when |-> "first", blocking |-> FALSE]}
Note(persons, unnamed, findings, charged) ==
    [written |-> TRUE, persons |-> persons, facts |-> {"time"}, unnamed |-> unnamed,
     findings |-> findings, charged |-> charged, suggested |-> {charge},
     told |-> [s \in Slots |-> "null"]]
FourNotes == {Note(<<"o1", "o2", "i1">>, FALSE, FALSE, FALSE),
              [Note(<<"i1", "i2">>, TRUE, TRUE, FALSE) EXCEPT
                  !.told = "first" :> "yes" @@ "second" :> "no"],
              [Note(<<"o2">>, FALSE, FALSE, TRUE) EXCEPT !.suggested = {}],
              [Note(<<>>, FALSE, FALSE, FALSE) EXCEPT !.written = FALSE, !.facts = {},
                                                      !.suggested = {}]}
Token(kind, of) == [is |-> kind, of |-> of]
ThreeDrafts == {<<Token("short", "i1"), Token("bare", "i1"), Token("full", "i1"),
                  Token("closer", Nobody)>>,
                <<Token("fact", "other time"), Token("bare", "o1"), Token("short", "o2"),
                  Token("full", "i3"), Token("full", "i3")>>,
                <<Token("closer", Nobody)>>}

-----------------------------------------------------------------------------
(* RosterStore: one person on the packaged roster, edits that collide       *)

Ask(what, who, number, new) == [op |-> what, who |-> who, number |-> number, new |-> new]
Adds == Ask("add", "ann", 1, 0)
Moves2to1 == Ask("renumber", "bob", 2, 1)
EditPairs == {"e1" :> Adds @@ "e2" :> Moves2to1,
              "e1" :> Ask("learn", "bob", 3, 0) @@ "e2" :> Ask("remove", "bob", 2, 0),
              "e1" :> Ask("add", "cal", 1, 0) @@ "e2" :> Ask("learn", "ann", 1, 0),
              "e1" :> Moves2to1 @@ "e2" :> Ask("remove", "bob", 2, 0)}
BobOnly == {[who |-> "bob", number |-> 2]}

-----------------------------------------------------------------------------
(* Operations: rosters with new people, a new number for a known name, a    *)
(* correction, a repeated number                                            *)

Line(number, name, post) == [number |-> number, name |-> name, post |-> post]
OnStaff == "s1" :> [number |-> 1, name |-> "ann", post |-> "x", by |-> NoStaff]
           @@ "s2" :> NoStaff @@ "s3" :> NoStaff
Given(lines, corrections, apply, file) ==
    [rows |-> lines, corrections |-> corrections, apply |-> apply, report |-> file]
FiveSources == {
    Given({Line(1, "ann", "y"), Line(2, "bob", "x")}, 1 :> "s1", TRUE, "file 1"),
    Given({Line(3, "ann", "x"), Line(2, "bob", "x")}, 3 :> "s1", TRUE, "file 2"),
    Given({Line(2, "bob", "y")}, <<>>, TRUE, "file 2"),
    Given({Line(1, "ann", "x"), Line(2, "bob", "x")}, <<>>, FALSE, "file 1"),
    Given({Line(1, "ann", "x"), Line(1, "bob", "x")}, <<>>, TRUE, "file 1")}

-----------------------------------------------------------------------------
(* Exports: an archive of what a filter finds and one explicit revision     *)

TwoAsked == "k1" :> [mode |-> "filters", reports |-> ExportReports, revision |-> 0]
            @@ "k2" :> [mode |-> "one", reports |-> {"r1"}, revision |-> 1]

-----------------------------------------------------------------------------
(* Listings: three rows with equal times among them, and one to come        *)

Listed(time, there) ==
    [there |-> there, created |-> 1, updated |-> time, author |-> "ann",
     sharedWith |-> IF there THEN {"ann"} ELSE {}]
RowsAtFirst ==
    {<<Listed(t, TRUE), Listed(t, TRUE), Listed(2, TRUE), Listed(1, FALSE)>> : t \in {1, 2}}

-----------------------------------------------------------------------------
(* A part that was not picked has one initial state.                        *)

LibraryInit ==
    /\ part \in Parts
    /\ IncidentInit
    /\ Init
    /\ PacketsInit /\ (part # "packets" => facts[1].answer = "no")
    /\ SearchInit
    /\ part # "search" => asking = [history |-> "none", short |-> FALSE, words |-> "work",
                                    deadline |-> FALSE]
    /\ GenInit
    /\ part # "reports" => /\ wizard.route = "job"
                           /\ wizard.notes = CHOOSE n \in NotesSeen : TRUE
    /\ RosterInit /\ (part # "roster" => want = CHOOSE w \in Wanted : TRUE)
    /\ OpsInit
    /\ ExportsInit
    /\ ListingsInit /\ (part # "lists" => table = CHOOSE t \in StartRows : TRUE)

IncidentsStep ==
    /\ part = "incidents" /\ IncidentNext
    /\ UNCHANGED <<part, vars, packetVars, searchVars, genVars, rosterVars, opsVars,
                   exportVars,
                   listVars>>
ControlsStep ==
    /\ part = "controls" /\ Next
    /\ UNCHANGED <<part, incidentVars, packetVars, searchVars, genVars, rosterVars,
                   opsVars, exportVars, listVars>>
PacketsStep ==
    /\ part = "packets" /\ PacketsNext
    /\ UNCHANGED <<part, incidentVars, vars, searchVars, genVars, rosterVars, opsVars,
                   exportVars, listVars>>
SearchStep ==
    /\ part = "search" /\ SearchNext
    /\ UNCHANGED <<part, incidentVars, vars, packetVars, genVars, rosterVars, opsVars,
                   exportVars, listVars>>
ReportsStep ==
    /\ part = "reports" /\ GenNext
    /\ UNCHANGED <<part, incidentVars, vars, packetVars, searchVars, rosterVars, opsVars,
                   exportVars, listVars>>
RosterStep ==
    /\ part = "roster" /\ RosterNext
    /\ UNCHANGED <<part, incidentVars, vars, packetVars, searchVars, genVars, opsVars,
                   exportVars, listVars>>
BootstrapStep ==
    /\ part = "bootstrap" /\ BootNext
    /\ UNCHANGED <<part, incidentVars, vars, packetVars, searchVars, genVars, rosterVars,
                   exportVars, listVars>>
ImportStep ==
    /\ part = "import" /\ ImportNext
    /\ UNCHANGED <<part, incidentVars, vars, packetVars, searchVars, genVars, rosterVars,
                   exportVars, listVars>>
ExportsStep ==
    /\ part = "exports" /\ ExportsNext
    /\ UNCHANGED <<part, incidentVars, vars, packetVars, searchVars, genVars, rosterVars,
                   opsVars, listVars>>
ListsStep ==
    /\ part = "lists" /\ ListingsNext
    /\ UNCHANGED <<part, incidentVars, vars, packetVars, searchVars, genVars, rosterVars,
                   opsVars, exportVars>>

LibraryNext ==
    \/ IncidentsStep \/ ControlsStep \/ PacketsStep \/ SearchStep \/ ReportsStep \/ RosterStep
    \/ BootstrapStep \/ ImportStep \/ ExportsStep \/ ListsStep

libraryVars ==
    <<part, incidentVars, vars, packetVars, searchVars, genVars, rosterVars, opsVars,
      exportVars, listVars>>
LibrarySpec == LibraryInit /\ [][LibraryNext]_libraryVars

\* the two requests about a packet are interchangeable, and the two saves
Symmetry == Permutations(PacketCalls) \cup Permutations(Savers)
=============================================================================
