----------------------------- MODULE MCPaperwork -----------------------------
(* A small instance of Paperwork: a roster, an inspection and a count sheet. *)
EXTENDS Paperwork, TLC

CONSTANTS p1, p2, p3, ann, bob

Editors == p1 :> "assignment_roster" @@ p2 :> "uniform_inspection" @@ p3 :> "count_sheet"
Today == [p \in Pages |-> 2]
People == p1 :> ann @@ p2 :> ann @@ p3 :> bob

Symmetry == Permutations(Calls) \cup Permutations(Records \ {Yesterday})
=============================================================================
