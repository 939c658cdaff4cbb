-------------------------- MODULE MCReportRevisions --------------------------
(* A small instance of ReportRevisions: one report, not yet created, three     *)
(* people, two commands.                                                       *)
EXTENDS ReportRevisions, TLC

CONSTANTS rep1, anna, bert, cleo, c1, c2, t1

NoReport   == [x \in Reports |-> Nobody]
Symmetric  == Permutations(Commands)
===============================================================================
