---------------------------- MODULE MCJobPipeline ----------------------------
(* Small instances of JobPipeline for TLC.                                  *)
EXTENDS JobPipeline, TLC

CONSTANTS j1, j2, j3, w1, w2, r1, r2

\* One job for the incident.
OneIncident == [j \in Jobs |-> {Incident}]

\* A job bound to one report, one that writes every report, one for the incident.
EachKind == [j \in Jobs |-> IF j = j1 THEN {r1} ELSE IF j = j2 THEN Reports ELSE {Incident}]
=============================================================================
