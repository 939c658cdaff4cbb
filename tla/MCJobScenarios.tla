---------------------------- MODULE MCJobScenarios ----------------------------
(* All jobs at once are more than TLC can explore with repeated deliveries  *)
(* and an injected engine, so each behaviour is of one of three kinds.      *)
EXTENDS MCJobPipeline

VARIABLE scenario

Scenarios == {"a report's job delivered again", "an incident's job delivered again",
              "two jobs delivered once"}

Submitted ==
    CASE scenario = "a report's job delivered again" -> {j1}
      [] scenario = "an incident's job delivered again" -> {j3}
      [] scenario = "two jobs delivered once" -> {j1, j2}

ScenarioInit == Init /\ scenario \in Scenarios

ScenarioNext ==
    /\ Next
    /\ \A j \in Jobs \ Submitted : state'[j] = "none"
    /\ scenario = "two jobs delivered once" =>
          /\ saves' <= 1
          /\ \A j \in Jobs : tries'[j] <= 1
          /\ \A w \in Workers : pc'[w] # "saving"
    /\ UNCHANGED scenario

ScenarioSpec == ScenarioInit /\ [][ScenarioNext]_<<vars, scenario>>

\* The workers are interchangeable, and every property of the run is a safety one.
Symmetric == Permutations(Workers)
=============================================================================
