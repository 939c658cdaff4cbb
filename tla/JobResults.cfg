SPECIFICATION ScenarioSpec
SYMMETRY Symmetric
CONSTANTS
  Jobs = {j1, j2, j3}
  Workers = {w1, w2}
  Dispatchers = {d1}
  Incident = Incident
  Reports = {r1, r2}
  InitialReports = {r1}
  Targets <- EachKind
  Bound = {j1}
  ActorRelated = TRUE
  InjectedContent = TRUE
  MaxDeliveries = 2
  MaxSaves = 2
  User = User
  None = None
  j1 = j1
  j2 = j2
  j3 = j3
  w1 = w1
  w2 = w2
  r1 = r1
  r2 = r2
CHECK_DEADLOCK FALSE
INVARIANTS ResultExactlyOnce RepeatRiskRecorded ResultsNeverOverwrite ConflictIsReal
PROPERTIES AppliedOnlyWhenEntitled AppliedOnCurrentFacts
