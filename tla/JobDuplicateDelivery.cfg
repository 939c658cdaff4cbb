SPECIFICATION Spec
CONSTANTS
  Jobs = {j1}
  Workers = {w1, w2}
  Dispatchers = {d1}
  Incident = Incident
  Reports = {r1}
  InitialReports = {r1}
  Targets <- OneIncident
  Bound = {}
  ActorRelated = TRUE
  InjectedContent = FALSE
  MaxDeliveries = 3
  MaxSaves = 0
  User = User
  None = None
  j1 = j1
  j2 = j2
  j3 = j3
  w1 = w1
  w2 = w2
  r1 = r1
  r2 = r2
CHECK_DEADLOCK FALSE
INVARIANTS NoStrandedJob
