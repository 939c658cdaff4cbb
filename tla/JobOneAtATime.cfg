SPECIFICATION FairSpec
CONSTANTS
  Jobs = {j1}
  Workers = {w1}
  Dispatchers = {d1, d2}
  Incident = Incident
  Reports = {r1}
  InitialReports = {r1}
  Targets <- EachKind
  Bound = {j1}
  ActorRelated = TRUE
  InjectedContent = TRUE
  MaxDeliveries = 3
  MaxSaves = 1
  User = User
  None = None
  j1 = j1
  j2 = j2
  j3 = j3
  w1 = w1
  w2 = w2
  r1 = r1
  r2 = r2
CHECK_DEADLOCK FALSE
INVARIANTS NoStrandedJob
PROPERTIES ImplementsLifecycle EveryJobEnds
