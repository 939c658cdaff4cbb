SPECIFICATION Spec
CONSTANTS
  p1 = p1  p2 = p2  p3 = p3  ann = ann  bob = bob
  Records = {r0, r1, r2}
  Days = {1, 2}
  Yesterday = r0
  Pages = {p1, p2, p3}
  KindOf <- Editors
  DayOf <- Today
  PersonOf <- People
  Admins = {ann}
  Calls = {c1, c2, c3}
  MaxTexts = 1
  None = None
SYMMETRY Symmetry
INVARIANTS HistoryIsWhole OncePerCall ProvenanceIsTrue SavedIsSaved
PROPERTIES TypedWorkKept
CHECK_DEADLOCK FALSE
