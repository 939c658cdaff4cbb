SPECIFICATION Spec
CONSTANTS
    People = {p1, p2}
    Sessions = {s1, s2}
    Requests = {r1, r2}
    LockAfter = 1
    MaxVersion = 2
    MaxToken = 1
    MaxCycle = 1
    MaxMisses = 0
    None = None
SYMMETRY Symmetry
INVARIANTS EndedSessionsStayOut
PROPERTIES OnlyMissesLockAdminsOut
CHECK_DEADLOCK FALSE
