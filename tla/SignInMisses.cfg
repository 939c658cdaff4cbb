SPECIFICATION Spec
CONSTANTS
    People = {p1}
    Sessions = {s1}
    Requests = {r1}
    LockAfter = 2
    MaxVersion = 2
    MaxToken = 1
    MaxCycle = 1
    MaxMisses = 2
    None = None
SYMMETRY Symmetry
INVARIANTS MissesLock
CHECK_DEADLOCK FALSE
