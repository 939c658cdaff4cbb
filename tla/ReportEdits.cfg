CONSTANTS
    Nobody = Nobody
    rep1 = rep1
    anna = anna
    bert = bert
    cleo = cleo
    c1 = c1
    c2 = c2
    t1 = t1
    Reports = {rep1}
    Staff = {anna, bert, cleo}
    Commands = {c1, c2}
    Texts = {t1}
    FirstOwner <- NoReport
    Preparer = bert
    Leavers = {bert}
    Operations = {"save", "recover", "status", "restore", "transfer"}
    MaxRevision = 4
SPECIFICATION Spec
SYMMETRY Symmetric
INVARIANTS NothingOverwritten OncePerCommand AccessFollowsOwnership
CHECK_DEADLOCK FALSE
