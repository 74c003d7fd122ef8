SPECIFICATION Spec
CONSTANTS
    Threads = {t1, t2, t3}
    Conns = {c1, c2, c3, c4, c5}
    Kinds = {"config", "alarm"}
    RoLimit = 2
    MaxUse = 2
    MaxFaults = 2
    NULL = NULL
INVARIANTS
    RoConnNotShared
    LivesWhileUsed
    WithinRoLimit
SYMMETRY Symmetry
CHECK_DEADLOCK FALSE
