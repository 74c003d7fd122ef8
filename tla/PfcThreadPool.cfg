SPECIFICATION Spec
CONSTANTS
    Threads = {t1, t2}
    Jobs = {j1, j2}
    ThreadMax = 2
    FreeMax = 1
    FreeMin = 1
    Reap = 1
    MayTimeOut = TRUE
    LockTimesOut = FALSE
    NoJob = NoJob
    NoThread = NoThread
INVARIANTS
    TypeOK
    ThreadHasOneOwner
    GivenJobRuns
    JobFreedOnce
    PoolOutlivesUsers
SYMMETRY Symmetry
CHECK_DEADLOCK FALSE
