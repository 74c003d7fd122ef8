SPECIFICATION Spec
CONSTANTS
    Dispatchers = {d1, d2}
    Clients = {c1, c2}
    Concurrency = 2
    MaxTasks = 3
    QueueLimit = 2
    MaxFree = 1
    MayTimeOut = TRUE
    NoTask = NoTask
SYMMETRY Threads
INVARIANTS
    TypeOK
    WithinConcurrency
    FlushedTasksEnded
    DestructedOnce
    NoTaskStranded
CHECK_DEADLOCK FALSE
