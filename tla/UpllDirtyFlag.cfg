SPECIFICATION MCSpec
CONSTANTS
    Configs = {c1, c2}
    Empty = Empty
    Mixed = Mixed
    CommitLimit = 2
    MaxTimers = 2
    Askers = {}
    MaxOperations = 1
INVARIANT DirtyFlagSound
CHECK_DEADLOCK FALSE
