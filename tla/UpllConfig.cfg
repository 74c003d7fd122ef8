SPECIFICATION MCSpec
CONSTANTS
    Configs = {c1, c2}
    Empty = Empty
    Mixed = Mixed
    CommitLimit = 2
    MaxTimers = 1
    Askers = {}
    MaxOperations = 1
INVARIANTS
    NoCircularWait
    WritersIsolated
    
    LossIsBounded
    BatchHasTimer
    MarksAreTakenBack
SYMMETRY Symmetry
