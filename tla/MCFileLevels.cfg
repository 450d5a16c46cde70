SPECIFICATION Spec
CONSTANTS
    Keys = {k1, k2}
    MaxCalls = 3
    rwlevel_max_size_ = 2
    MaxInMemory = 2
    MaxFiles = 6
    MaxFailures = 1
    MaxCrashes = 2
INVARIANTS
    AlwaysLoadable
    FindsNewest
    NothingLost
CHECK_DEADLOCK FALSE
SYMMETRY MCSymmetry
