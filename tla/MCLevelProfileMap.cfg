SPECIFICATION Spec
CONSTANTS
    Keys = {k1, k2}
    MaxCalls = 3
    rwlevel_max_size_ = 3
    max_undumped_size_ = 4
    max_levels0_ = 3
    Users = {runtime, background}
    Readers = {reader}
    BackgroundUsers = {background}
    Workers = {w1, w2, w3}
    Modes = {"BLOCK_RUNTIME"}
    InitialLevels <- MCDirectories
    MaxDumps = 0
    MaxFailures = 1
    MaxCorrupted = 0
SYMMETRY MCSymmetry
CHECK_DEADLOCK FALSE
INVARIANTS
    LatestWins
    ReadsLatest
    LevelsOrdered
    EveryTaskOnce
    SizesCounted
    NobodyWaitsInVain
PROPERTIES
    DumpSaves
