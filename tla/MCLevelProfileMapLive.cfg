SPECIFICATION FairSpec
CONSTANTS
    Keys = {k1}
    MaxCalls = 3
    rwlevel_max_size_ = 2
    max_undumped_size_ = 4
    max_levels0_ = 2
    Users = {runtime, background}
    Readers = {}
    BackgroundUsers = {background}
    Workers = {w1, w2}
    Modes = {"BLOCK_RUNTIME", "NONBLOCK_RUNTIME"}
    InitialLevels <- MCEmptyDirectory
    MaxDumps = 1
    MaxFailures = 1
    MaxCorrupted = 0
CHECK_DEADLOCK FALSE
PROPERTIES
    SaveGetsThrough
    DumpReturns
