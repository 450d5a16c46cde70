SPECIFICATION Spec
CONSTANTS
    Controllers = {owner}
    Activators = {owner}
    Waiters = {owner}
    ThreadIds = {w1, w2, w3}
    Nobody = Nobody
    threads_number = 2
    MayFail = {"create"}
    MaxFailures = 1
INVARIANT FailedStartRunsNothing
CHECK_DEADLOCK FALSE
