SPECIFICATION FairTRSpec
CONSTANTS
    Controllers = {owner}
    Activators = {owner}
    Waiters = {owner}
    ThreadIds = {w1, w2}
    Nobody = Nobody
    threads_number = 2
    MayFail = {}
    MaxFailures = 0
    Producers = {p1, p2}
    Tasks = {x1, x2}
    NoTask = NoTask
    max_pending_tasks = 1
    PushMayFail = TRUE
    MayClear = TRUE
CHECK_DEADLOCK FALSE
INVARIANT TokensMatchTasks
PROPERTIES AcceptedTasksRun WaitReturns
