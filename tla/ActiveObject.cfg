SPECIFICATION FairSpec
CONSTANTS
    Controllers = {owner, other}
    Activators = {owner}
    Waiters = {owner}
    ThreadIds = {w1, w2, w3}
    Nobody = Nobody
    threads_number = 2
    MayFail = {"attr", "create"}
    MaxFailures = 1
INVARIANTS StoppedMeansStopped ThreadsInOrder
PROPERTIES ImplementsLifecycle WaitReturns
