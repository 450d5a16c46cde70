SPECIFICATION FairSpec
CONSTANTS
    Threads = {t1, t2, t3}
    Keys = {k1, k2}
    Holders = {h1, h2}
    NoThread = NoThread
    NoHolder = NoHolder
    max_waiters_ = 2
    FailNew = {k2}
    FailOpened = TRUE
INVARIANTS NoDanglingHolder LockCountCovers CheckedWaitersBounded NothingLeaks
PROPERTIES ImplementsKeyMutex SomebodyGetsIn
