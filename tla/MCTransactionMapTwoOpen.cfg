SPECIFICATION Spec
CONSTANTS
    Threads = {t1, t2, t3}
    Keys = {k1}
    Holders = {h1, h2, h3}
    NoThread = NoThread
    NoHolder = NoHolder
    max_waiters_ = 0
    FailNew = {k1}
    FailOpened = FALSE
SYMMETRY Symmetry
INVARIANT OneTransactionPerKey
