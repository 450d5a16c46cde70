SPECIFICATION Spec
CONSTANTS
    Users = {owner, adder, waiter}
    Waiters = {waiter}
    Children = {c1, c2, c3}
    NoUser = NoUser
    MaxFailures = 1
INVARIANTS
    StoppedMeansStopped
    AddedOrder
    NobodyWaitsInVain
PROPERTIES
    WaitReturns
