SPECIFICATION FairSchSpec
CONSTANTS
    Controllers = {owner}
    Activators = {owner}
    Waiters = {owner}
    ThreadIds = {w1}
    Nobody = Nobody
    threads_number = 1
    MayFail = {}
    MaxFailures = 0
    m1 = m1
    m2 = m2
    g1 = g1
    g2 = g2
    Users = {u1, u2}
    Messages = {m1, m2}
    Goals = {g1, g2}
    goal <- MCGoal
    Never = Never
    Adjustments = {TRUE}
    MaxTime = 3
CHECK_DEADLOCK FALSE
INVARIANT NoOversleep
PROPERTIES ImplementsAlarms GoalsDelivered WaitReturns
