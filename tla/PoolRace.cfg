SPECIFICATION Spec
CONSTANTS
    t1 = t1
    t2 = t2
    t3 = t3
    t4 = t4
    w1 = w1
    w2 = w2
    NoTask = NoTask
    Task <- MCTask
    Worker <- MCWorker
    SubmitterOf <- MCTwoSubmitters
INVARIANTS
    InlineOnlyAfterShutdown
CHECK_DEADLOCK FALSE
