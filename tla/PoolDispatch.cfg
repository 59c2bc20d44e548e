SPECIFICATION FairSpec
CONSTANTS
    t1 = t1
    t2 = t2
    t3 = t3
    t4 = t4
    w1 = w1
    w2 = w2
    NoTask = NoTask
    Task <- MCTask
    Worker <- MCWorker
    SubmitterOf <- MCOneSubmitter
INVARIANTS
    
    InlineOnlyAfterShutdown
PROPERTIES
    EveryTaskRuns
    ShutdownDrains
CHECK_DEADLOCK FALSE
