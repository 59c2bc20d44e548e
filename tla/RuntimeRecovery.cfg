SPECIFICATION Spec
CONSTANTS
    j1 = j1
    j2 = j2
    j3 = j3
    s1 = s1
    s2 = s2
    NoJob = NoJob
    NoSession = NoSession
    Session <- MCSession
    SessionOf <- MCSessionOf
    LaneOf <- MCLaneOf
    MaxConcurrent = 2
    Job <- MCTwoJobs
    PostTurnJobs = {}
    CancelledJobs <- MCOneJob
    StopModes = {}
    WorkerMayDie = TRUE
    LoadMayFail = TRUE
    DrainsAllowed = TRUE
INVARIANTS
    LoadOrDrain
    ActivationBacked
    RecoveryQuiet
    SingleReclaim
    

    
CHECK_DEADLOCK FALSE
