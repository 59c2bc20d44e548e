SPECIFICATION Spec
CONSTANTS
    j1 = j1
    j2 = j2
    j3 = j3
    s1 = s1
    s2 = s2
    NoJob = NoJob
    NoSession = NoSession
    Session <- MCSession
    SessionOf <- MCSessionOf
    LaneOf <- MCLaneOf
    MaxConcurrent = 2
    Job <- MCThreeJobs
    PostTurnJobs <- MCOneJob
    CancelledJobs <- MCOneJob
    StopModes = {}
    WorkerMayDie = FALSE
    LoadMayFail = FALSE
    DrainsAllowed = FALSE
INVARIANTS
    OneJobPerSession
    SessionReserved
    NoSilentDrop
PROPERTIES
    OvertakesOnlyBusy
CHECK_DEADLOCK FALSE
