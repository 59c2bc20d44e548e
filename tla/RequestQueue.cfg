SPECIFICATION FairSpec
CONSTANTS
    s1 = s1
    s2 = s2
    r1 = r1
    r2 = r2
    r3 = r3
    None = None
    Session <- MCSession
    Request <- MCRequest
    SessionOf <- MCSessionOf
    Streaming = {r2}
    QueueSize = 1
    Envs <- MCEnvs
CHECK_DEADLOCK FALSE
INVARIANTS
    OneOnDsp
PROPERTIES
    EveryRequestAnswered
    LockIsReleased
    GateSpec
