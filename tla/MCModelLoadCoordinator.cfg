SPECIFICATION FairSpec
CONSTANTS
    r1 = r1
    r2 = r2
    r3 = r3
    Runtime <- MCRuntime
    Memory <- MCMemory
    Headroom = 1
    TotalMemory = 4
    MaxExternal = 1
INVARIANTS
    CountsMatchOwners
    LoadReclaimExclusion
    HeadroomKept
PROPERTIES
    NoGrantDuringReclaim
    ReclaimStarts
    ShutdownUnblocksAcquire
