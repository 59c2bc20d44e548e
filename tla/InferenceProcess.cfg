SPECIFICATION FairSpec
CONSTANTS
    a = a
    b = b
    c = c
    s1 = s1
    s2 = s2
    m1 = m1
    m2 = m2
    None = None
    Run <- MCRun
    SessionOf <- MCSession
    ModelOf <- MCModel
    MaxTokens = 1
    Scenarios <- MCScenarios
INVARIANTS
    CleanStart
    
PROPERTIES
    RunsEnd
