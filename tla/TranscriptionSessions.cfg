SPECIFICATION Spec
CHECK_DEADLOCK FALSE
CONSTANTS
    r1 = r1
    r2 = r2
    r3 = r3
    None = None
    Request <- MCRequest
    MaxSwitch = 1
    Scenarios <- MCScenarios
INVARIANTS
    SessionBacked
    SlotNotLeaked
PROPERTIES
    Answered
