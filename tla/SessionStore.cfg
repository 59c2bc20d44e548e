SPECIFICATION Spec
CONSTANTS
    Client = {a, b}
    Text = {"x", "y"}
    Request = {1, 2, 3, 4}
    Session = {1, 2, 3}
    MaxTurns = 3
    Scenarios <- MCScenarios
    None = None
CHECK_DEADLOCK FALSE
INVARIANTS
    
    HashesLead
    ToolsLead
