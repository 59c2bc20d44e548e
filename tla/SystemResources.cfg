SPECIFICATION Spec
CONSTANTS
    LLM = LLM
    VLM = VLM
    None = None
    Manager <- MCManager
    Marks <- MCMarks
    Models <- MCModels
    Memory <- MCMemory
    Total = 100
    Percent = 15
    Scenarios <- MCScenarios
INVARIANTS
    PromiseKept
    
