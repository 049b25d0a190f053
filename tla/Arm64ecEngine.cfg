SPECIFICATION Spec
CONSTANTS
    Program <- MCProgram
    Profiles = {"SVC", "PRECISE", "NATIVE"}
    Links = {1, 5, 6, 10, 12}
    Budgets = {0, 2, 4, 5}
    MaxBudget = 4
    Limits = {0, 1}
    MaxResumes = 1
    Wrap = 4
    MaxRequests = 1
CHECK_DEADLOCK FALSE
INVARIANTS
    
    StopsAtCause
PROPERTIES
    RunReturns
