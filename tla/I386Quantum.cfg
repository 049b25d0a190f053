SPECIFICATION Spec
CONSTANTS
    t1 = t1
    x = x
    y = y
    Threads <- OneThread
    Pages <- MCPages
    Program <- Straight
    Budgets = {0, 1, 3, 9}
    MaxBudget = 5
    InitialQuantum = 2
    MaxQuantum = 4
    YieldAfter = 2
    MaxStamp = 12
    MaxOther = 2
INVARIANTS
    TypeOK
    
    NoLostStore
PROPERTIES
    RunReturns
