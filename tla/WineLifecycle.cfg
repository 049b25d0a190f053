SPECIFICATION Spec
CONSTANTS
    h1 = h1
    h2 = h2
    t1 = t1
    t2 = t2
    t3 = t3
    NoHost = NoHost
    Host = {h1, h2}
    Thread = {t1, t2, t3}
    MaxCalls = 3
    SelfDestroy = FALSE
SYMMETRY Symmetry
INVARIANTS
    UsedThreadsAreAlive
    BrokerReachesEveryThread
    
    NoLockCycle
