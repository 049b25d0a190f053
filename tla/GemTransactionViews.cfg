SPECIFICATION TSpec
CONSTANTS
    Top = 5
    KuserShared = 1
    KuserCanonical = 3
    SearchBase = 2
    MaxReservation = 1
    b1 = b1
    b2 = b2
    b3 = b3
    t1 = t1
    t2 = t2
    Backings <- MCBackings
    NoBacking = NoBacking
    NoHost = NoHost
    Zero <- MCZero
    HostPages = {2}
    VolatileHosts = {2}
    Contents <- MCContents
    Garbage = {0}
    Ranges <- CopyRanges
    Protections <- HostProtections
    MaxGeneration = 8
    Threads <- MCThreads
    TxnPages = {2}
    Stores <- MCStores
    Lines = {1, 2}
    MaxDeps = 2
    Stripe <- MCStripe
    Hash <- MCHash
SYMMETRY MCSymmetry
CHECK_DEADLOCK FALSE
INVARIANTS
    PinsExact

    
