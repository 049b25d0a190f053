SPECIFICATION TSpec
CONSTANTS
    Top = 5
    KuserShared = 1
    KuserCanonical = 3
    SearchBase = 2
    MaxReservation = 1
    b1 = b1
    b2 = b2
    b3 = b3
    t1 = t1
    t2 = t2
    Backings <- MCBackings
    NoBacking = NoBacking
    NoHost = NoHost
    Zero <- MCZero
    HostPages = {}
    VolatileHosts = {}
    Contents <- MCContents
    Garbage = {0}
    Ranges <- AliasRanges
    Protections <- AliasProtections
    MaxGeneration = 7
    Threads <- MCThreads
    TxnPages = {1, 3}
    Stores <- TwoStores
    Lines = {1, 2}
    MaxDeps = 2
    Stripe <- MCStripe
    Hash <- MCHash
SYMMETRY MCSymmetry
CHECK_DEADLOCK FALSE
INVARIANTS
    TTypeOK
    ValidatedReadsAreCurrent
    AliasesCommitAlone
PROPERTIES
    CommitLands
