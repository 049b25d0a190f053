SPECIFICATION Spec
CONSTANTS
    Top = 7
    KuserShared = 1
    KuserCanonical = 5
    SearchBase = 2
    MaxReservation = 3
    b1 = b1
    b2 = b2
    b3 = b3
    b4 = b4
    Backings <- MCBackings
    NoBacking = NoBacking
    NoHost = NoHost
    Zero = 0
    HostPages = {}
    VolatileHosts = {}
    Contents = {0}
    Garbage = {0}
    Ranges <- TopologyRanges
    Protections <- TopologyProtections
    MaxGeneration = 8
SYMMETRY MCSymmetry
CHECK_DEADLOCK FALSE
INVARIANTS
    TypeOK
    ReservationsWellFormed
    RefsExact
