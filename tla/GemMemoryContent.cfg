SPECIFICATION Spec
CONSTANTS
    Top = 7
    KuserShared = 1
    KuserCanonical = 5
    SearchBase = 2
    MaxReservation = 3
    b1 = b1
    b2 = b2
    b3 = b3
    b4 = b4
    Backings <- MCBackings
    NoBacking = NoBacking
    NoHost = NoHost
    Zero = 0
    HostPages = {2, 9}
    VolatileHosts = {9}
    Contents = {0, 1}
    Garbage = {2}
    Ranges <- ContentRanges
    Protections <- ContentProtections
    MaxGeneration = 9
SYMMETRY MCSymmetry
CHECK_DEADLOCK FALSE
PROPERTIES
    ContentChangesAreStamped
    WriteCopyIsolation
    RemapIsFresh
