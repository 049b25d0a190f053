SPECIFICATION Spec
CONSTANTS
    arm = arm
    x64 = x64
    ret = ret
    host = host
    Address <- MCAddress
    GuestValue = {x64}
    Link = {arm}
    Resolve <- MCResolve
    Thunk <- MCThunk
    Sentinel = ret
    HostReturn = host
    SvcTrap = FALSE
    Words = 2
    MaxBudget = 1
    MaxCookie = 2
INVARIANTS
    TypeOK
    Resumable
    FrameDiscipline
    NoStrayRecord
PROPERTIES
    ImplementsCallStack
    RunTerminates
