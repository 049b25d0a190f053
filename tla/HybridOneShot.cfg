SPECIFICATION Spec
CONSTANTS
    arm = arm
    x64 = x64
    after = after
    ret = ret
    host = host
    Address <- MCAddress
    Resolve <- MCResolve
    Thunk <- MCThunk
    Sentinel = ret
    HostReturn = host
    Control <- MCControl
    Words = 3
    GuestValue = {after}
    MaxBudget = 5
    MaxCookie = 2
INVARIANTS
    IdleIsClean
    FramesBalanced
    NoStrayRecord
PROPERTIES
    OperationEnds
