SPECIFICATION RunSpec
CONSTANTS
    Routings = {"NATIVE", "ARM64X", "X86_64", "I386"}
    SvcBoundaries = TRUE
    Link = {"native"}
    Total = 2
    Segment = 1
    MaxCallbacks = 1
    MaxNesting = 2
    MaxCookie = 2
INVARIANTS
    PausedFramesKept

    
    
