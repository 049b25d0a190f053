SPECIFICATION Spec
CONSTANTS
    t1 = t1
    t2 = t2
    t3 = t3
    Threads <- MCThreads
    NoThread = NoThread
    Stripes = {1, 2, 3}
    Plans <- MCPlans
    MaxDepth = 2
    OwnPages = FALSE
    FaultPlans <- OtherPage
INVARIANTS
    StripeExclusion
    WaitersHoldMetadata
    
PROPERTIES
    MetadataIsReleased
