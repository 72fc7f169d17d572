SPECIFICATION FairSpec
CONSTANTS
    None = None
    Amounts = {0, 1, 2}
    InitialMinimumFee = 1
    MinimumFees = {0, 2}
    Limits = {0, 2}
    InitialLimit = 2
    Period = 1
    L2Ether = 6
    EventsQueueMaxCapacity = 2
    MaxMessagesToAnchor = 2
    MaxMessages = 3
    Bounds <- MCBounds
INVARIANTS
    IInv
    L1IsSolvent
PROPERTIES
    ImplementsMessageChannels
    
CHECK_DEADLOCK FALSE
