SPECIFICATION FairSpec
CONSTANTS
    MaxMessages = 2
    Capacity = 1
    WorkDepth = 2
    PacketIds = {1, 2}
    OutboxLimit = 2
    MaxDisturbances = 2
INVARIANTS
    AtLeastOnce
PROPERTIES
    EveryMessagePublished
    
CHECK_DEADLOCK FALSE
