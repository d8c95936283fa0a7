SPECIFICATION FairSpec
CONSTANTS
    Capacity = 1
    IdMax = 8
    Pdus <- SinglesAndInvalid
    Indexes = {1, 2}
    Batch = 2
    MaxArrivals = 1
    MaxDeletes = 1
    MaxFaults = 1
    MaxCrashes = 1
PROPERTIES
    OnlyPublishedPruned
    InboxDrained
