SPECIFICATION Spec
CONSTANTS
    Capacity = 4
    IdMax = 12
    Pdus <- ManyParts
    Indexes = {1, 2}
    Batch = 2
    MaxArrivals = 1
    MaxDeletes = 0
    MaxFaults = 1
    MaxCrashes = 1
INVARIANTS
    HandedOverKept
    MessagesIntact
    AnnouncedOnce
