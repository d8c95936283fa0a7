SPECIFICATION Spec
CONSTANTS
    Capacity = 2
    IdMax = 4
    Records <- MCRecords
    MaxAllocations = 3
    MaxFaults = 1
    MaxCrashes = 1
INVARIANTS
    IdsNeverReused
PROPERTIES
    JournalSpec
