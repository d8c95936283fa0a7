SPECIFICATION FairSpec
CONSTANTS
    Capacity = 2
    IdMax = 4
    MaxSegments = 1
    Recipients = {"p"}
    RefMax = 4
    ReportKinds = {"delivered"}
    MaxRetries = 0
    MaxFaults = 0
    MaxCrashes = 1
INVARIANTS
    StatusTruthful
PROPERTIES
    UnfinishedNeverLost
    AcceptedIsSettled
