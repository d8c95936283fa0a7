SPECIFICATION FairSpec
CONSTANTS
    QueueDepth = 3
    SetupAttempts = 2
    StoredAtFirst = {"none", "good", "bad"}
    MaxDisturbances = 3
INVARIANTS
    SetupResultTruthful
PROPERTIES
    ReachableAgain
    StationReconnects
    ApiComesBack
