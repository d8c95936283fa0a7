SPECIFICATION FairSpec
CONSTANTS
    Images <- MCImages
    Factory <- MCFactory
    SafeAfter = 3
    DeepAfter = 6
    MaxDisturbances = 3
INVARIANTS
    AlwaysBootable
    PolicyFollowsPrecedence
    SafeModeFollowsCrashes
    
PROPERTIES
    Settles
CHECK_DEADLOCK FALSE
