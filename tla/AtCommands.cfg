SPECIFICATION FairSpec
CONSTANTS
    Callers = {c1, c2}
    Requests <- MCRequests
    Answers <- MCAnswers
    Unsolicited <- MCUnsolicited
    RequestDepth = 1
    RxDepth = 1
    UrcDepth = 1
    MaxChunk = 2
    MaxSerial = 2
    MaxDisturbances = 1
INVARIANTS
    ResponseIsOwn
    
    PromptsMatched
PROPERTIES
    CallersReleased
CHECK_DEADLOCK FALSE
