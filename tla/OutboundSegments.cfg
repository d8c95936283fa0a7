SPECIFICATION Spec
CONSTANTS
    Capacity = 2
    IdMax = 2
    MaxSegments = 2
    Recipients = {"p"}
    RefMax = 5
    ReportKinds = {"delivered", "permanent", "temporary"}
    MaxRetries = 1
    MaxFaults = 1
    MaxCrashes = 1
INVARIANTS
    AtMostOncePerApproval
    StatusTruthful
PROPERTIES
    FinalStatusLeftByStaleRetryOnly
