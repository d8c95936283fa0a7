SPECIFICATION FairSpec
CONSTANTS
    Ports = {1, 2}
    AtPorts = {2}
    Handles = {h1, h2}
    WorkDepth = 2
    Retries = 1
    MaxDevices = 2
    QueueDepth = 2
    Threshold = 2
    HardResetAfter = 2
    StablePolls = 1
    PowerControl = TRUE
    AssertPolls = 1
    CooldownPolls = 0
    ServiceDepth = 1
    SimReports = {"ready", "pin"}
    NetworkReports = {TRUE}
    EnumeratesAs = {"storage", "modem"}
    StatusLines = {"registered", "unregistered", "sim_ready", "sim_pin"}
    MaxDisturbances = 1
INVARIANTS
    HandleTracked
    PowerComesBack
    SendsToConfigured

    
CHECK_DEADLOCK FALSE
