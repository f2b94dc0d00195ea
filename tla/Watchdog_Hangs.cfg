SPECIFICATION FairSpec
CONSTANTS
    MaxPid = 3
    CallBuffSize = 4
    NULL = NULL
    Wild = Wild
    Slack = {NULL}
    GuidePid = 1
    DispatchSize = 4
    QueueSize = 1
    MaxTries = 2
    Faults = {}
    Unwanted = {}
    Mortal = {}
    Clients = {}
    Workloads <- SilentWorkload
    VitalsEvery = 1
    DispatchEvery = 1
    CanExpire = FALSE
PROPERTIES StopsWhenTold
CHECK_DEADLOCK FALSE
