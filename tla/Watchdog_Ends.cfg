SPECIFICATION FairSpec
CONSTANTS
    MaxPid = 3
    CallBuffSize = 4
    NULL = NULL
    Wild = Wild
    Slack = {NULL}
    GuidePid = 1
    DispatchSize = 4
    QueueSize = 1
    MaxTries = 2
    Faults = {"open", "ctrl"}
    Unwanted = {}
    Mortal = {}
    Clients = {"restart"}
    Workloads <- FairWorkloads
    VitalsEvery = 1
    DispatchEvery = 1
    CanExpire = FALSE
INVARIANTS PromiseBinds
PROPERTIES QueuesDrain StopsWithoutTracers
CHECK_DEADLOCK FALSE
