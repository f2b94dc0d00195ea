SPECIFICATION Spec
CONSTANTS
    MaxPid = 5
    CallBuffSize = 4
    NULL = NULL
    Wild = Wild
    Slack = {NULL}
    GuidePid = 1
    DispatchSize = 1
    QueueSize = 1
    MaxTries = 2
    Faults = {}
    Unwanted <- SecondOpen
    Mortal = {2}
    Clients = {}
    Workloads <- AllWorkloads
    VitalsEvery = 1
    DispatchEvery = 1
    CanExpire = TRUE
INVARIANTS TypeOK NoLateCalls NoCallVanishes OnlyCallInHandLost
PROPERTIES MergesByTime
CHECK_DEADLOCK FALSE
