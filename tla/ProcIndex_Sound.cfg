SPECIFICATION Spec
CONSTANTS
    MaxPid = 5
    CallBuffSize = 4
    NULL = NULL
    Wild = Wild
    Slack = {NULL, Wild}
    GuidePid = 1
    Pids = {3, 4, 6}
    DispatchSize = 1
    MaxExecs = 2
    MaxOpens = 3
INVARIANTS TypeOK IndexSound OneOwner AcceptedAreArchived
PROPERTIES KnownLosses BookedOnNewest
CHECK_DEADLOCK FALSE
