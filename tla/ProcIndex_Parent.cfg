SPECIFICATION Spec
CONSTANTS
    MaxPid = 9
    CallBuffSize = 4
    NULL = NULL
    Wild = Wild
    Slack = {NULL}
    GuidePid = 1
    Pids = {1, 2}
    DispatchSize = 5
    MaxExecs = 2
    MaxOpens = 3
INVARIANTS NeverCrashes
CHECK_DEADLOCK FALSE
